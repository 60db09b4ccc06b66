---------------------------- MODULE WebhookJobs ----------------------------
(***************************************************************************)
(* The delivery of one webhook event by the API: a queued job that runs the *)
(* retry curve (services/webhook_worker.ts, lib/webhook-queue.ts), and the  *)
(* manual retries of merchant and operator, which make a single attempt     *)
(* (routes/webhooks.ts, routes/webhooks-admin.ts).  Both run                *)
(* dispatchAndPersistWebhook over the row of the event, and the last to     *)
(* finish writes the outcome.                                               *)
(*                                                                         *)
(* External: the merchant's server, whose reply may be lost, and the queue, *)
(* which hands a job out again when its worker died or seems to, once: the  *)
(* worker sets no maxStalledCount, and a job that stalls more often is      *)
(* moved to failed, of which the worker only keeps a log.                   *)
(***************************************************************************)
EXTENDS Naturals

CONSTANTS Runs,         \* dispatches that may be under way at once
          MaxAttempts,  \* bound of the retry curve
          MaxRetries,   \* bound: manual retries
          MaxStalls     \* bound: stalls, crashes and failing writes

MaxStalledCount == 1

ASSUME JobsAssumption == MaxAttempts \in Nat \ {0}

VARIABLES outcome,  \* status of the row
          queued,   \* the job waits in the queue
          holds,    \* the dispatch that has the lock of the job, if any
          stalled,  \* how often the job has stalled
          run,      \* run[x]: what dispatch x is doing, as a job or by hand
          retries, stalls,
          taken,    \* history: the merchant has accepted the event
          fresh,    \* history: and he did since the row was last reset
          doubt,    \* history: since then a reply was lost, or a job was handed out again
          left      \* history: a retry by hand died, the queue gave the job up, or an
                    \* outcome could not be written

jobVars == <<outcome, queued, holds, stalled, run, retries, stalls, taken, fresh, doubt, left>>

NoRun == [is |-> "nothing", attempt |-> 0, at |-> "rest"]
Busy == {x \in Runs : run[x] # NoRun}

JobsInit ==
  /\ outcome = "absent"
  /\ queued = FALSE /\ holds = {} /\ stalled = 0
  /\ run = [x \in Runs |-> NoRun]
  /\ retries = 0 /\ stalls = 0
  /\ taken = FALSE /\ fresh = FALSE /\ doubt = FALSE /\ left = FALSE

(* The job's id is the event's: a second one is dropped.                    *)
Enqueue ==
  /\ outcome = "absent"
  /\ queued' = TRUE
  /\ UNCHANGED <<outcome, holds, stalled, run, retries, stalls, taken, fresh, doubt, left>>

Begin(x, is) ==
  /\ run[x] = NoRun
  /\ run' = [run EXCEPT ![x] = [is |-> is, attempt |-> 1, at |-> "merchant"]]

(* ensurePendingRow leaves a row that exists as it is.                      *)
StartJob(x) ==
  /\ queued
  /\ queued' = FALSE
  /\ holds' = {x}
  /\ Begin(x, "job")
  /\ outcome' = IF outcome = "absent" THEN "pending" ELSE outcome
  /\ UNCHANGED <<stalled, retries, stalls, taken, fresh, doubt, left>>

(* Mutant: an event that is pending is retried as well.                     *)
MayRetryPending == outcome # "absent"
MayRetry == outcome \notin {"absent", "pending"}

(* resetWebhookEventForRetry                                                *)
RetryByHand(x) ==
  /\ retries < MaxRetries
  /\ retries' = retries + 1
  /\ MayRetry
  /\ outcome' = "pending"
  /\ Begin(x, "hand")
  /\ fresh' = FALSE
  /\ doubt' = (doubt /\ (Busy # {} \/ queued))
  /\ UNCHANGED <<queued, holds, stalled, stalls, taken, left>>

(* The merchant's server ----------------------------------------------------*)

Receives(x, reply) ==
  /\ run[x].at = "merchant"
  /\ run' = [run EXCEPT ![x].at = reply]
  /\ UNCHANGED <<outcome, queued, holds, stalled, retries, stalls, left>>

Accept(x) ==
  /\ Receives(x, "accepted")
  /\ taken' = TRUE /\ fresh' = TRUE
  /\ UNCHANGED doubt

AcceptUnheard(x) ==
  /\ Receives(x, "refused")
  /\ taken' = TRUE /\ fresh' = TRUE /\ doubt' = TRUE

(* A status worth a retry, a transport error, or a status that is final.    *)
Refuse(x, how) ==
  /\ how \in {"refused", "final"}
  /\ Receives(x, how)
  /\ UNCHANGED <<taken, fresh, doubt>>

(* The dispatcher -----------------------------------------------------------*)

Budget(x) == IF run[x].is = "job" THEN MaxAttempts ELSE 1

Finalize(x, status) ==
  /\ outcome' = status
  /\ run' = [run EXCEPT ![x] = NoRun]
  /\ holds' = holds \ {x}
  /\ UNCHANGED <<queued, stalled, retries, stalls, taken, fresh, doubt, left>>

Deliver(x) == run[x].at = "accepted" /\ Finalize(x, "sent")

DeadLetter(x) ==
  /\ \/ run[x].at = "final"
     \/ run[x].at = "refused" /\ run[x].attempt = Budget(x)
  /\ Finalize(x, "dead")

TryAgain(x) ==
  /\ run[x].at = "refused" /\ run[x].attempt < Budget(x)
  /\ run' = [run EXCEPT ![x].attempt = @ + 1, ![x].at = "merchant"]
  /\ UNCHANGED <<outcome, queued, holds, stalled, retries, stalls, taken, fresh, doubt, left>>

(* Faults -------------------------------------------------------------------*)

StallFault == stalls < MaxStalls /\ stalls' = stalls + 1

(* The queue finds the job of x without a lock: it waits again, or has      *)
(* stalled too often and fails for good.                                    *)
Stalls(x) ==
  /\ holds' = holds \ {x}
  /\ stalled' = stalled + 1
  /\ queued' = (stalled < MaxStalledCount)
  /\ left' = (left \/ stalled >= MaxStalledCount)

(* The queue takes a worker that works for dead.                            *)
HandOutAgain(x) ==
  /\ StallFault
  /\ x \in holds
  /\ Stalls(x)
  /\ doubt' = TRUE
  /\ UNCHANGED <<outcome, run, retries, taken, fresh>>

(* A manual retry is not run again, nor a job that was handed out since.    *)
DieRunning(x) ==
  /\ StallFault
  /\ run[x] # NoRun
  /\ run' = [run EXCEPT ![x] = NoRun]
  /\ IF x \in holds
     THEN Stalls(x)
     ELSE /\ left' = (left \/ run[x].is = "hand")
          /\ UNCHANGED <<queued, holds, stalled>>
  /\ doubt' = (doubt \/ run[x].is = "job")
  /\ UNCHANGED <<outcome, retries, taken, fresh>>

(* finalizeWebhookEvent throws, as it does once the shutdown has closed the *)
(* database under the worker: the job has one attempt and is not rerun.     *)
FinalizeFails(x) ==
  /\ StallFault
  /\ \/ run[x].at \in {"accepted", "final"}
     \/ run[x].at = "refused" /\ run[x].attempt = Budget(x)
  /\ run' = [run EXCEPT ![x] = NoRun]
  /\ holds' = holds \ {x}
  /\ left' = TRUE
  /\ UNCHANGED <<outcome, queued, stalled, retries, taken, fresh, doubt>>

JobsNext ==
  \/ Enqueue
  \/ \E x \in Runs :
       \/ StartJob(x) \/ RetryByHand(x) \/ Accept(x) \/ AcceptUnheard(x)
       \/ Refuse(x, "refused") \/ Refuse(x, "final") \/ Deliver(x) \/ DeadLetter(x)
       \/ TryAgain(x) \/ HandOutAgain(x) \/ DieRunning(x) \/ FinalizeFails(x)

JobsSpec == JobsInit /\ [][JobsNext]_jobVars

(* A row that says "sent" was accepted, and unless a reply was lost or a    *)
(* job ran twice, since its last reset; one that says "dead" was then not;  *)
(* and one that is pending has a dispatch under way or waiting, unless a    *)
(* retry by hand died, the job stalled twice or an outcome could not be     *)
(* written: then it is pending for good, as a pending event cannot be       *)
(* retried.                                                                 *)
RowTellsTheTruth ==
  /\ outcome = "sent" => taken
  /\ outcome = "sent" /\ ~doubt => fresh
  /\ outcome = "dead" /\ ~doubt => ~fresh
  /\ outcome = "pending" => Busy # {} \/ queued \/ left

(* By hand: an accepted event is not dead.  Violated by a lost reply, and   *)
(* by a job handed out again whose first run delivers it.                   *)
AcceptedIsNotDead == outcome = "dead" => ~fresh

(* By hand: no row is pending for good.  Violated by a manual retry whose   *)
(* process dies, and by a job whose worker dies twice.                      *)
NotPendingForGood == outcome = "pending" => Busy # {} \/ queued

JobsTypeOK ==
  /\ outcome \in {"absent", "pending", "sent", "dead"}
  /\ \A x \in Runs :
       run[x] = NoRun \/ /\ run[x].is \in {"job", "hand"}
                         /\ run[x].attempt \in 1 .. Budget(x)
                         /\ run[x].at \in {"merchant", "accepted", "refused", "final"}
  /\ holds \subseteq Busy /\ stalled \in 0 .. MaxStalls
  /\ retries \in 0 .. MaxRetries /\ stalls \in 0 .. MaxStalls
  /\ {queued, taken, fresh, doubt, left} \subseteq BOOLEAN
=============================================================================
