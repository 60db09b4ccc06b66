--------------------------- MODULE CloudDispatcher ---------------------------
(***************************************************************************)
(* The multi-tenant delivery loop of the cloud                              *)
(* (cloud/src/webhook-fleet.ts, CloudWebhookDispatcher).  Unlike the        *)
(* listener's, a tick lists the due events only for their ids: deliverOne   *)
(* lists again, and looks the id up in what it gets.                        *)
(*                                                                          *)
(* External: the tenants' endpoints.                                        *)
(***************************************************************************)
EXTENDS Integers, FiniteSets

CONSTANTS
  Events,        \* ids of the events the watchers record
  None,          \* no event
  WithWebhook,   \* events whose merchant has a webhook
  RetryDelay,    \* RetryDelay[n]: nextRetryDate(n), from now
  BatchSize,     \* batchSize
  MaxNow         \* bound: the clock

MAX_ATTEMPTS == Cardinality(DOMAIN RetryDelay)
Epoch == 0       \* new Date(0)

VARIABLES
  now,
  nextAttempt,   \* nextAttempt[e]: next_attempt_at; Epoch: not recorded
  attempts,      \* attempts[e]
  delivered,     \* events with a delivered_at
  listed,        \* ids the tick has still to deliver
  inHand,        \* the event deliverOne found, or None
  sent           \* history: events POSTed at least once

vars == <<now, nextAttempt, attempts, delivered, listed, inHand, sent>>

Init ==
  /\ now = Epoch + 1
  /\ nextAttempt = [e \in Events |-> Epoch]
  /\ attempts = [e \in Events |-> 0]
  /\ delivered = {} /\ listed = {} /\ inHand = None /\ sent = {}

Recorded == {e \in Events : nextAttempt[e] # Epoch}

(* getDueWebhookEvents: the first `limit` events due at `cutoff`.          *)
DueAt(cutoff) == {e \in Recorded \ delivered : nextAttempt[e] <= cutoff}
IsListing(S, cutoff, limit) ==
  /\ S \subseteq DueAt(cutoff)
  /\ Cardinality(S) <= limit
  /\ \A e \in DueAt(cutoff) \ S :
       Cardinality(S) = limit /\ \A f \in S : nextAttempt[f] <= nextAttempt[e]

TimePasses ==
  /\ now < MaxNow /\ now' = now + 1
  /\ UNCHANGED <<nextAttempt, attempts, delivered, listed, inHand, sent>>

Record(e) ==
  /\ e \notin Recorded
  /\ nextAttempt' = [nextAttempt EXCEPT ![e] = now]
  /\ UNCHANGED <<now, attempts, delivered, listed, inHand, sent>>

Tick ==
  /\ listed = {} /\ inHand = None
  /\ \E S \in SUBSET Events : IsListing(S, now, BatchSize) /\ listed' = S
  /\ UNCHANGED <<now, nextAttempt, attempts, delivered, inHand, sent>>

(* deliverOne: what the second listing holds of the event.                 *)
FindEvent(e) ==
  /\ e \in listed /\ inHand = None
  /\ listed' = listed \ {e}
  /\ \E S \in SUBSET Events :
       /\ IsListing(S, Epoch, BatchSize + 1)
       /\ inHand' = IF e \in S /\ attempts[e] < MAX_ATTEMPTS THEN e ELSE None
  /\ UNCHANGED <<now, nextAttempt, attempts, delivered, sent>>

markWebhookDelivered(ok) ==
  /\ attempts' = [attempts EXCEPT ![inHand] = @ + 1]
  /\ IF ok
       THEN delivered' = delivered \cup {inHand} /\ UNCHANGED nextAttempt
       ELSE /\ nextAttempt' = [nextAttempt EXCEPT ![inHand] =
                                 now + RetryDelay[attempts[inHand] + 1]]
            /\ UNCHANGED delivered
  /\ inHand' = None
  /\ UNCHANGED <<now, listed>>

(* No webhook to deliver to: the event is retired.                         *)
Retire ==
  /\ inHand # None /\ inHand \notin WithWebhook
  /\ markWebhookDelivered(TRUE)
  /\ UNCHANGED sent

(* The URL is no longer a public one: a failed attempt, without a request. *)
UrlRejected ==
  /\ inHand \in WithWebhook
  /\ markWebhookDelivered(FALSE)
  /\ UNCHANGED sent

Post ==
  /\ inHand \in WithWebhook
  /\ sent' = sent \cup {inHand}
  /\ \E ok \in BOOLEAN : markWebhookDelivered(ok)

Loop == Tick \/ (\E e \in listed : FindEvent(e)) \/ Retire \/ UrlRejected \/ Post

Next == TimePasses \/ (\E e \in Events : Record(e)) \/ Loop

Spec == Init /\ [][Next]_vars

(* Time passes and the loop reschedules itself; a URL is not rejected      *)
(* whenever it is checked.                                                 *)
FairSpec == Spec /\ WF_vars(TimePasses) /\ WF_vars(Loop) /\ SF_vars(Post)

-----------------------------------------------------------------------------
(* "Deliver one event to its OWNING merchant's webhook endpoint"           *)
(* (webhook-fleet.ts): a recorded event whose merchant has a webhook is    *)
(* POSTed to it.                                                           *)
EveryEventIsSent == \A e \in WithWebhook : e \in Recorded ~> e \in sent
=============================================================================
