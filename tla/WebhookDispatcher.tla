-------------------------- MODULE WebhookDispatcher --------------------------
(***************************************************************************)
(* Delivery of the webhook events (listener/src/webhook-dispatcher.ts) over *)
(* the event store (storage/json.ts, storage/sqlite.ts).  One loop lists    *)
(* the events that are due, POSTs each and records the outcome, while the   *)
(* watchers go on recording events.  The process may be stopped gracefully  *)
(* or die, and a call to the storage may fail.                              *)
(*                                                                          *)
(* Time is relative: wait[e] is what is left until next_retry_at of e, and  *)
(* e is due when it is not positive; a date that was computed `ago` is that *)
(* much nearer when it is stored.                                           *)
(*                                                                          *)
(* External: the merchant's endpoint.  It may accept, refuse, not be        *)
(* reached, or accept and have its answer lost or come after the timeout.   *)
(***************************************************************************)
EXTENDS Integers, Sequences, FiniteSets

CONSTANTS
  Events,         \* ids of the events the watchers may record
  None,           \* no event
  RetryCurve,     \* RETRY_CURVE_MS, in units of the clock
  InitialDelays,  \* delays the watchers give the first attempt
  BatchSize,      \* batchSize
  Sorted,         \* TRUE: sqlite, ORDER BY next_retry_at; FALSE: readdir order
  MaxLate,        \* bound: events overdue longer than this are not told apart
  Reemitted,      \* bound: ids recorded twice (json overwrites the event)
  MaxCrashes,     \* bound: deaths of the process
  MaxStops,       \* bound: graceful restarts of the process
  MaxErrors       \* bound: failures of markWebhookDelivered

MAX_ATTEMPTS == Len(RetryCurve)
Delays == InitialDelays \cup {RetryCurve[k] : k \in DOMAIN RetryCurve}
Longest == CHOOSE d \in Delays : \A c \in Delays : c <= d
Waits == -MaxLate .. Longest

ASSUME DispatcherAssumption ==
  /\ IsFiniteSet(Events) /\ None \notin Events
  /\ RetryCurve \in Seq(Nat) /\ RetryCurve # <<>>
  /\ \A k, l \in DOMAIN RetryCurve : k <= l => RetryCurve[k] <= RetryCurve[l]
  /\ InitialDelays \in SUBSET Nat /\ InitialDelays # {}
  /\ \E d \in Delays : \A c \in Delays : c <= d
  /\ BatchSize \in Nat \ {0} /\ Sorted \in BOOLEAN /\ MaxLate \in Nat
  /\ Reemitted \subseteq Events /\ (Sorted => Reemitted = {})
  /\ MaxCrashes \in Nat /\ MaxStops \in Nat /\ MaxErrors \in Nat

VARIABLES
  attempts,   \* attempts[e], in storage
  wait,       \* wait[e]: time left until next_retry_at
  delivered,  \* events with a delivered_at
  emissions,  \* emissions[e]: times recorded; 0: not in storage
  pc,         \* where the loop is
  batch,      \* what is left of the listing: <<event, attempts>> pairs
  outcome,    \* the POST in hand was answered 2xx
  copy,       \* what markWebhookDelivered read of the event in hand
  ago,        \* time since the POST in hand ended and nextRetryAt was computed
  stopped,    \* stop() was called
  posts,      \* history: posts[e], requests sent
  accepted,   \* history: events the merchant accepted at least once
  since,      \* history: since[e], time since the recorded attempt ended
  crashes, stops, errors

store == <<attempts, wait, delivered, emissions>>
loop == <<pc, batch, outcome, copy, stopped>>
history == <<posts, accepted, since>>
bounds == <<crashes, stops, errors>>
vars == <<store, loop, ago, history, bounds>>

NoCopy == [attempts |-> 0, delivered |-> FALSE]

Init ==
  /\ attempts = [e \in Events |-> 0]
  /\ wait = [e \in Events |-> 0]
  /\ delivered = {}
  /\ emissions = [e \in Events |-> 0]
  /\ pc = "idle" /\ batch = <<>> /\ outcome = FALSE /\ copy = NoCopy
  /\ ago = 0 /\ stopped = FALSE
  /\ posts = [e \in Events |-> 0]
  /\ accepted = {}
  /\ since = [e \in Events |-> 0]
  /\ crashes = 0 /\ stops = 0 /\ errors = 0

Recorded == {e \in Events : emissions[e] > 0}
InHand == IF batch = <<>> THEN None ELSE batch[1].event

-----------------------------------------------------------------------------
(* The clock.                                                              *)
Later(w) == IF w > -MaxLate THEN w - 1 ELSE w
LongAgo == Longest + MaxLate
Older(a) == IF a < LongAgo THEN a + 1 ELSE a

TimePasses ==
  /\ wait' = [e \in Events |-> IF e \in Recorded THEN Later(wait[e]) ELSE wait[e]]
  /\ since' = [e \in Events |-> Older(since[e])]
  /\ ago' = IF pc \in {"answered", "marking"} THEN Older(ago) ELSE ago
  /\ UNCHANGED <<attempts, delivered, emissions, loop, posts, accepted, bounds>>

(* recordWebhookEvent: a new event, or in json a known id written afresh.  *)
recordWebhookEvent(e) ==
  /\ emissions[e] < (IF e \in Reemitted THEN 2 ELSE 1)
  /\ emissions' = [emissions EXCEPT ![e] = @ + 1]
  /\ attempts' = [attempts EXCEPT ![e] = 0]
  /\ delivered' = delivered \ {e}
  /\ \E d \in InitialDelays : wait' = [wait EXCEPT ![e] = d]
  /\ UNCHANGED <<loop, ago, history, bounds>>

-----------------------------------------------------------------------------
(* The loop                                                                *)

(* getWebhookEventsDue                                                     *)
Due == {e \in Recorded \ delivered : wait[e] <= 0}

IsListing(s) ==
  /\ \A k, l \in DOMAIN s : k # l => s[k] # s[l]
  /\ Sorted => \A k \in DOMAIN s : \A e \in Due \ {s[l] : l \in 1 .. k} :
                 wait[s[k]] <= wait[e]

ListingLength == IF Cardinality(Due) < BatchSize THEN Cardinality(Due) ELSE BatchSize

(* tick: `running` keeps a second one out.                                 *)
Tick ==
  /\ pc = "idle" /\ ~stopped
  /\ Due # {}
  /\ \E s \in [1 .. ListingLength -> Due] :
       /\ IsListing(s)
       /\ batch' = [k \in DOMAIN s |-> [event |-> s[k], attempts |-> attempts[s[k]]]]
  /\ pc' = "deliver"
  /\ UNCHANGED <<store, outcome, copy, ago, stopped, history, bounds>>

Leave ==
  /\ pc' = "idle" /\ batch' = <<>> /\ outcome' = FALSE /\ copy' = NoCopy
  /\ ago' = 0

(* Mutant: stop() is not looked at between two events.                     *)
EndTickWhenDone ==
  /\ pc = "deliver"
  /\ batch = <<>>
  /\ Leave
  /\ UNCHANGED <<store, stopped, history, bounds>>

(* The listing is done, or stop() was called between two of its events.    *)
EndTick ==
  /\ pc = "deliver"
  /\ batch = <<>> \/ stopped
  /\ Leave
  /\ UNCHANGED <<store, stopped, history, bounds>>

(* deliverOne, retry budget exhausted: no request, nothing written.        *)
SkipDead ==
  /\ pc = "deliver" /\ ~stopped /\ batch # <<>>
  /\ batch[1].attempts >= MAX_ATTEMPTS
  /\ batch' = Tail(batch)
  /\ UNCHANGED <<store, pc, outcome, copy, ago, stopped, history, bounds>>

(* Mutant: one attempt more than the budget.                               *)
PostOnceMore ==
  /\ pc = "deliver" /\ ~stopped /\ batch # <<>>
  /\ batch[1].attempts <= MAX_ATTEMPTS
  /\ posts' = [posts EXCEPT ![InHand] = @ + 1]
  /\ UNCHANGED <<accepted, outcome>>
  /\ pc' = "posted"
  /\ UNCHANGED <<store, batch, copy, ago, stopped, since, bounds>>

(* deliverOne: the POST.                                                   *)
Post ==
  /\ pc = "deliver" /\ ~stopped /\ batch # <<>>
  /\ batch[1].attempts < MAX_ATTEMPTS
  /\ posts' = [posts EXCEPT ![InHand] = @ + 1]
  /\ \/ accepted' = accepted \cup {InHand} /\ outcome' \in BOOLEAN
     \/ UNCHANGED <<accepted, outcome>>
  /\ pc' = "posted"
  /\ UNCHANGED <<store, batch, copy, ago, stopped, since, bounds>>

(* The POST ends and nextRetryAt is computed, whatever is stored later.    *)
Answered ==
  /\ pc = "posted"
  /\ ago' = 0
  /\ pc' = "answered"
  /\ UNCHANGED <<store, batch, outcome, copy, stopped, history, bounds>>

(* markWebhookDelivered reads the event ...                                *)
MarkReads ==
  /\ pc = "answered"
  /\ copy' = [attempts |-> attempts[InHand], delivered |-> InHand \in delivered]
  /\ pc' = "marking"
  /\ UNCHANGED <<store, batch, outcome, ago, stopped, history, bounds>>

(* Mutant: the next attempt is due at once.                                *)
RetryNow(attemptNumber) == 0

(* nextRetryDate of an attempt, counted from 1.                            *)
nextRetryDate(attemptNumber) ==
  RetryCurve[IF attemptNumber > MAX_ATTEMPTS THEN MAX_ATTEMPTS ELSE attemptNumber]

(* What is left, after a time, of a delay.                                 *)
Passed(delay, time) == IF delay - time < -MaxLate THEN -MaxLate ELSE delay - time

(* Mutant: any answer counts as a delivery.                                *)
MarkWritesDelivered ==
  /\ pc = "marking"
  /\ attempts' = [attempts EXCEPT ![InHand] = copy.attempts + 1]
  /\ delivered' = delivered \cup {InHand}
  /\ since' = [since EXCEPT ![InHand] = ago]
  /\ batch' = Tail(batch)
  /\ outcome' = FALSE /\ copy' = NoCopy /\ ago' = 0 /\ pc' = "deliver"
  /\ UNCHANGED <<wait, emissions, stopped, posts, accepted, bounds>>

(* ... and writes it back with the outcome.                                *)
MarkWrites ==
  /\ pc = "marking"
  /\ attempts' = [attempts EXCEPT ![InHand] = copy.attempts + 1]
  /\ delivered' = IF outcome \/ copy.delivered THEN delivered \cup {InHand}
                                               ELSE delivered \ {InHand}
  /\ IF outcome
       THEN UNCHANGED wait
       ELSE wait' = [wait EXCEPT ![InHand] =
                       Passed(nextRetryDate(batch[1].attempts + 1), ago)]
  /\ since' = [since EXCEPT ![InHand] = ago]
  /\ batch' = Tail(batch)
  /\ outcome' = FALSE /\ copy' = NoCopy /\ ago' = 0 /\ pc' = "deliver"
  /\ UNCHANGED <<emissions, stopped, posts, accepted, bounds>>

(* markWebhookDelivered throws: the tick ends (tick_failed).               *)
MarkFails ==
  /\ pc \in {"answered", "marking"}
  /\ errors < MaxErrors
  /\ errors' = errors + 1
  /\ Leave
  /\ UNCHANGED <<store, stopped, history, crashes, stops>>

-----------------------------------------------------------------------------
(* The process                                                             *)

(* stop(): the loop is let finish what it has in hand ...                  *)
Stop ==
  /\ ~stopped /\ stops < MaxStops
  /\ stopped' = TRUE
  /\ stops' = stops + 1
  /\ UNCHANGED <<store, pc, batch, outcome, copy, ago, history, crashes, errors>>

(* ... and only then the process ends and is started again.                *)
Restart ==
  /\ stopped /\ pc = "idle"
  /\ stopped' = FALSE
  /\ UNCHANGED <<store, pc, batch, outcome, copy, ago, history, bounds>>

(* The process dies, and is started again.                                 *)
Crash ==
  /\ crashes < MaxCrashes
  /\ crashes' = crashes + 1
  /\ Leave /\ stopped' = FALSE
  /\ UNCHANGED <<store, history, stops, errors>>

Loop == \/ Tick \/ EndTick \/ SkipDead \/ Post \/ Answered
        \/ MarkReads \/ MarkWrites

Next == \/ TimePasses \/ (\E e \in Events : recordWebhookEvent(e))
        \/ Loop \/ MarkFails \/ Stop \/ Restart \/ Crash

Spec == Init /\ [][Next]_vars

(* Time passes; the loop reschedules itself whatever a tick does, and a    *)
(* request ends within requestTimeoutMs; a stopped process is restarted.   *)
FairSpec == Spec /\ WF_vars(TimePasses) /\ WF_vars(Loop) /\ WF_vars(Restart)

-----------------------------------------------------------------------------
(* Properties                                                              *)

TypeOK ==
  /\ attempts \in [Events -> Nat]
  /\ wait \in [Events -> Waits]
  /\ delivered \in SUBSET Events
  /\ emissions \in [Events -> Nat]
  /\ pc \in {"idle", "deliver", "posted", "answered", "marking"}
  /\ batch \in Seq([event : Events, attempts : Nat])
  /\ outcome \in BOOLEAN
  /\ copy \in [attempts : Nat, delivered : BOOLEAN]
  /\ ago \in 0 .. LongAgo /\ stopped \in BOOLEAN
  /\ posts \in [Events -> Nat]
  /\ accepted \in SUBSET Events
  /\ since \in [Events -> 0 .. LongAgo]
  /\ crashes \in Nat /\ stops \in Nat /\ errors \in Nat

(* The retry budget holds over restarts: each time an event is recorded    *)
(* buys MAX_ATTEMPTS requests, and only a death of the process or a failed *)
(* write between a POST and its record adds one; a graceful stop adds none.*)
RequestsAreBounded ==
  \A e \in Events : posts[e] <= MAX_ATTEMPTS * emissions[e] + crashes + errors

(* An event is stored as delivered only if the merchant accepted it,       *)
(* whatever recording it again does to a delivery in progress.             *)
DeliveredWasAccepted == delivered \subseteq accepted

(* Attempt n+1 comes no sooner than the n-th delay of the curve after      *)
(* attempt n ended ("Index i is the delay between attempt i and attempt    *)
(* i+1"), however long the storage takes to record it.                     *)
BackoffIsRespected ==
  [][\A e \in Events :
       posts'[e] # posts[e] /\ attempts[e] > 0 => since[e] >= RetryCurve[attempts[e]]]_vars

(* Every recorded event is accepted or used its attempts up, in the end,   *)
(* when no more events are stored than one listing holds.                  *)
EveryEventSettles ==
  \A e \in Events :
    emissions[e] > 0 ~> (e \in delivered \/ attempts[e] >= MAX_ATTEMPTS)

(* "Dispatch HMAC-signed webhooks [...] when payments confirm"             *)
(* (self-hosted-listener-design.md): every recorded event is POSTed.       *)
EveryEventIsSent ==
  \A e \in Events : emissions[e] > 0 ~> posts[e] > 0
=============================================================================
