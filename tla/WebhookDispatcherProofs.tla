----------------------- MODULE WebhookDispatcherProofs -----------------------
(***************************************************************************)
(* Proofs about the delivery of the webhook events, for any number of       *)
(* events, any retry curve that does not decrease, and any number of        *)
(* crashes, graceful restarts, storage errors and events recorded again.    *)
(*                                                                          *)
(* What a delivery does is decided on two copies: what the listing said of  *)
(* the event, and what markWebhookDelivered read of it.  Either may be old  *)
(* when it is used, because the watchers write the same record.  The        *)
(* inductive invariant relates both copies to the record.                   *)
(***************************************************************************)
EXTENDS WebhookDispatcher, FiniteSetTheorems, TLAPS

Entry == [event : Events, attempts : Nat]
Sending == pc \in {"posted", "answered", "marking"}
InFlight(e) == IF Sending /\ batch[1].event = e THEN 1 ELSE 0

(* Every event of the listing was due, and its record has not overtaken    *)
(* what the listing says of it.                                            *)
ListingInv ==
  /\ \A k, l \in DOMAIN batch : k # l => batch[k].event # batch[l].event
  /\ \A k \in DOMAIN batch :
       LET e == batch[k].event IN
       /\ emissions[e] > 0
       /\ attempts[e] <= batch[k].attempts
       /\ attempts[e] > 0 => since[e] >= RetryCurve[attempts[e]]
  /\ Sending => batch # <<>> /\ batch[1].attempts < MAX_ATTEMPTS

(* What is known of the request in hand, and of the record that            *)
(* markWebhookDelivered is about to write.                                 *)
OutcomeInv ==
  /\ outcome => Sending /\ batch[1].event \in accepted
  /\ pc = "marking" =>
       /\ attempts[batch[1].event] <= copy.attempts
       /\ copy.attempts <= batch[1].attempts
       /\ copy.delivered => batch[1].event \in accepted
  /\ delivered \subseteq accepted

(* Every request is paid for by an attempt on record, by an attempt of an  *)
(* earlier recording, by the request in hand, or by a fault.               *)
BudgetInv ==
  \A e \in Events :
    /\ attempts[e] <= MAX_ATTEMPTS
    /\ emissions[e] = 0 => posts[e] = 0 /\ attempts[e] = 0
    /\ emissions[e] > 0 =>
         posts[e] <= MAX_ATTEMPTS * (emissions[e] - 1) + attempts[e] + InFlight(e)
                       + crashes + errors

(* The delay after the attempt on record has passed, or is still stored.   *)
DelayInv ==
  \A e \in Events \ delivered : attempts[e] > 0 =>
    \/ since[e] >= RetryCurve[attempts[e]]
    \/ wait[e] + since[e] >= RetryCurve[attempts[e]]

Inv == TypeOK /\ ListingInv /\ OutcomeInv /\ BudgetInv /\ DelayInv

-----------------------------------------------------------------------------
(* The constants.                                                          *)

LEMMA CurveFacts ==
  /\ MAX_ATTEMPTS \in Nat \ {0}
  /\ DOMAIN RetryCurve = 1 .. MAX_ATTEMPTS
  /\ \A k \in 1 .. MAX_ATTEMPTS : RetryCurve[k] \in Nat /\ RetryCurve[k] \in Delays
BY DispatcherAssumption DEF MAX_ATTEMPTS, Delays

LEMMA LongestFacts ==
  /\ Longest \in Nat
  /\ \A d \in Delays : d \in Nat /\ d <= Longest
  /\ \A k \in 1 .. MAX_ATTEMPTS : RetryCurve[k] <= Longest
  /\ LongAgo \in Nat /\ Longest <= LongAgo
<1>1. \A d \in Delays : d \in Nat
  <2>1. \A d \in InitialDelays : d \in Nat
    BY DispatcherAssumption
  <2> QED BY <2>1, CurveFacts DEF Delays
<1>2. Longest \in Delays /\ \A c \in Delays : c <= Longest
  BY DispatcherAssumption DEF Longest
<1>3. LongAgo \in Nat /\ Longest <= LongAgo
  BY <1>1, <1>2, DispatcherAssumption DEF LongAgo
<1> QED BY <1>1, <1>2, <1>3, CurveFacts

(* The delay that markWebhookDelivered stores is one of the curve, and no  *)
(* less than the delay after an attempt that comes no later.               *)
LEMMA RetryDelay ==
  ASSUME NEW n \in Nat, n < MAX_ATTEMPTS
  PROVE  /\ nextRetryDate(n + 1) \in Delays
         /\ \A k \in 1 .. n + 1 : RetryCurve[k] <= nextRetryDate(n + 1)
<1>1. nextRetryDate(n + 1) = RetryCurve[n + 1]
  BY CurveFacts DEF nextRetryDate
<1>2. n + 1 \in 1 .. MAX_ATTEMPTS
  BY CurveFacts
<1>3. \A k \in 1 .. n + 1 : k \in 1 .. MAX_ATTEMPTS /\ k <= n + 1
  BY CurveFacts
<1> QED BY <1>1, <1>2, <1>3, CurveFacts, DispatcherAssumption

LEMMA TailFacts ==
  ASSUME NEW T, NEW s \in Seq(T), s # <<>>
  PROVE  /\ Tail(s) \in Seq(T)
         /\ DOMAIN s = 1 .. Len(s) /\ 1 \in DOMAIN s /\ s[1] \in T
         /\ DOMAIN Tail(s) = 1 .. Len(s) - 1
         /\ \A k \in DOMAIN Tail(s) : Tail(s)[k] = s[k + 1] /\ k + 1 \in DOMAIN s /\ k + 1 # 1
OBVIOUS

LEMMA FaultsPay ==
  ASSUME NEW p \in Int, NEW b \in Int, NEW i \in Int,
         NEW f \in Int, NEW g \in Int, p <= b + i + f, i + f <= g
  PROVE  p <= b + 0 + g
OBVIOUS

LEMMA SumRight ==
  ASSUME NEW a \in Int, NEW b \in Int, NEW c \in Int
  PROVE  a + b + c = a + (b + c)
OBVIOUS

LEMMA OneMoreBudget ==
  ASSUME NEW m \in Nat, NEW n \in Nat
  PROVE  m * (n + 1 - 1) = m * n /\ m * n = m * (n - 1) + m
OBVIOUS

LEMMA WaitFacts ==
  /\ Delays \subseteq Waits /\ 0 \in Waits
  /\ \A w \in Waits : w \in Int /\ Later(w) \in Waits /\ Later(w) >= w - 1
BY LongestFacts, DispatcherAssumption DEF Waits, Later

(* A delay that is stored late runs out no sooner than one stored at once. *)
LEMMA PassedFacts ==
  ASSUME NEW d \in Delays, NEW t \in 0 .. LongAgo, NEW c \in Nat, c <= d
  PROVE  /\ Passed(d, t) \in Waits
         /\ t >= c \/ Passed(d, t) + t >= c
BY LongestFacts, DispatcherAssumption DEF Waits, Passed

LEMMA OlderFacts ==
  ASSUME NEW a \in 0 .. LongAgo
  PROVE  Older(a) \in 0 .. LongAgo /\ Older(a) >= a
BY LongestFacts DEF Older

LEMMA ListingTyped ==
  ASSUME TypeOK
  PROVE  /\ batch \in Seq(Entry)
         /\ batch # <<>> => 1 \in DOMAIN batch
         /\ \A k \in DOMAIN batch :
              /\ k \in Nat /\ batch[k] \in Entry
              /\ batch[k].event \in Events /\ batch[k].attempts \in Nat
<1>1. batch \in Seq(Entry)
  BY DEF TypeOK, Entry
<1>2. \A k \in DOMAIN batch : k \in Nat /\ batch[k] \in Entry
  BY <1>1
<1>3. batch # <<>> => 1 \in DOMAIN batch
  BY <1>1
<1> QED BY <1>1, <1>2, <1>3 DEF Entry

LEMMA InHandFacts ==
  ASSUME TypeOK, batch # <<>>
  PROVE  /\ batch \in Seq(Entry) /\ 1 \in DOMAIN batch
         /\ InHand = batch[1].event /\ batch[1].event \in Events
         /\ batch[1].attempts \in Nat
BY ListingTyped DEF InHand

-----------------------------------------------------------------------------
LEMMA InitInv == Init => Inv
<1> SUFFICES ASSUME Init PROVE Inv
  OBVIOUS
<1> USE DEF Init
<1>1. TypeOK
  <2>1. wait \in [Events -> Waits] /\ since \in [Events -> 0 .. LongAgo]
    BY WaitFacts, LongestFacts
  <2>2. batch \in Seq([event : Events, attempts : Nat])
    OBVIOUS
  <2>3. ago \in 0 .. LongAgo
    BY LongestFacts
  <2> QED BY <2>1, <2>2, <2>3 DEF TypeOK, NoCopy
<1>2. ListingInv
  BY DEF ListingInv, Sending
<1>3. OutcomeInv
  BY DEF OutcomeInv, Sending
<1>4. BudgetInv
  BY CurveFacts DEF BudgetInv
<1>5. DelayInv
  BY DEF DelayInv
<1> QED BY <1>1, <1>2, <1>3, <1>4, <1>5 DEF Inv

LEMMA TimePassesInv == Inv /\ TimePasses => Inv'
<1> SUFFICES ASSUME Inv, TimePasses PROVE Inv'
  OBVIOUS
<1> USE DEF Inv, TimePasses, loop, bounds
<1>1. TypeOK'
  BY WaitFacts, OlderFacts DEF TypeOK
<1>2. \A e \in Events : since[e] \in Nat /\ since'[e] \in Nat /\ since'[e] >= since[e]
  BY LongestFacts, OlderFacts DEF TypeOK
<1>3. ListingInv'
  <2>1. \A k \in DOMAIN batch : batch[k].event \in Events
    BY ListingTyped
  <2>2. \A e \in Events : attempts[e] > 0 /\ attempts[e] <= MAX_ATTEMPTS
                            => RetryCurve[attempts[e]] \in Nat
    BY CurveFacts DEF TypeOK
  <2> QED BY <1>2, <2>1, <2>2 DEF ListingInv, Sending, BudgetInv
<1>4. OutcomeInv'
  BY DEF OutcomeInv, Sending
<1>5. BudgetInv'
  BY DEF BudgetInv, InFlight, Sending
<1>6. DelayInv'
  <2> SUFFICES ASSUME NEW e \in Events \ delivered, attempts[e] > 0
               PROVE  \/ since'[e] >= RetryCurve[attempts[e]]
                      \/ wait'[e] + since'[e] >= RetryCurve[attempts[e]]
    BY DEF DelayInv
  <2>1. attempts[e] \in 1 .. MAX_ATTEMPTS
    BY CurveFacts DEF TypeOK, BudgetInv
  <2>2. RetryCurve[attempts[e]] \in Nat /\ RetryCurve[attempts[e]] <= Longest
    BY <2>1, CurveFacts, LongestFacts
  <2>3. wait[e] \in Int /\ wait'[e] \in Int /\ wait'[e] >= wait[e] - 1
    BY WaitFacts DEF TypeOK
  <2>4. CASE since[e] < LongAgo
    <3>1. since'[e] = since[e] + 1
      BY <2>4 DEF TypeOK, Older
    <3> QED BY <3>1, <1>2, <2>2, <2>3 DEF DelayInv
  <2>5. CASE ~(since[e] < LongAgo)
    BY <2>5, <1>2, <2>2, LongestFacts
  <2> QED BY <2>4, <2>5
<1> QED BY <1>1, <1>3, <1>4, <1>5, <1>6

LEMMA RecordInv == ASSUME NEW x \in Events PROVE Inv /\ recordWebhookEvent(x) => Inv'
<1> SUFFICES ASSUME Inv, recordWebhookEvent(x) PROVE Inv'
  OBVIOUS
<1> USE DEF Inv, recordWebhookEvent, loop, history, bounds
<1>1. TypeOK'
  <2>1. InitialDelays \subseteq Waits
    BY WaitFacts DEF Delays
  <2> QED BY <2>1 DEF TypeOK
<1>2. \A e \in Events : /\ emissions[e] \in Nat /\ attempts[e] \in Nat
                        /\ emissions'[e] >= emissions[e]
                        /\ attempts'[e] = 0 \/ attempts'[e] = attempts[e]
  BY DEF TypeOK
<1>3. ListingInv'
  <2>1. \A k, l \in DOMAIN batch' : k # l => batch'[k].event # batch'[l].event
    BY DEF ListingInv
  <2>2. ASSUME NEW k \in DOMAIN batch
        PROVE  LET e == batch[k].event IN
               /\ emissions'[e] > 0
               /\ attempts'[e] <= batch[k].attempts
               /\ attempts'[e] > 0 => since[e] >= RetryCurve[attempts'[e]]
    <3> DEFINE e == batch[k].event
    <3>1. e \in Events /\ batch[k].attempts \in Nat
      BY ListingTyped
    <3>2. /\ emissions[e] > 0
          /\ attempts[e] <= batch[k].attempts
          /\ attempts[e] > 0 => since[e] >= RetryCurve[attempts[e]]
      BY DEF ListingInv
    <3> QED BY <1>2, <3>1, <3>2
  <2>3. Sending' => batch' # <<>> /\ batch'[1].attempts < MAX_ATTEMPTS
    BY DEF ListingInv, Sending
  <2> QED BY <2>1, <2>2, <2>3 DEF ListingInv
<1>4. OutcomeInv'
  <2>1. pc = "marking" => batch[1].event \in Events
    BY InHandFacts DEF ListingInv, Sending
  <2>2. copy.attempts \in Nat
    BY DEF TypeOK
  <2>3. pc = "marking" => attempts'[batch[1].event] <= copy.attempts
    BY <1>2, <2>1, <2>2 DEF OutcomeInv
  <2> QED BY <2>3 DEF OutcomeInv, Sending
<1>5. BudgetInv'
  <2> SUFFICES ASSUME NEW e \in Events
               PROVE  /\ attempts'[e] <= MAX_ATTEMPTS
                      /\ emissions'[e] = 0 => posts[e] = 0 /\ attempts'[e] = 0
                      /\ emissions'[e] > 0 =>
                           posts[e] <= MAX_ATTEMPTS * (emissions'[e] - 1) + attempts'[e]
                                         + InFlight(e) + crashes + errors
    BY DEF BudgetInv, InFlight, Sending
  <2>1. CASE e # x
    BY <2>1 DEF BudgetInv, TypeOK
  <2>2. CASE e = x
    <3>1. attempts'[e] = 0 /\ emissions'[e] = emissions[e] + 1 /\ emissions[e] \in Nat
      BY <2>2 DEF TypeOK
    <3>2. InFlight(e) \in {0, 1} /\ posts[e] \in Nat /\ attempts[e] \in Nat
          /\ crashes \in Nat /\ errors \in Nat
      BY DEF InFlight, TypeOK
    <3>3. MAX_ATTEMPTS * (emissions[e] + 1 - 1) = MAX_ATTEMPTS * emissions[e]
          /\ MAX_ATTEMPTS * emissions[e] = MAX_ATTEMPTS * (emissions[e] - 1) + MAX_ATTEMPTS
      BY <3>1, OneMoreBudget, CurveFacts
    <3>4. MAX_ATTEMPTS \in Nat /\ MAX_ATTEMPTS > 0
      BY CurveFacts
    <3>5. CASE emissions[e] = 0
      <4>1. posts[e] = 0
        BY <3>5 DEF BudgetInv
      <4>2. MAX_ATTEMPTS * (emissions'[e] - 1) = 0
        BY <3>1, <3>4, <3>5
      <4> QED BY <4>1, <4>2, <3>1, <3>2, <3>4
    <3>6. CASE emissions[e] > 0
      <4> DEFINE b == MAX_ATTEMPTS * (emissions[e] - 1)
      <4>1. b \in Int /\ MAX_ATTEMPTS * (emissions'[e] - 1) = b + MAX_ATTEMPTS
        BY <3>1, <3>3, <3>4
      <4>2. posts[e] <= b + attempts[e] + InFlight(e) + crashes + errors
            /\ attempts[e] <= MAX_ATTEMPTS
        BY <3>6 DEF BudgetInv
      <4> HIDE DEF b
      <4> QED BY <4>1, <4>2, <3>1, <3>2, <3>4
    <3> QED BY <3>1, <3>5, <3>6
  <2> QED BY <2>1, <2>2
<1>6. DelayInv'
  BY DEF DelayInv, TypeOK
<1> QED BY <1>1, <1>3, <1>4, <1>5, <1>6

LEMMA TickInv == Inv /\ Tick => Inv'
<1> SUFFICES ASSUME Inv, Tick PROVE Inv'
  OBVIOUS
<1> USE DEF Inv, store, history, bounds
<1>1. PICK s \in [1 .. ListingLength -> Due] :
        /\ IsListing(s)
        /\ batch' = [k \in DOMAIN s |-> [event |-> s[k], attempts |-> attempts[s[k]]]]
  BY DEF Tick
<1>2. /\ pc = "idle" /\ pc' = "deliver"
      /\ UNCHANGED <<store, outcome, copy, ago, stopped, history, bounds>>
  BY DEF Tick
<1>3. ListingLength \in Nat
  BY FS_CardinalityType, FS_Subset, DispatcherAssumption DEF ListingLength, Due, Recorded
<1>4. Due \subseteq Events
  BY DEF Due, Recorded
<1>5. DOMAIN batch' = 1 .. ListingLength /\ DOMAIN s = 1 .. ListingLength
  BY <1>1
<1>6. \A k \in DOMAIN s : /\ s[k] \in Events /\ s[k] \in Due
                          /\ batch'[k] = [event |-> s[k], attempts |-> attempts[s[k]]]
  BY <1>1, <1>4
<1>7. TypeOK'
  <2>1. batch' \in [1 .. ListingLength -> [event : Events, attempts : Nat]]
    BY <1>1, <1>5, <1>6 DEF TypeOK
  <2>2. \A S, n : n \in Nat => [1 .. n -> S] \subseteq Seq(S)
    OBVIOUS
  <2>3. batch' \in Seq([event : Events, attempts : Nat])
    BY <2>1, <2>2, <1>3
  <2> QED BY <1>2, <2>3 DEF TypeOK
<1>8. ListingInv'
  <2>1. \A k, l \in DOMAIN batch' : k # l => batch'[k].event # batch'[l].event
    BY <1>1, <1>5, <1>6 DEF IsListing
  <2>2. ASSUME NEW k \in DOMAIN batch'
        PROVE  /\ emissions[s[k]] > 0
               /\ attempts[s[k]] > 0 => since[s[k]] >= RetryCurve[attempts[s[k]]]
    <3>1. s[k] \in Events /\ s[k] \notin delivered /\ wait[s[k]] <= 0 /\ emissions[s[k]] > 0
      BY <1>5, <1>6 DEF Due, Recorded
    <3>2. wait[s[k]] \in Int /\ since[s[k]] \in Nat /\ attempts[s[k]] \in Nat
      BY <3>1, LongestFacts DEF TypeOK, Waits
    <3>3. attempts[s[k]] > 0 => RetryCurve[attempts[s[k]]] \in Nat
      BY <3>1, <3>2, CurveFacts DEF BudgetInv
    <3> QED BY <3>1, <3>2, <3>3 DEF DelayInv
  <2>3. \A k \in DOMAIN batch' : /\ batch'[k].event = s[k] /\ s[k] \in Events
                                 /\ batch'[k].attempts = attempts[s[k]]
    BY <1>5, <1>6
  <2>4. \A k \in DOMAIN batch' : LET e == batch'[k].event IN
          /\ emissions'[e] > 0
          /\ attempts'[e] <= batch'[k].attempts
          /\ attempts'[e] > 0 => since'[e] >= RetryCurve[attempts'[e]]
    <3>1. /\ emissions' = emissions /\ attempts' = attempts /\ since' = since
      BY <1>2
    <3>2. \A e \in Events : attempts[e] \in Nat
      BY DEF TypeOK
    <3>3. DOMAIN batch' = DOMAIN s
      BY <1>5
    <3> QED BY <2>2, <2>3, <3>1, <3>2, <3>3
  <2>5. ~Sending'
    BY <1>2 DEF Sending
  <2> QED BY <2>1, <2>4, <2>5 DEF ListingInv
<1>9. OutcomeInv'
  BY <1>2 DEF OutcomeInv, Sending
<1>10. BudgetInv'
  BY <1>2 DEF BudgetInv, InFlight, Sending
<1>11. DelayInv'
  BY <1>2 DEF DelayInv
<1> QED BY <1>7, <1>8, <1>9, <1>10, <1>11

(* The loop leaves its listing without a request in hand.                  *)
LEMMA LeaveInv ==
  ASSUME Inv, Leave, UNCHANGED <<store, history>>, stopped' \in BOOLEAN, stops' = stops,
         crashes' \in Nat, errors' \in Nat,
         \/ crashes' + errors' = crashes + errors + 1
         \/ ~Sending /\ crashes' + errors' = crashes + errors
  PROVE  Inv'
<1> USE DEF Inv, Leave, store, history
<1>1. TypeOK'
  <2>1. batch' \in Seq([event : Events, attempts : Nat])
    OBVIOUS
  <2>2. ago' \in 0 .. LongAgo
    BY LongestFacts
  <2> QED BY <2>1, <2>2 DEF TypeOK, NoCopy
<1>2. ListingInv'
  BY DEF ListingInv, Sending
<1>3. OutcomeInv'
  BY DEF OutcomeInv, Sending
<1>4. BudgetInv'
  <2> SUFFICES ASSUME NEW e \in Events, emissions[e] > 0
               PROVE  posts[e] <= MAX_ATTEMPTS * (emissions[e] - 1) + attempts[e] + 0
                                    + crashes' + errors'
    BY DEF BudgetInv, InFlight, Sending
  <2> DEFINE b == MAX_ATTEMPTS * (emissions[e] - 1)
  <2>1. b \in Int
    BY CurveFacts DEF TypeOK
  <2>2. posts[e] <= b + attempts[e] + InFlight(e) + crashes + errors
    BY DEF BudgetInv
  <2>3. InFlight(e) \in {0, 1} /\ (~Sending => InFlight(e) = 0)
    BY DEF InFlight
  <2>4. posts[e] \in Nat /\ attempts[e] \in Nat /\ crashes \in Nat /\ errors \in Nat
    BY DEF TypeOK
  <2> HIDE DEF b
  <2> DEFINE a == b + attempts[e]
             i == InFlight(e)
             f == crashes + errors
             g == crashes' + errors'
  <2>5. a \in Int /\ i \in Int /\ f \in Int /\ g \in Int /\ posts[e] \in Int
    BY <2>1, <2>3, <2>4
  <2>6. i + f <= g
    <3>1. i \in {0, 1} /\ (g = f + 1 \/ (i = 0 /\ g = f))
      BY <2>3
    <3> HIDE DEF i, f, g
    <3> QED BY <2>5, <3>1
  <2> HIDE DEF a, i, f, g
  <2>7. posts[e] <= a + i + f
    BY <2>1, <2>2, <2>3, <2>4, <2>5 DEF a, i, f
  <2>8. posts[e] <= a + 0 + g
    BY <2>5, <2>6, <2>7, FaultsPay, Zenon
  <2>9. a + 0 + crashes' + errors' = a + 0 + g
    BY <2>5, SumRight DEF g
  <2> QED BY <2>8, <2>9 DEF a, b
<1>5. DelayInv'
  BY DEF DelayInv
<1> QED BY <1>1, <1>2, <1>3, <1>4, <1>5

LEMMA SkipDeadInv == Inv /\ SkipDead => Inv'
<1> SUFFICES ASSUME Inv, SkipDead PROVE Inv'
  OBVIOUS
<1> USE DEF Inv, SkipDead, store, history, bounds
<1>0. batch \in Seq(Entry)
  BY ListingTyped
<1>1. TypeOK'
  BY <1>0, TailFacts DEF TypeOK, Entry
<1>2. ListingInv'
  BY <1>0, TailFacts DEF ListingInv, Sending
<1>3. OutcomeInv'
  BY DEF OutcomeInv, Sending
<1>4. BudgetInv'
  BY DEF BudgetInv, InFlight, Sending
<1>5. DelayInv'
  BY DEF DelayInv
<1> QED BY <1>1, <1>2, <1>3, <1>4, <1>5

LEMMA PostInv == Inv /\ Post => Inv'
<1> SUFFICES ASSUME Inv, Post PROVE Inv'
  OBVIOUS
<1> USE DEF Inv, Post, store, bounds
<1>0. /\ batch \in Seq(Entry) /\ 1 \in DOMAIN batch
      /\ InHand = batch[1].event /\ batch[1].event \in Events
  BY InHandFacts
<1>1. TypeOK'
  <2>1. posts' \in [Events -> Nat] /\ accepted' \in SUBSET Events /\ outcome' \in BOOLEAN
    <3>0. posts \in [Events -> Nat] /\ InHand \in Events
          /\ posts' = [posts EXCEPT ![InHand] = @ + 1]
      BY <1>0 DEF TypeOK
    <3>1. posts' \in [Events -> Nat]
      BY <3>0
    <3>2. accepted' \in SUBSET Events /\ outcome' \in BOOLEAN
      BY <1>0 DEF TypeOK
    <3> QED BY <3>1, <3>2
  <2> QED BY <2>1 DEF TypeOK
<1>2. ListingInv'
  BY DEF ListingInv, Sending
<1>3. OutcomeInv'
  BY <1>0 DEF OutcomeInv, Sending
<1>4. BudgetInv'
  <2> SUFFICES ASSUME NEW e \in Events
               PROVE  /\ emissions[e] = 0 => posts'[e] = 0
                      /\ emissions[e] > 0 =>
                           posts'[e] <= MAX_ATTEMPTS * (emissions[e] - 1) + attempts[e]
                                          + InFlight(e)' + crashes + errors
    BY DEF BudgetInv
  <2>1. CASE e # InHand
    BY <1>0, <2>1 DEF BudgetInv, InFlight, Sending, TypeOK
  <2>2. CASE e = InHand
    <3>1. emissions[e] > 0
      BY <1>0, <2>2 DEF ListingInv
    <3> DEFINE b == MAX_ATTEMPTS * (emissions[e] - 1)
    <3>2. b \in Int
      BY CurveFacts DEF TypeOK
    <3>3. posts[e] <= b + attempts[e] + InFlight(e) + crashes + errors
      BY <3>1 DEF BudgetInv
    <3>4. InFlight(e) = 0 /\ InFlight(e)' = 1 /\ posts'[e] = posts[e] + 1
      BY <1>0, <2>2 DEF InFlight, Sending, TypeOK
    <3>5. posts[e] \in Nat /\ attempts[e] \in Nat /\ crashes \in Nat /\ errors \in Nat
      BY DEF TypeOK
    <3> HIDE DEF b
    <3>6. posts'[e] <= b + attempts[e] + InFlight(e)' + crashes + errors
      BY <3>2, <3>3, <3>4, <3>5
    <3> QED BY <3>1, <3>6 DEF b, TypeOK
  <2> QED BY <2>1, <2>2
<1>5. DelayInv'
  BY DEF DelayInv
<1> QED BY <1>1, <1>2, <1>3, <1>4, <1>5

LEMMA AnsweredInv == Inv /\ Answered => Inv'
<1> SUFFICES ASSUME Inv, Answered PROVE Inv'
  OBVIOUS
<1> USE DEF Inv, Answered, store, history, bounds
<1>1. TypeOK'
  BY LongestFacts DEF TypeOK
<1>2. ListingInv'
  BY DEF ListingInv, Sending
<1>3. OutcomeInv'
  BY DEF OutcomeInv, Sending
<1>4. BudgetInv'
  BY DEF BudgetInv, InFlight, Sending
<1>5. DelayInv'
  BY DEF DelayInv
<1> QED BY <1>1, <1>2, <1>3, <1>4, <1>5

LEMMA MarkReadsInv == Inv /\ MarkReads => Inv'
<1> SUFFICES ASSUME Inv, MarkReads PROVE Inv'
  OBVIOUS
<1> USE DEF Inv, MarkReads, store, history, bounds
<1>0. /\ batch \in Seq(Entry) /\ 1 \in DOMAIN batch
      /\ InHand = batch[1].event /\ batch[1].event \in Events
  BY InHandFacts DEF ListingInv, Sending
<1>1. TypeOK'
  BY <1>0 DEF TypeOK
<1>2. ListingInv'
  BY DEF ListingInv, Sending
<1>3. OutcomeInv'
  BY <1>0 DEF OutcomeInv, ListingInv, Sending, TypeOK
<1>4. BudgetInv'
  BY DEF BudgetInv, InFlight, Sending
<1>5. DelayInv'
  BY DEF DelayInv
<1> QED BY <1>1, <1>2, <1>3, <1>4, <1>5

LEMMA MarkWritesInv == Inv /\ MarkWrites => Inv'
<1> SUFFICES ASSUME Inv, MarkWrites PROVE Inv'
  OBVIOUS
<1> USE DEF Inv, bounds
<1> DEFINE e == batch[1].event
           n == batch[1].attempts
<1>0. /\ batch \in Seq(Entry) /\ batch # <<>> /\ 1 \in DOMAIN batch
      /\ InHand = e /\ e \in Events /\ n \in Nat /\ n < MAX_ATTEMPTS
  BY InHandFacts DEF MarkWrites, ListingInv, Sending
<1>1. /\ attempts' = [attempts EXCEPT ![e] = copy.attempts + 1]
      /\ delivered' = IF outcome \/ copy.delivered THEN delivered \cup {e}
                                                   ELSE delivered \ {e}
      /\ IF outcome THEN wait' = wait
                    ELSE wait' = [wait EXCEPT ![e] = Passed(nextRetryDate(n + 1), ago)]
      /\ since' = [since EXCEPT ![e] = ago] /\ ago' = 0
      /\ batch' = Tail(batch)
      /\ outcome' = FALSE /\ copy' = NoCopy /\ pc' = "deliver" /\ pc = "marking"
      /\ UNCHANGED <<emissions, stopped, posts, accepted, bounds>>
  BY <1>0 DEF MarkWrites
<1>2. /\ copy.attempts \in Nat /\ copy.delivered \in BOOLEAN
      /\ attempts[e] <= copy.attempts /\ copy.attempts <= n
      /\ (outcome \/ copy.delivered) => e \in accepted
  BY <1>1 DEF TypeOK, OutcomeInv
<1>3. /\ nextRetryDate(n + 1) \in Delays
      /\ \A k \in 1 .. n + 1 : RetryCurve[k] <= nextRetryDate(n + 1)
  BY <1>0, RetryDelay
<1> HIDE DEF e, n
<1>4. TypeOK'
  <2>1. batch' \in Seq(Entry)
    BY <1>0, <1>1, TailFacts
  <2>2. wait' \in [Events -> Waits]
    <3>0. ago \in 0 .. LongAgo /\ 0 \in Nat /\ 0 <= nextRetryDate(n + 1)
      BY <1>3, LongestFacts DEF TypeOK
    <3>1. wait \in [Events -> Waits] /\ Passed(nextRetryDate(n + 1), ago) \in Waits
      BY <1>3, <3>0, PassedFacts DEF TypeOK
    <3> QED BY <1>1, <3>1
  <2>3. attempts' \in [Events -> Nat] /\ since' \in [Events -> 0 .. LongAgo]
    <3>1. attempts \in [Events -> Nat] /\ since \in [Events -> 0 .. LongAgo]
          /\ copy.attempts + 1 \in Nat /\ ago \in 0 .. LongAgo /\ 0 \in 0 .. LongAgo
      BY <1>2, LongestFacts DEF TypeOK
    <3> QED BY <1>1, <3>1
  <2>4. delivered' \in SUBSET Events
    BY <1>0, <1>1 DEF TypeOK
  <2>5. ago' \in 0 .. LongAgo
    BY <1>1, LongestFacts
  <2> QED BY <1>1, <2>1, <2>2, <2>3, <2>4, <2>5 DEF TypeOK, Entry, NoCopy
<1>5. ListingInv'
  <2>1. \A k \in DOMAIN batch' :
          /\ k + 1 \in DOMAIN batch /\ k + 1 # 1 /\ k \in Nat
          /\ batch'[k] = batch[k + 1] /\ batch[k + 1].event \in Events
    <3>1. \A k \in DOMAIN batch' :
            k + 1 \in DOMAIN batch /\ k + 1 # 1 /\ batch'[k] = batch[k + 1]
      BY <1>0, <1>1, TailFacts
    <3>2. DOMAIN batch' \subseteq Nat
      BY <1>0, <1>1, TailFacts
    <3> QED BY <3>1, <3>2, ListingTyped
  <2>2. \A k \in DOMAIN batch' : batch'[k].event # e
    BY <1>0, <2>1 DEF ListingInv, e
  <2>3. \A k \in DOMAIN batch' :
          /\ attempts'[batch'[k].event] = attempts[batch[k + 1].event]
          /\ since'[batch'[k].event] = since[batch[k + 1].event]
    BY <1>1, <2>1, <2>2 DEF TypeOK
  <2>4. \A k, l \in DOMAIN batch' : k # l => batch'[k].event # batch'[l].event
    BY <2>1 DEF ListingInv
  <2> QED BY <1>1, <2>1, <2>3, <2>4 DEF ListingInv, Sending
<1>6. OutcomeInv'
  BY <1>1, <1>2 DEF OutcomeInv, Sending
<1>7. BudgetInv'
  <2> SUFFICES ASSUME NEW x \in Events
               PROVE  /\ attempts'[x] <= MAX_ATTEMPTS
                      /\ emissions[x] = 0 => posts[x] = 0 /\ attempts'[x] = 0
                      /\ emissions[x] > 0 =>
                           posts[x] <= MAX_ATTEMPTS * (emissions[x] - 1) + attempts'[x] + 0
                                         + crashes + errors
    BY <1>1 DEF BudgetInv, InFlight, Sending
  <2>1. CASE x # e
    BY <1>1, <2>1 DEF BudgetInv, InFlight, TypeOK, e
  <2>2. CASE x = e
    <3>1. attempts'[x] = copy.attempts + 1
      BY <1>0, <1>1, <2>2 DEF TypeOK
    <3>2. emissions[x] > 0 /\ emissions[x] \in Nat
      BY <1>0, <2>2 DEF ListingInv, TypeOK, e
    <3> DEFINE b == MAX_ATTEMPTS * (emissions[x] - 1)
    <3>3. b \in Int
      BY <3>2, CurveFacts
    <3>4. posts[x] <= b + attempts[x] + InFlight(x) + crashes + errors
      BY <3>2 DEF BudgetInv
    <3>5. InFlight(x) \in {0, 1}
      BY DEF InFlight
    <3>6. posts[x] \in Nat /\ attempts[x] \in Nat /\ crashes \in Nat /\ errors \in Nat
      BY DEF TypeOK
    <3> HIDE DEF b
    <3>7. posts[x] <= b + attempts'[x] + 0 + crashes + errors
      BY <1>2, <2>2, <3>1, <3>3, <3>4, <3>5, <3>6
    <3>8. attempts'[x] <= MAX_ATTEMPTS
      BY <1>0, <1>2, <3>1, CurveFacts
    <3> QED BY <3>2, <3>7, <3>8 DEF b
  <2> QED BY <2>1, <2>2
<1>8. DelayInv'
  <2> SUFFICES ASSUME NEW x \in Events \ delivered', attempts'[x] > 0
               PROVE  \/ since'[x] >= RetryCurve[attempts'[x]]
                      \/ wait'[x] + since'[x] >= RetryCurve[attempts'[x]]
    BY DEF DelayInv
  <2>1. CASE x # e
    <3>1. x \notin delivered /\ attempts'[x] = attempts[x] /\ since'[x] = since[x]
          /\ wait'[x] = wait[x]
      BY <1>1, <2>1 DEF TypeOK
    <3> QED BY <3>1 DEF DelayInv
  <2>2. CASE x = e
    <3>1. ~outcome
      BY <1>1, <2>2
    <3>2. /\ attempts'[x] = copy.attempts + 1 /\ since'[x] = ago
          /\ wait'[x] = Passed(nextRetryDate(n + 1), ago)
      BY <1>0, <1>1, <2>2, <3>1 DEF TypeOK
    <3>3. copy.attempts + 1 \in 1 .. n + 1
      BY <1>0, <1>2
    <3>4. RetryCurve[copy.attempts + 1] \in Nat
      BY <1>0, <3>3, CurveFacts
    <3>5. RetryCurve[copy.attempts + 1] <= nextRetryDate(n + 1)
      BY <1>3, <3>3
    <3>6. ago \in 0 .. LongAgo
      BY DEF TypeOK
    <3> QED BY <1>3, <3>2, <3>4, <3>5, <3>6, PassedFacts
  <2> QED BY <2>1, <2>2
<1> QED BY <1>4, <1>5, <1>6, <1>7, <1>8

LEMMA QuietInv == Inv /\ (Stop \/ Restart \/ UNCHANGED vars) => Inv'
<1> SUFFICES ASSUME Inv, Stop \/ Restart \/ UNCHANGED vars PROVE Inv'
  OBVIOUS
<1>1. /\ UNCHANGED <<store, pc, batch, outcome, copy, ago, history, crashes, errors>>
      /\ stopped' \in BOOLEAN /\ stops' \in Nat
  <2>1. CASE Stop
    BY <2>1 DEF Stop, Inv, TypeOK, store, history
  <2>2. CASE Restart
    BY <2>2 DEF Restart, Inv, TypeOK, store, history, bounds
  <2>3. CASE UNCHANGED vars
    BY <2>3 DEF vars, loop, bounds, Inv, TypeOK
  <2> QED BY <2>1, <2>2, <2>3
<1> USE <1>1 DEF Inv, store, history
<1>2. TypeOK'
  BY DEF TypeOK
<1>3. ListingInv' /\ OutcomeInv'
  BY DEF ListingInv, OutcomeInv, Sending
<1>4. BudgetInv' /\ DelayInv'
  BY DEF BudgetInv, DelayInv, InFlight, Sending
<1> QED BY <1>2, <1>3, <1>4

LEMMA NextInv == Inv /\ [Next]_vars => Inv'
<1> SUFFICES ASSUME Inv, [Next]_vars PROVE Inv'
  OBVIOUS
<1>1. CASE TimePasses
  BY <1>1, TimePassesInv
<1>2. CASE \E e \in Events : recordWebhookEvent(e)
  BY <1>2, RecordInv
<1>3. CASE Tick
  BY <1>3, TickInv
<1>4. CASE EndTick
  BY <1>4, LeaveInv DEF EndTick, bounds, Inv, TypeOK, Sending, store, history
<1>5. CASE SkipDead
  BY <1>5, SkipDeadInv
<1>6. CASE Post
  BY <1>6, PostInv
<1>12. CASE Answered
  BY <1>12, AnsweredInv
<1>7. CASE MarkReads
  BY <1>7, MarkReadsInv
<1>8. CASE MarkWrites
  BY <1>8, MarkWritesInv
<1>9. CASE MarkFails
  BY <1>9, LeaveInv DEF MarkFails, Inv, TypeOK, store, history
<1>10. CASE Crash
  <2>1. crashes \in Nat /\ errors \in Nat
    BY DEF Inv, TypeOK
  <2>2. /\ Leave /\ stopped' = FALSE /\ crashes' = crashes + 1
        /\ UNCHANGED <<store, history, stops, errors>>
    BY <1>10 DEF Crash
  <2>3. errors' = errors /\ stops' = stops
    BY <2>2
  <2>5. crashes' \in Nat /\ errors' \in Nat /\ stopped' \in BOOLEAN
        /\ crashes' + errors' = crashes + errors + 1
    <3>1. crashes' = crashes + 1 /\ stopped' = FALSE
      BY <2>2
    <3>2. crashes + 1 + errors = crashes + errors + 1
      BY <2>1
    <3>3. crashes' + errors' = crashes + 1 + errors
      BY <2>3, <3>1
    <3>4. crashes' \in Nat /\ errors' \in Nat
      BY <2>1, <2>3, <3>1
    <3>5. crashes' + errors' = crashes + errors + 1
      BY <3>2, <3>3, Zenon
    <3> QED BY <3>1, <3>4, <3>5
  <2>4. UNCHANGED <<store, history>>
    BY <2>2
  <2> QED BY <2>2, <2>3, <2>4, <2>5, LeaveInv
<1>11. CASE Stop \/ Restart \/ UNCHANGED vars
  BY <1>11, QuietInv
<1> QED BY <1>1, <1>2, <1>3, <1>4, <1>5, <1>6, <1>7, <1>8, <1>9, <1>10, <1>11,
        <1>12 DEF Next, Loop

THEOREM InductiveInv == Spec => []Inv
BY InitInv, NextInv, PTL DEF Spec

-----------------------------------------------------------------------------
(* The state of the store and of the loop is well typed: no delay that is  *)
(* stored is longer than the longest, and no copy of a record is partial.  *)
THEOREM DispatcherTypeOK == Spec => []TypeOK
BY InductiveInv, PTL DEF Inv

(* An event is stored as delivered only if the merchant accepted it, even  *)
(* when the watcher writes the event afresh while it is being delivered    *)
(* and the dispatcher then writes back what it read before.                *)
THEOREM DeliveredAccepted == Spec => []DeliveredWasAccepted
<1>1. Inv => DeliveredWasAccepted
  BY DEF Inv, OutcomeInv, DeliveredWasAccepted
<1> QED BY <1>1, InductiveInv, PTL

(* The retry budget of deliverOne holds over restarts: MAX_ATTEMPTS        *)
(* requests for each time the event is recorded, and one more for each     *)
(* death of the process and each write that failed.                        *)
THEOREM RequestsBounded == Spec => []RequestsAreBounded
<1>1. Inv => RequestsAreBounded
  <2> SUFFICES ASSUME Inv, NEW e \in Events
               PROVE  posts[e] <= MAX_ATTEMPTS * emissions[e] + crashes + errors
    BY DEF RequestsAreBounded
  <2>1. /\ posts[e] \in Nat /\ attempts[e] \in Nat /\ emissions[e] \in Nat
        /\ crashes \in Nat /\ errors \in Nat
    BY DEF Inv, TypeOK
  <2>2. attempts[e] + InFlight(e) <= MAX_ATTEMPTS
    <3>1. CASE Sending /\ batch[1].event = e
      <4>1. 1 \in DOMAIN batch /\ batch[1].attempts \in Nat
        BY <3>1, ListingTyped DEF Inv, ListingInv
      <4> QED BY <3>1, <4>1, <2>1, CurveFacts DEF Inv, ListingInv, InFlight
    <3>2. CASE ~(Sending /\ batch[1].event = e)
      BY <3>2, <2>1, CurveFacts DEF Inv, BudgetInv, InFlight
    <3> QED BY <3>1, <3>2
  <2>3. InFlight(e) \in {0, 1}
    BY DEF InFlight
  <2> DEFINE b == MAX_ATTEMPTS * (emissions[e] - 1)
  <2>4. b \in Int /\ MAX_ATTEMPTS * emissions[e] = b + MAX_ATTEMPTS /\ MAX_ATTEMPTS \in Nat
    BY <2>1, OneMoreBudget, CurveFacts
  <2>5. CASE emissions[e] = 0
    <3>1. posts[e] = 0 /\ MAX_ATTEMPTS * emissions[e] = 0
      BY <2>4, <2>5 DEF Inv, BudgetInv
    <3> QED BY <3>1, <2>1
  <2>6. CASE emissions[e] > 0
    <3>1. posts[e] <= b + attempts[e] + InFlight(e) + crashes + errors
      BY <2>6 DEF Inv, BudgetInv
    <3> HIDE DEF b
    <3> QED BY <3>1, <2>1, <2>2, <2>3, <2>4
  <2> QED BY <2>1, <2>5, <2>6
<1> QED BY <1>1, InductiveInv, PTL

(* No attempt is made before the delay that RETRY_CURVE_MS sets after the  *)
(* end of the one on record, whichever copy of the record the next delay   *)
(* was computed from, however late it was stored, and whatever order the   *)
(* due events are taken in.                                                *)
THEOREM BackoffRespected == Spec => BackoffIsRespected
<1>1. Inv /\ [Next]_vars =>
        [\A e \in Events : posts'[e] # posts[e] /\ attempts[e] > 0
                             => since[e] >= RetryCurve[attempts[e]]]_vars
  <2> SUFFICES ASSUME Inv, Next, NEW e \in Events, posts'[e] # posts[e], attempts[e] > 0
               PROVE  since[e] >= RetryCurve[attempts[e]]
    OBVIOUS
  <2>1. Post
    BY DEF Next, Loop, TimePasses, recordWebhookEvent, Tick, EndTick, SkipDead, Answered,
           MarkReads, MarkWrites, MarkFails, Stop, Restart, Crash, history
  <2>2. 1 \in DOMAIN batch /\ InHand = batch[1].event
    BY <2>1 DEF Post, InHand, Inv, TypeOK
  <2>3. e = InHand
    BY <2>1 DEF Post, Inv, TypeOK
  <2> QED BY <2>2, <2>3 DEF Inv, ListingInv
<1> QED BY <1>1, InductiveInv, PTL DEF Spec, BackoffIsRespected
=============================================================================
