---------------------------- MODULE CloudProofs ----------------------------
(***************************************************************************)
(* Proofs about the cloud's monthly cap, its billing, sign-up, the Base    *)
(* watcher, the delivery loop and the rate limiter, for any number of      *)
(* requests, subscriptions, accounts, invoices, events, callers and hits,  *)
(* and for any ceilings and faults.                                        *)
(***************************************************************************)
EXTENDS PlanGate, RateLimiter, Billing, SignUp, BaseWatcher, FiniteSetTheorems,
        WellFoundedInduction, NaturalsInduction, TLAPS

(* The delivery loop has names in common with billing and the watcher.     *)
CONSTANTS Events, None, WithWebhook, RetryDelay, BatchSize, LastSecond

VARIABLES second, nextAttempt, attempts, delivered, due, inHand, sent

Dispatch == INSTANCE CloudDispatcher
              WITH now <- second, listed <- due, MaxNow <- LastSecond

-----------------------------------------------------------------------------
(* The monthly cap.  The requests that may still create count against the  *)
(* current month beside the invoices that are there.                       *)
Creating == {r \in Posts : post[r] = "create"}
CountedIn(m) == created[m] + (IF m = month THEN Cardinality(Creating) ELSE 0)

GateInv ==
  /\ GateTypeOK
  /\ \A m \in 1 .. Months : m > month => created[m] = 0 /\ compared[m] = 0
  /\ \A m \in (1 .. Months) \ unmetered :
       CountedIn(m) <= AtLeastOne(compared[m]) + Cardinality(Posts) - 1

LEMMA PostsAreFew ==
  /\ Cardinality(Posts) \in Nat \ {0}
  /\ \A R \in SUBSET Posts : Cardinality(R) \in 0 .. Cardinality(Posts)
<1>1. IsFiniteSet(Posts) /\ Posts # {}
  BY GateAssumption
<1>2. Cardinality(Posts) \in Nat \ {0}
  BY <1>1, FS_CardinalityType, FS_EmptySet
<1>3. ASSUME NEW R \in SUBSET Posts PROVE Cardinality(R) \in 0 .. Cardinality(Posts)
  BY <1>1, <1>2, FS_Subset, FS_CardinalityType
<1> QED BY <1>2, <1>3

LEMMA GateInvInit == ASSUME GateInit PROVE GateInv
<1>1. Creating = {}
  BY DEF GateInit, Creating
<1> QED
  BY <1>1, GateAssumption, PostsAreFew, FS_EmptySet
     DEF GateInit, GateInv, GateTypeOK, CountedIn, AtLeastOne

(* A step that lets no further request create and stores nothing.          *)
LEMMA GateKeeps ==
  ASSUME GateInv, GateTypeOK', Creating' \subseteq Creating,
         UNCHANGED <<month, created, compared, unmetered>>
  PROVE  GateInv'
<1>1. IsFiniteSet(Posts) /\ Creating \in SUBSET Posts /\ Creating' \in SUBSET Posts
  BY GateAssumption DEF Creating
<1>2. /\ Cardinality(Creating) \in Nat /\ Cardinality(Creating') \in Nat
      /\ Cardinality(Creating') <= Cardinality(Creating)
  <2>1. IsFiniteSet(Creating)
    BY <1>1, FS_Subset
  <2> QED BY <1>1, <2>1, PostsAreFew, FS_Subset
<1> QED BY <1>2, PostsAreFew DEF GateInv, GateTypeOK, CountedIn, AtLeastOne

LEMMA GateInvNext == ASSUME GateInv, [GateNext]_gateVars PROVE GateInv'
<1> USE GateAssumption DEF Go
<1>0. GateTypeOK /\ IsFiniteSet(Posts)
  BY DEF GateInv
<1>1. CASE UNCHANGED gateVars
  <2>1. GateTypeOK' /\ Creating' = Creating
    BY <1>0, <1>1 DEF gateVars, GateTypeOK, Creating
  <2> QED BY <1>1, <2>1, GateKeeps DEF gateVars
<1>2. CASE NextMonth
  <2>1. Creating' = Creating /\ Cardinality(Creating) \in 0 .. Cardinality(Posts)
    BY <1>2, PostsAreFew DEF NextMonth, Creating
  <2>2. GateTypeOK'
    BY <1>0, <1>2 DEF NextMonth, GateTypeOK
  <2> QED
    BY <1>2, <2>1, <2>2, PostsAreFew DEF NextMonth, GateInv, GateTypeOK, CountedIn, AtLeastOne
<1>3. ASSUME NEW c \in Caps \cup {Unlimited}, ChangePlan(c) PROVE GateInv'
  <2>1. GateTypeOK' /\ Creating' = Creating
    BY <1>0, <1>3 DEF ChangePlan, GateTypeOK, Creating
  <2> QED BY <1>3, <2>1, GateKeeps DEF ChangePlan
<1>4. ASSUME NEW r \in Posts,
             \/ Authenticate(r) \/ ReadPlan(r) \/ CountRefuses(r)
             \/ CreateFails(r) \/ GateFails(r)
      PROVE  GateInv'
  <2>1. GateTypeOK'
    <3>1. CASE Authenticate(r)
      BY <1>0, <3>1 DEF Authenticate, GateTypeOK
    <3>4. CASE CountRefuses(r)
      BY <1>0, <3>4 DEF CountRefuses, GateTypeOK
    <3>5. CASE CreateFails(r)
      BY <1>0, <3>5 DEF CreateFails, GateTypeOK
    <3>2. CASE ReadPlan(r)
      <4>1. cap \in Nat
        BY <1>0, <3>2 DEF ReadPlan, GateTypeOK
      <4> QED BY <1>0, <3>2, <4>1 DEF ReadPlan, GateTypeOK
    <3>3. CASE GateFails(r)
      BY <1>0, <3>3 DEF GateFails, GateTypeOK
    <3> QED BY <1>4, <3>1, <3>2, <3>3, <3>4, <3>5
  <2>2. Creating' \subseteq Creating
    BY <1>0, <1>4 DEF Authenticate, ReadPlan, CountRefuses, CreateFails, GateFails,
       GateTypeOK, Creating
  <2>3. UNCHANGED <<month, created, compared, unmetered>>
    BY <1>4 DEF Authenticate, ReadPlan, CountRefuses, CreateFails, GateFails
  <2> QED BY <2>1, <2>2, <2>3, GateKeeps
<1>5. ASSUME NEW r \in Posts, ReadUnlimitedPlan(r) PROVE GateInv'
  <2>1. GateTypeOK'
    BY <1>0, <1>5 DEF ReadUnlimitedPlan, GateTypeOK
  <2> QED
    BY <1>5, <2>1 DEF ReadUnlimitedPlan, GateInv, GateTypeOK, CountedIn
<1>6. ASSUME NEW r \in Posts, CountWithin(r) PROVE GateInv'
  <2>1. GateTypeOK'
    BY <1>0, <1>6 DEF CountWithin, GateTypeOK
  <2>2. Cardinality(Creating') \in 0 .. Cardinality(Posts)
    BY PostsAreFew DEF Creating
  <2>3. created[month] < compared'[month]
    BY <1>0, <1>6 DEF CountWithin, Within, GateTypeOK
  <2>4. \A m \in 1 .. Months : m # month => compared'[m] = compared[m]
    BY <1>0, <1>6 DEF CountWithin, GateTypeOK
  <2>5. /\ month \in 1 .. Months /\ UNCHANGED <<month, created, unmetered>>
        /\ created[month] \in Nat /\ compared'[month] \in Nat
    BY <1>0, <1>6, <2>1 DEF CountWithin, GateTypeOK
  <2>6. CountedIn(month)' <= AtLeastOne(compared'[month]) + Cardinality(Posts) - 1
    BY <2>2, <2>3, <2>5, PostsAreFew DEF CountedIn, AtLeastOne
  <2>7. \A m \in 1 .. Months : m # month => CountedIn(m)' = CountedIn(m)
    BY <2>5 DEF CountedIn
  <2>8. \A m \in (1 .. Months) \ unmetered :
          CountedIn(m)' <= AtLeastOne(compared'[m]) + Cardinality(Posts) - 1
    BY <2>4, <2>5, <2>6, <2>7 DEF GateInv
  <2> QED BY <2>1, <2>4, <2>5, <2>8 DEF GateInv
<1>7. ASSUME NEW r \in Posts, CreateBill(r) PROVE GateInv'
  <2>1. GateTypeOK'
    <3>1. created[month] + 1 \in Nat /\ month \in 1 .. Months
      BY <1>0 DEF GateTypeOK
    <3>2. created' \in [1 .. Months -> Nat]
      BY <1>0, <1>7, <3>1 DEF CreateBill, GateTypeOK
    <3> QED BY <1>0, <1>7, <3>2 DEF CreateBill, GateTypeOK
  <2>2. Creating' = Creating \ {r} /\ r \in Creating /\ IsFiniteSet(Creating)
    BY <1>0, <1>7, FS_Subset DEF CreateBill, GateTypeOK, Creating
  <2>3. /\ Cardinality(Creating) \in Nat
        /\ Cardinality(Creating') = Cardinality(Creating) - 1
    BY <2>2, FS_RemoveElement, FS_CardinalityType
  <2>4. CountedIn(month)' = CountedIn(month)
    BY <1>0, <1>7, <2>3 DEF CreateBill, GateTypeOK, CountedIn
  <2>5. \A m \in 1 .. Months : m # month => created'[m] = created[m]
    BY <1>0, <1>7 DEF CreateBill, GateTypeOK
  <2>6. month \in 1 .. Months /\ UNCHANGED <<month, compared, unmetered>>
    BY <1>0, <1>7 DEF CreateBill, GateTypeOK
  <2> QED BY <2>1, <2>4, <2>5, <2>6 DEF GateInv, CountedIn
<1> QED BY <1>1, <1>2, <1>3, <1>4, <1>5, <1>6, <1>7 DEF GateNext, GateStep

(* "a merchant may create at most its plan's monthly invoice cap"          *)
(* (server.ts:385), up to the requests in flight together.                 *)
THEOREM GateHoldsCap == GateSpec => []CapHoldsUpToOverlap
<1>1. GateInv => CapHoldsUpToOverlap
  <2> SUFFICES ASSUME GateInv, NEW m \in (1 .. Months) \ unmetered
               PROVE  created[m] <= AtLeastOne(compared[m]) + Cardinality(Posts) - 1
    BY DEF CapHoldsUpToOverlap
  <2>1. Cardinality(Creating) \in Nat /\ Cardinality(Posts) \in Nat
    BY PostsAreFew DEF Creating
  <2>2. created[m] \in Nat /\ compared[m] \in Nat
    BY DEF GateInv, GateTypeOK
  <2>3. CountedIn(m) <= AtLeastOne(compared[m]) + Cardinality(Posts) - 1
    BY DEF GateInv
  <2> QED BY <2>1, <2>2, <2>3 DEF CountedIn, AtLeastOne
<1> QED BY <1>1, GateInvInit, GateInvNext, PTL DEF GateSpec

-----------------------------------------------------------------------------
(* The rate limiter.  A wait in whole seconds is no shorter than asked.    *)
LEMMA RoundedUp ==
  ASSUME NEW ms \in Int, NEW s \in Nat \ {0}
  PROVE  /\ (ms + s - 1) \div s \in Int
         /\ ((ms + s - 1) \div s) * s >= ms
  OBVIOUS

(* The hits let through are numbered as they come; a ring lacks none that  *)
(* is recent, and no more are recent than the ceilings allow.              *)
Numbered ==
  /\ IsFiniteSet(allowed)
  /\ \A h \in allowed : h.at <= clock /\ h.n < Cardinality(allowed)
  /\ \A g, h \in allowed : (g.n = h.n => g = h) /\ (g.n <= h.n => g.at <= h.at)

RingsHoldRecent ==
  /\ global \subseteq allowed
  /\ Window!Recent(clock) \subseteq global
  /\ \A c \in Ips : /\ perIp[c] \subseteq {h \in allowed : h.by = c}
                    /\ Window!RecentOf(c, clock) \subseteq perIp[c]

CeilingsHold ==
  /\ Cardinality(Window!Recent(clock)) <= Global
  /\ \A c \in Ips : Cardinality(Window!RecentOf(c, clock)) <= PerIp

LimiterInv == LimiterTypeOK /\ Numbered /\ RingsHoldRecent /\ CeilingsHold

(* The promise counts with a Cardinality of its own, the same one.         *)
LEMMA SameCount == \A S : Window!Cardinality(S) = Cardinality(S)
  BY DEF Cardinality, Window!Cardinality

(* A pruned ring holds the recent hits, neither more nor fewer.            *)
LEMMA RingsAreRecent ==
  ASSUME LimiterInv
  PROVE  /\ globalRecent = Window!Recent(clock)
         /\ \A c \in Ips : Bucket(c) = Window!RecentOf(c, clock)
  BY LimiterAssumption
     DEF LimiterInv, LimiterTypeOK, RingsHoldRecent, globalRecent, Bucket, prune,
         Window!Recent, Window!RecentOf

LEMMA RecentShrinks ==
  ASSUME LimiterInv, NEW t \in Nat, NEW u \in Nat, t <= u
  PROVE  /\ Window!Recent(u) \subseteq Window!Recent(t)
         /\ \A c \in Ips : Window!RecentOf(c, u) \subseteq Window!RecentOf(c, t)
         /\ IsFiniteSet(Window!Recent(t)) /\ IsFiniteSet(Window!Recent(u))
         /\ \A c \in Ips : IsFiniteSet(Window!RecentOf(c, t))
<1>1. \A h \in allowed : h.at \in Nat
  BY DEF LimiterInv, LimiterTypeOK, Hits
<1>2. /\ Window!Recent(u) \subseteq Window!Recent(t)
      /\ \A c \in Ips : Window!RecentOf(c, u) \subseteq Window!RecentOf(c, t)
  BY <1>1, LimiterAssumption DEF Window!Recent, Window!RecentOf
<1>3. /\ Window!Recent(t) \in SUBSET allowed /\ Window!Recent(u) \in SUBSET allowed
      /\ \A c \in Ips : Window!RecentOf(c, t) \in SUBSET allowed
  BY DEF Window!Recent, Window!RecentOf
<1>4. \A R \in SUBSET allowed : IsFiniteSet(R)
  BY FS_Subset DEF LimiterInv, Numbered
<1> QED BY <1>2, <1>3, <1>4

(* The oldest hit of a ring is one of them.                                *)
LEMMA OldestIsThere ==
  ASSUME LimiterInv, NEW R \in SUBSET allowed, R # {}
  PROVE  Oldest(R) \in R
<1> DEFINE N == {h.n : h \in R}
<1>1. N \subseteq Nat /\ N # {}
  BY DEF LimiterInv, LimiterTypeOK, Hits
<1> HIDE DEF N
<1> DEFINE Less == OpToRel(<, Nat)
<1>2. IsWellFoundedOn(Less, Nat)
  BY NatLessThanWellFounded
<1> HIDE DEF Less
<1>3. PICK n \in N : \A m \in N : <<m, n>> \notin Less
  BY <1>1, <1>2, WFMin
<1>4. \A m \in N : m < n => <<m, n>> \in Less
  BY <1>1 DEF Less, OpToRel
<1>5. \A m \in N : n <= m
  <2>1. \A m \in N : ~(m < n)
    BY <1>3, <1>4
  <2> QED BY <1>1, <2>1
<1>6. \E h \in R : \A g \in R : h.n <= g.n
  BY <1>5 DEF N
<1> QED BY <1>6 DEF Oldest

(* Once the wait is over, the oldest hit of the ring has left the window.  *)
LEMMA WaitIsEnough ==
  ASSUME LimiterInv, NEW R \in SUBSET allowed, R # {},
         NEW then, then = clock + retryAfter(R, clock) * Second
  PROVE  /\ retryAfter(R, clock) \in Nat \ {0}
         /\ then \in Nat /\ clock <= then
         /\ ~(Oldest(R).at > then - WindowMs)
<1> DEFINE ms == Oldest(R).at + WindowMs - clock
           seconds == (ms + Second - 1) \div Second
<1>1. ms \in Int /\ Oldest(R).at \in Nat /\ clock \in Nat /\ Second \in Nat \ {0}
  BY OldestIsThere, LimiterAssumption DEF LimiterInv, LimiterTypeOK, Hits
<1>2. retryAfter(R, clock) = IF seconds > 1 THEN seconds ELSE 1
  BY DEF retryAfter
<1> HIDE DEF ms
<1>3. seconds \in Int /\ seconds * Second >= ms
  BY <1>1, RoundedUp
<1> HIDE DEF seconds
<1>4. retryAfter(R, clock) \in Nat \ {0}
  BY <1>2, <1>3
<1>5. retryAfter(R, clock) * Second \in Nat /\ retryAfter(R, clock) * Second >= ms
  <2>1. CASE seconds > 1
    BY <1>1, <1>2, <1>3, <1>4, <2>1
  <2>2. CASE ~(seconds > 1)
    <3>1. seconds * Second <= Second
      BY <1>1, <1>3, <2>2
    <3>2. retryAfter(R, clock) * Second = Second
      BY <1>1, <1>2, <2>2
    <3> QED BY <1>1, <1>3, <3>1, <3>2
  <2> QED BY <2>1, <2>2
<1> HIDE DEF retryAfter
<1> QED BY <1>1, <1>4, <1>5, LimiterAssumption DEF ms

LEMMA LimiterInvInit == ASSUME LimiterInit PROVE LimiterInv
<1>1. /\ Window!Recent(clock) = {} /\ \A c \in Ips : Window!RecentOf(c, clock) = {}
  BY DEF LimiterInit, Window!Recent, Window!RecentOf
<1>2. IsFiniteSet({}) /\ Cardinality({}) = 0
  BY FS_EmptySet
<1>3. LimiterTypeOK
  <2>1. PICK c \in Ips : answer = [to |-> c, ok |-> TRUE, wait |-> 0]
    BY DEF LimiterInit
  <2>2. answer \in [to : Ips, ok : BOOLEAN, wait : Nat]
    BY <2>1
  <2> QED BY <2>2 DEF LimiterInit, LimiterTypeOK
<1>4. Numbered /\ RingsHoldRecent
  BY <1>1, <1>2 DEF LimiterInit, Numbered, RingsHoldRecent
<1>5. CeilingsHold
  BY <1>1, <1>2, LimiterAssumption DEF CeilingsHold
<1> QED BY <1>3, <1>4, <1>5 DEF LimiterInv

(* Advancing the clock.                                                    *)
LEMMA AdvanceKeeps ==
  ASSUME LimiterInv, NEW d \in Steps, Advance(d)
  PROVE  LimiterInv'
<1>1. clock \in Nat /\ clock' \in Nat /\ clock <= clock'
      /\ UNCHANGED <<perIp, global, allowed, answer>>
  BY LimiterAssumption DEF LimiterInv, LimiterTypeOK, Advance
<1>2. LimiterTypeOK'
  BY <1>1 DEF LimiterInv, LimiterTypeOK
<1>3. Numbered'
  BY <1>1 DEF LimiterInv, LimiterTypeOK, Numbered, Hits
<1>4. /\ Window!Recent(clock)' \subseteq Window!Recent(clock)
      /\ \A c \in Ips : Window!RecentOf(c, clock)' \subseteq Window!RecentOf(c, clock)
  <2>1. /\ Window!Recent(clock)' = Window!Recent(clock')
        /\ \A c \in Ips : Window!RecentOf(c, clock)' = Window!RecentOf(c, clock')
    BY <1>1 DEF Window!Recent, Window!RecentOf
  <2> QED BY <1>1, <2>1, RecentShrinks
<1>5. RingsHoldRecent'
  BY <1>1, <1>4 DEF LimiterInv, RingsHoldRecent
<1>6. CeilingsHold'
  <2>1. \A R, S : S \subseteq R /\ IsFiniteSet(R) =>
          Cardinality(S) <= Cardinality(R) /\ Cardinality(S) \in Nat /\ Cardinality(R) \in Nat
    BY FS_Subset, FS_CardinalityType
  <2>2. /\ IsFiniteSet(Window!Recent(clock))
        /\ \A c \in Ips : IsFiniteSet(Window!RecentOf(c, clock))
    BY <1>1, RecentShrinks
  <2> QED BY <1>4, <2>1, <2>2, LimiterAssumption DEF LimiterInv, CeilingsHold
<1> QED BY <1>2, <1>3, <1>5, <1>6 DEF LimiterInv

(* A rejected hit leaves the rings pruned and what was let through as is.  *)
LEMMA RejectKeeps ==
  ASSUME LimiterInv, NEW c \in Ips, RejectGlobally(c) \/ RejectIp(c)
  PROVE  LimiterInv' /\ Window!SlidingReject(c)
<1> DEFINE ring == IF RejectGlobally(c) THEN Window!Recent(clock) ELSE Window!RecentOf(c, clock)
           wait == retryAfter(ring, clock)
           then == clock + wait * Second
<1>1. /\ answer' = Rejected(c, ring)
      /\ UNCHANGED <<clock, allowed>>
      /\ IF RejectGlobally(c) THEN Cardinality(ring) >= Global ELSE Cardinality(ring) >= PerIp
  BY RingsAreRecent DEF RejectGlobally, RejectIp
<1>2. ring \in SUBSET allowed /\ IsFiniteSet(ring) /\ clock \in Nat
  BY FS_Subset DEF Window!Recent, Window!RecentOf, LimiterInv, LimiterTypeOK, Numbered
<1>3. ring # {}
  BY <1>1, <1>2, FS_EmptySet, LimiterAssumption
<1>4. /\ wait \in Nat \ {0} /\ then \in Nat /\ clock <= then
      /\ ~(Oldest(ring).at > then - WindowMs) /\ Oldest(ring) \in ring
  BY <1>2, <1>3, WaitIsEnough, OldestIsThere
<1>5. answer'.to = c /\ ~answer'.ok /\ answer'.wait = wait
  BY <1>1 DEF Rejected
<1>6. Cardinality(ring \ {Oldest(ring)}) = Cardinality(ring) - 1 /\ Cardinality(ring) \in Nat
  BY <1>2, <1>4, FS_RemoveElement, FS_CardinalityType
<1>7. LimiterInv'
  <2>1. answer' \in [to : Ips, ok : BOOLEAN, wait : Nat]
    BY <1>1, <1>4 DEF Rejected
  <2>2. /\ global' \subseteq global /\ Window!Recent(clock) \subseteq global'
        /\ perIp' \in [Ips -> SUBSET Hits]
        /\ \A b \in Ips : perIp'[b] \subseteq perIp[b] /\ Window!RecentOf(b, clock) \subseteq perIp'[b]
    BY RingsAreRecent DEF RejectGlobally, RejectIp, LimiterInv, LimiterTypeOK, RingsHoldRecent,
       globalRecent, Bucket, prune
  <2>3. LimiterTypeOK'
    BY <1>1, <2>1, <2>2 DEF LimiterInv, LimiterTypeOK
  <2>4. Numbered' /\ CeilingsHold'
    BY <1>1 DEF LimiterInv, Numbered, CeilingsHold, Window!Recent, Window!RecentOf
  <2>5. /\ Window!Recent(clock)' = Window!Recent(clock)
        /\ \A b \in Ips : Window!RecentOf(b, clock)' = Window!RecentOf(b, clock)
    BY <1>1 DEF Window!Recent, Window!RecentOf
  <2>6. RingsHoldRecent'
    BY <1>1, <2>2, <2>5 DEF LimiterInv, RingsHoldRecent
  <2> QED BY <2>3, <2>4, <2>6 DEF LimiterInv
<1>8. CASE RejectGlobally(c)
  <2>1. ring = Window!Recent(clock) /\ Cardinality(ring) >= Global
    BY <1>1, <1>8
  <2>2. Window!Recent(then) \subseteq ring \ {Oldest(ring)}
    BY <1>2, <1>4, <2>1, RecentShrinks DEF Window!Recent
  <2>3. Cardinality(Window!Recent(then)) <= Cardinality(ring) - 1
    BY <1>2, <1>6, <2>2, FS_RemoveElement, FS_Subset
  <2>4. Cardinality(ring) <= Global
    BY <2>1 DEF LimiterInv, CeilingsHold
  <2>5. Cardinality(Window!Recent(then)) < Global
    <3>1. Cardinality(Window!Recent(then)) \in Nat
      BY <1>2, <1>4, RecentShrinks, FS_CardinalityType
    <3> QED BY <1>6, <2>3, <2>4, <3>1, LimiterAssumption
  <2>6. ~Window!Admits(c)
    <3>1. Window!Admits(c) => Cardinality(Window!Recent(clock)) < Global
                              /\ Cardinality(Window!RecentOf(c, clock)) < PerIp
      BY SameCount DEF Window!Admits
    <3> HIDE DEF ring
    <3> QED BY <1>6, <2>1, <3>1, LimiterAssumption
  <2> HIDE DEF ring, wait, then
  <2> QED
    BY <1>1, <1>4, <1>5, <1>7, <2>1, <2>5, <2>6, SameCount DEF Window!SlidingReject, then
<1>9. CASE ~RejectGlobally(c)
  <2>1. ring = Window!RecentOf(c, clock) /\ Cardinality(ring) >= PerIp
    BY <1>1, <1>9
  <2>2. Window!RecentOf(c, then) \subseteq ring \ {Oldest(ring)}
    <3>1. Window!RecentOf(c, then) \subseteq ring
      BY <1>2, <1>4, <2>1, RecentShrinks
    <3>2. Oldest(ring) \notin Window!RecentOf(c, then)
      BY <1>4 DEF Window!Recent, Window!RecentOf
    <3> QED BY <3>1, <3>2
  <2>3. Cardinality(Window!RecentOf(c, then)) <= Cardinality(ring) - 1
    BY <1>2, <1>6, <2>2, FS_RemoveElement, FS_Subset
  <2>4. Cardinality(ring) <= PerIp
    BY <2>1 DEF LimiterInv, CeilingsHold
  <2>5. Cardinality(Window!RecentOf(c, then)) < PerIp
    <3>1. Cardinality(Window!RecentOf(c, then)) \in Nat
      <4>1. IsFiniteSet(Window!RecentOf(c, then))
        BY <1>4, RecentShrinks
      <4> QED BY <4>1, FS_CardinalityType
    <3> QED BY <1>6, <2>3, <2>4, <3>1, LimiterAssumption
  <2>6. ~Window!Admits(c)
    <3>1. Window!Admits(c) => Cardinality(Window!Recent(clock)) < Global
                              /\ Cardinality(Window!RecentOf(c, clock)) < PerIp
      BY SameCount DEF Window!Admits
    <3> HIDE DEF ring
    <3> QED BY <1>6, <2>1, <3>1, LimiterAssumption
  <2> HIDE DEF ring, wait, then
  <2> QED
    BY <1>1, <1>4, <1>5, <1>7, <2>1, <2>5, <2>6, SameCount DEF Window!SlidingReject, then
<1> QED BY <1>8, <1>9

(* A hit let through is recent from then on, the newest of all.            *)
LEMMA AllowKeeps ==
  ASSUME LimiterInv, NEW c \in Ips, AllowHit(c)
  PROVE  LimiterInv' /\ Window!SlidingAllow(c)
<1> DEFINE h == [n |-> Cardinality(allowed), by |-> c, at |-> clock]
<1>1. /\ Cardinality(Window!Recent(clock)) < Global
      /\ Cardinality(Window!RecentOf(c, clock)) < PerIp
      /\ allowed' = allowed \cup {h}
      /\ global' = Window!Recent(clock) \cup {h}
      /\ perIp' = [perIp EXCEPT ![c] = Window!RecentOf(c, clock) \cup {h}]
      /\ answer' = [to |-> c, ok |-> TRUE, wait |-> 0]
      /\ clock' = clock
  BY RingsAreRecent DEF AllowHit
<1>2. /\ IsFiniteSet(allowed) /\ Cardinality(allowed) \in Nat /\ clock \in Nat
      /\ h \in Hits /\ h \notin allowed
      /\ h.n = Cardinality(allowed) /\ h.by = c /\ h.at = clock
  BY FS_CardinalityType DEF LimiterInv, LimiterTypeOK, Numbered, Hits
<1>3. IsFiniteSet(allowed') /\ Cardinality(allowed') = Cardinality(allowed) + 1
  BY <1>1, <1>2, FS_AddElement
<1>4. \A g \in allowed : g.at \in Nat /\ g.n \in Nat /\ g.at <= clock /\ g.n < h.n
  BY <1>2 DEF LimiterInv, LimiterTypeOK, Numbered, Hits
<1> HIDE DEF h
<1>5. /\ Window!Recent(clock)' = Window!Recent(clock) \cup {h}
      /\ Window!RecentOf(c, clock)' = Window!RecentOf(c, clock) \cup {h}
      /\ \A b \in Ips \ {c} : Window!RecentOf(b, clock)' = Window!RecentOf(b, clock)
  BY <1>1, <1>2, LimiterAssumption DEF Window!Recent, Window!RecentOf
<1>6. LimiterTypeOK'
  BY <1>1, <1>2 DEF LimiterInv, LimiterTypeOK, Window!Recent, Window!RecentOf
<1>7. Numbered'
  <2>1. \A g \in allowed' : g.at <= clock' /\ g.n < Cardinality(allowed')
    BY <1>1, <1>2, <1>3, <1>4
  <2>2. \A f, g \in allowed' : (f.n = g.n => f = g) /\ (f.n <= g.n => f.at <= g.at)
    <3> SUFFICES ASSUME NEW f \in allowed', NEW g \in allowed'
                 PROVE  (f.n = g.n => f = g) /\ (f.n <= g.n => f.at <= g.at)
      OBVIOUS
    <3>1. CASE f \in allowed /\ g \in allowed
      BY <3>1 DEF LimiterInv, Numbered
    <3>2. CASE f \in allowed /\ g = h
      BY <1>2, <1>4, <3>2
    <3>3. CASE f = h /\ g \in allowed
      BY <1>2, <1>4, <3>3
    <3>4. CASE f = h /\ g = h
      BY <1>2, <3>4
    <3> QED BY <1>1, <3>1, <3>2, <3>3, <3>4
  <2> QED BY <1>3, <2>1, <2>2 DEF Numbered
<1>8. RingsHoldRecent'
  <2>1. global' \subseteq allowed' /\ Window!Recent(clock)' \subseteq global'
    BY <1>1, <1>5 DEF Window!Recent
  <2>2. /\ perIp'[c] = Window!RecentOf(c, clock)'
        /\ \A b \in Ips \ {c} : perIp'[b] = perIp[b]
    BY <1>1, <1>5 DEF LimiterInv, LimiterTypeOK
  <2>3. Window!RecentOf(c, clock)' \subseteq {g \in allowed' : g.by = c}
    BY DEF Window!Recent, Window!RecentOf
  <2>4. ASSUME NEW b \in Ips \ {c}
        PROVE  /\ perIp'[b] \subseteq {g \in allowed' : g.by = b}
               /\ Window!RecentOf(b, clock)' \subseteq perIp'[b]
    BY <1>1, <1>5, <2>2 DEF LimiterInv, RingsHoldRecent
  <2> QED BY <2>1, <2>2, <2>3, <2>4 DEF RingsHoldRecent
<1>9. CeilingsHold'
  <2>1. /\ IsFiniteSet(Window!Recent(clock))
        /\ \A b \in Ips : IsFiniteSet(Window!RecentOf(b, clock))
    BY <1>2, RecentShrinks
  <2>2. /\ Cardinality(Window!Recent(clock)) \in Nat
        /\ Cardinality(Window!RecentOf(c, clock)) \in Nat
    BY <2>1, FS_CardinalityType
  <2>3. /\ Cardinality(Window!Recent(clock) \cup {h}) <= Cardinality(Window!Recent(clock)) + 1
        /\ Cardinality(Window!RecentOf(c, clock) \cup {h})
              <= Cardinality(Window!RecentOf(c, clock)) + 1
    <3>1. Cardinality(Window!Recent(clock) \cup {h})
            \in {Cardinality(Window!Recent(clock)), Cardinality(Window!Recent(clock)) + 1}
      BY <2>1, FS_AddElement
    <3>2. Cardinality(Window!RecentOf(c, clock) \cup {h})
            \in {Cardinality(Window!RecentOf(c, clock)),
                 Cardinality(Window!RecentOf(c, clock)) + 1}
      BY <2>1, FS_AddElement
    <3> QED BY <2>2, <3>1, <3>2
  <2>4. /\ Cardinality(Window!Recent(clock) \cup {h}) \in Nat
        /\ Cardinality(Window!RecentOf(c, clock) \cup {h}) \in Nat
    BY <2>1, FS_AddElement, FS_CardinalityType
  <2>5. /\ Cardinality(Window!Recent(clock) \cup {h}) <= Global
        /\ Cardinality(Window!RecentOf(c, clock) \cup {h}) <= PerIp
    BY <1>1, <2>2, <2>3, <2>4, LimiterAssumption
  <2> QED BY <1>5, <2>5 DEF LimiterInv, CeilingsHold
<1>10. Window!SlidingAllow(c)
  BY <1>1, SameCount DEF Window!SlidingAllow, Window!Admits, h
<1> QED BY <1>6, <1>7, <1>8, <1>9, <1>10 DEF LimiterInv

LEMMA LimiterStep ==
  ASSUME LimiterInv, [LimiterNext]_limiterVars
  PROVE  LimiterInv' /\ [Window!SlidingNext]_<<clock, allowed, answer>>
<1>1. CASE UNCHANGED limiterVars
  BY <1>1 DEF limiterVars, LimiterInv, LimiterTypeOK, Numbered, RingsHoldRecent, CeilingsHold,
     Window!Recent, Window!RecentOf
<1>2. ASSUME NEW d \in Steps, Advance(d) PROVE LimiterInv' /\ Window!SlidingNext
  <2>1. Window!SlidingTime
    BY <1>2, LimiterAssumption DEF Advance, LimiterInv, LimiterTypeOK, Window!SlidingTime
  <2> QED BY <1>2, <2>1, AdvanceKeeps DEF Window!SlidingNext
<1>3. ASSUME NEW c \in Ips, RejectGlobally(c) \/ RejectIp(c)
      PROVE  LimiterInv' /\ Window!SlidingNext
  <2>1. answer'.to = c
    BY <1>3 DEF RejectGlobally, RejectIp, Rejected
  <2> QED BY <1>3, <2>1, RejectKeeps DEF Window!SlidingNext
<1>4. ASSUME NEW c \in Ips, AllowHit(c) PROVE LimiterInv' /\ Window!SlidingNext
  <2>1. answer'.to = c
    BY <1>4 DEF AllowHit
  <2> QED BY <1>4, <2>1, AllowKeeps DEF Window!SlidingNext
<1> QED BY <1>1, <1>2, <1>3, <1>4 DEF LimiterNext

(* The limiter decides as if it had kept every hit it ever let through,    *)
(* and whoever is turned away is told to wait long enough                  *)
(* (listener/src/rate-limit.ts).                                           *)
THEOREM LimiterImplements == LimiterSpec => ImplementsSlidingWindow
<1>1. LimiterInit => Window!SlidingInit
  BY DEF LimiterInit, Window!SlidingInit
<1>2. LimiterInv /\ [LimiterNext]_limiterVars
        => LimiterInv' /\ [Window!SlidingNext]_<<clock, allowed, answer>>
  BY LimiterStep
<1> QED
  BY <1>1, <1>2, LimiterInvInit, PTL
     DEF LimiterSpec, ImplementsSlidingWindow, Window!SlidingSpec, Window!windowVars

-----------------------------------------------------------------------------
(* Billing.  An invoice has been granted when its row is settled, or the   *)
(* round that is to settle it has activated the plan.                      *)
Granted(m, p) ==
  {s \in ConfirmedOf(m, p) : row[s] = "active" \/ (job.at = "settle" /\ job.sub = s)}
Credits(m, p) == Cardinality(Granted(m, p)) + mishaps

(* The time x is paid for, with n periods by invoice.                      *)
PaidThrough(m, p, x, n) == \E t \in PaidUntil(m, p) : x <= t + Period * n

JobPcs == {"idle", "next", "merchant", "grant", "settle", "close"}
HookPcs == {"idle", "find", "activate", "row", "cancel", "check", "downgrade"}
RowStates == {"none", "lost", "pending", "active", "expired", "canceled"}
Mails == [kind : {"completed", "paid", "deleted"}, sub : CardSubs, end : Nat, by : Nat]

BillingShape ==
  /\ now \in Nat /\ mishaps \in Nat
  /\ plan \in [Shops -> Plans \cup {Free}] /\ planEnd \in [Shops -> Nat]
  /\ row \in [Subs -> RowStates]
  /\ bill \in [CryptoSubs -> {"none", "pending", "confirmed", "expired"}]
  /\ written \in [CryptoSubs -> SUBSET {"confirmed", "expired"}]
  /\ paidTo \in [CardSubs -> Nat]
  /\ todo \subseteq CryptoSubs
  /\ job \in [at : JobPcs, sub : CryptoSubs \cup {"none"}, until : Nat]
  /\ mail \subseteq Mails
  /\ hook \in [Handlers -> [at : HookPcs, event : mail \cup {"none"}, until : Nat]]

(* What a round has read holds until it is done with it: its rows are      *)
(* pending, for no one else writes them.                                   *)
JobShape ==
  /\ \A s \in todo : row[s] = "pending"
  /\ \A s \in CryptoSubs : bill[s] = "confirmed" => "confirmed" \in written[s]
  /\ \A s \in CryptoSubs : row[s] = "active" => "confirmed" \in written[s]
  /\ job.at \in {"merchant", "grant", "settle", "close"} =>
       job.sub \in CryptoSubs \ todo /\ row[job.sub] = "pending"
  /\ job.at \in {"merchant", "grant", "settle"} => "confirmed" \in written[job.sub]
  /\ job.at = "grant" =>
       PaidThrough(ShopOf[job.sub], PlanOf[job.sub], job.until,
                   Credits(ShopOf[job.sub], PlanOf[job.sub]) + 1)

(* An event tells of a charge, and what it grants ends before the delay    *)
(* and the grace after the period charged for.                             *)
MailShape ==
  \A e \in mail :
    /\ e.end <= paidTo[e.sub]
    /\ e.kind # "deleted" => paidTo[e.sub] > 0
    /\ e.kind = "completed" => e.by + Period <= paidTo[e.sub] + Delay

HookShape ==
  \A h \in Handlers :
    /\ hook[h].at # "idle" => hook[h].event \in mail
    /\ hook[h].at = "find" => hook[h].event.kind # "completed"
    /\ hook[h].at = "activate" =>
         paidTo[HookSub(h)] > 0 /\ hook[h].until <= paidTo[HookSub(h)] + Delay + Grace

PlanPaid(m) ==
  plan[m] # Free =>
    /\ ConfirmedOf(m, plan[m]) \cup ChargedOf(m, plan[m]) # {}
    /\ PaidThrough(m, plan[m], planEnd[m], Credits(m, plan[m]))

BillingInv ==
  BillingShape /\ JobShape /\ MailShape /\ HookShape /\ \A m \in Shops : PlanPaid(m)

LEMMA BillingConstants ==
  /\ Period \in Nat /\ Period > 0 /\ Grace \in Nat /\ Delay \in Nat /\ InvoiceTtl \in Nat
  /\ \A s \in Subs : ShopOf[s] \in Shops /\ PlanOf[s] \in Plans /\ PlanOf[s] # Free
  /\ CryptoSubs \subseteq Subs /\ CardSubs \subseteq Subs /\ CryptoSubs \cap CardSubs = {}
  /\ IsFiniteSet(CryptoSubs)
<1>1. IsFiniteSet(CryptoSubs)
  BY BillingAssumption, FS_Subset DEF Subs
<1> QED BY <1>1, BillingAssumption DEF Subs

LEMMA CreditsAreNatural ==
  ASSUME BillingShape, NEW m, NEW p
  PROVE  /\ IsFiniteSet(ConfirmedOf(m, p)) /\ IsFiniteSet(Granted(m, p))
         /\ Cardinality(Granted(m, p)) \in Nat /\ Cardinality(ConfirmedOf(m, p)) \in Nat
         /\ Cardinality(Granted(m, p)) <= Cardinality(ConfirmedOf(m, p))
         /\ Credits(m, p) \in Nat
<1>1. ConfirmedOf(m, p) \subseteq CryptoSubs /\ Granted(m, p) \subseteq ConfirmedOf(m, p)
  BY DEF ConfirmedOf, Granted
<1>2. IsFiniteSet(ConfirmedOf(m, p)) /\ IsFiniteSet(Granted(m, p))
  BY <1>1, BillingConstants, FS_Subset
<1> QED BY <1>1, <1>2, FS_Subset, FS_CardinalityType DEF Credits, BillingShape

LEMMA CreditsAreNaturalNext ==
  ASSUME BillingShape', NEW m, NEW p
  PROVE  /\ IsFiniteSet(Granted(m, p)')
         /\ Cardinality(Granted(m, p)') \in Nat /\ Credits(m, p)' \in Nat
<1>1. Granted(m, p)' \subseteq CryptoSubs
  BY DEF ConfirmedOf, Granted
<1>2. IsFiniteSet(Granted(m, p)')
  BY <1>1, BillingConstants, FS_Subset
<1> QED BY <1>2, FS_CardinalityType DEF Credits, BillingShape

LEMMA PeriodTimes ==
  ASSUME NEW a \in Nat, NEW b \in Nat, a <= b
  PROVE  /\ Period * a \in Nat /\ Period * a <= Period * b
         /\ Period * (a + 1) = Period * a + Period
  BY BillingConstants

(* Time and charges only go forward.                                       *)
Forward ==
  /\ now <= now' /\ \A s \in CardSubs : paidTo[s] <= paidTo'[s]
  /\ \A s \in CryptoSubs : "confirmed" \in written[s] => "confirmed" \in written'[s]

LEMMA PaidThroughKeeps ==
  ASSUME BillingShape, BillingShape', Forward, NEW m, NEW p,
         NEW x \in Nat, NEW y \in Nat, y <= x, NEW n \in Nat, NEW k \in Nat, n <= k,
         PaidThrough(m, p, x, n)
  PROVE  PaidThrough(m, p, y, k)'
<1>1. PICK t \in PaidUntil(m, p) : x <= t + Period * n
  BY DEF PaidThrough
<1>2. Period * n \in Nat /\ Period * k \in Nat /\ Period * n <= Period * k
  BY PeriodTimes
<1>3. t \in Nat /\ \E u \in PaidUntil(m, p)' : u \in Nat /\ t <= u
  <2>1. CASE t = now
    BY <2>1 DEF PaidUntil, Forward, BillingShape
  <2>2. ASSUME NEW s \in ChargedOf(m, p), t = paidTo[s] + Delay + Grace
        PROVE  t \in Nat /\ \E u \in PaidUntil(m, p)' : u \in Nat /\ t <= u
    <3>1. s \in CardSubs /\ paidTo[s] \in Nat /\ paidTo'[s] \in Nat /\ paidTo[s] <= paidTo'[s]
      BY DEF ChargedOf, BillingShape, Forward
    <3>2. paidTo'[s] + Delay + Grace \in Nat /\ t <= paidTo'[s] + Delay + Grace /\ t \in Nat
      BY <2>2, <3>1, BillingConstants
    <3>3. s \in ChargedOf(m, p)'
      BY <3>1 DEF ChargedOf
    <3>4. paidTo'[s] + Delay + Grace \in PaidUntil(m, p)'
      BY <3>3, BillingConstants DEF PaidUntil
    <3> QED BY <3>2, <3>4
  <2> QED BY <1>1, <2>1, <2>2 DEF PaidUntil
<1>4. PICK u \in PaidUntil(m, p)' : u \in Nat /\ t <= u
  BY <1>3
<1>5. y <= u + Period * k
  <2> DEFINE a == Period * n
             b == Period * k
  <2>1. a \in Nat /\ b \in Nat /\ a <= b /\ x <= t + a
    BY <1>1, <1>2
  <2> HIDE DEF a, b
  <2>2. y <= u + b
    BY <1>3, <1>4, <2>1
  <2> QED BY <2>2 DEF b
<1> QED BY <1>4, <1>5 DEF PaidThrough

LEMMA BillingInvInit == ASSUME BillingInit PROVE BillingInv
<1>1. BillingShape
  BY DEF BillingInit, BillingShape, RowStates, JobPcs, HookPcs, Resting, Subs
<1>2. JobShape /\ MailShape /\ HookShape
  BY BillingConstants DEF BillingInit, JobShape, MailShape, HookShape, Resting
<1> QED BY <1>1, <1>2 DEF BillingInit, BillingInv, PlanPaid

(* The plan of a shop stays paid for while it is not written.              *)
LEMMA PlanKeeps ==
  ASSUME BillingShape, BillingShape', Forward, NEW m \in Shops, PlanPaid(m),
         plan'[m] = plan[m], planEnd'[m] = planEnd[m],
         Credits(m, plan[m]) <= Credits(m, plan[m])'
  PROVE  PlanPaid(m)'
<1> SUFFICES ASSUME plan[m] # Free PROVE PlanPaid(m)'
  BY DEF PlanPaid
<1>1. PICK p : p = plan[m]
  OBVIOUS
<1>2. /\ PaidThrough(m, p, planEnd[m], Credits(m, p))
      /\ ConfirmedOf(m, p) \cup ChargedOf(m, p) # {}
  BY <1>1 DEF PlanPaid
<1>3. /\ Credits(m, p) \in Nat /\ Credits(m, p)' \in Nat /\ Credits(m, p) <= Credits(m, p)'
      /\ planEnd[m] \in Nat /\ planEnd[m] <= planEnd[m]
  BY <1>1, CreditsAreNatural, CreditsAreNaturalNext DEF BillingShape
<1>4. PaidThrough(m, p, planEnd[m], Credits(m, p))'
  BY <1>2, <1>3, PaidThroughKeeps
<1>5. (ConfirmedOf(m, p) \cup ChargedOf(m, p))' # {}
  BY <1>2 DEF ConfirmedOf, ChargedOf, Forward, BillingShape
<1> QED BY <1>1, <1>4, <1>5 DEF PlanPaid

(* A step that writes nothing a round goes by.                             *)
LEMMA AsideKeeps ==
  ASSUME BillingInv, BillingShape', Forward,
         UNCHANGED <<job, todo, mishaps>>,
         \A s \in CryptoSubs : row'[s] = "active" <=> row[s] = "active",
         \A s \in CryptoSubs : row[s] = "pending" => row'[s] = "pending",
         \A s \in CryptoSubs : bill'[s] = "confirmed" => "confirmed" \in written'[s]
  PROVE  /\ JobShape'
         /\ \A m \in Shops :
              plan'[m] = plan[m] /\ planEnd'[m] = planEnd[m] => PlanPaid(m)'
<1> USE DEF BillingInv
<1>1. ASSUME NEW m, NEW p PROVE Credits(m, p) <= Credits(m, p)'
  <2>1. Granted(m, p) \subseteq Granted(m, p)'
    <3>1. ASSUME NEW s \in Granted(m, p) PROVE s \in Granted(m, p)'
      <4>1. /\ s \in CryptoSubs /\ ShopOf[s] = m /\ PlanOf[s] = p /\ "confirmed" \in written[s]
            /\ row[s] = "active" \/ (job.at = "settle" /\ job.sub = s)
        BY DEF Granted, ConfirmedOf
      <4>2. "confirmed" \in written'[s] /\ (row'[s] = "active" \/ (job'.at = "settle" /\ job'.sub = s))
        BY <4>1 DEF Forward
      <4> QED BY <4>1, <4>2 DEF Granted, ConfirmedOf
    <3> QED BY <3>1
  <2>2. IsFiniteSet(Granted(m, p)') /\ Cardinality(Granted(m, p)') \in Nat /\ mishaps \in Nat
    BY CreditsAreNaturalNext DEF BillingShape
  <2>3. Cardinality(Granted(m, p)) <= Cardinality(Granted(m, p)') /\ Cardinality(Granted(m, p)) \in Nat
    BY <2>1, <2>2, FS_Subset, CreditsAreNatural
  <2> QED BY <2>2, <2>3 DEF Credits
<1>2. \A m \in Shops : plan'[m] = plan[m] /\ planEnd'[m] = planEnd[m] => PlanPaid(m)'
  BY <1>1, PlanKeeps
<1>3. job.at = "grant" =>
        PaidThrough(ShopOf[job.sub], PlanOf[job.sub], job.until,
                    Credits(ShopOf[job.sub], PlanOf[job.sub]) + 1)'
  <2> SUFFICES ASSUME job.at = "grant"
               PROVE  PaidThrough(ShopOf[job.sub], PlanOf[job.sub], job.until,
                                  Credits(ShopOf[job.sub], PlanOf[job.sub]) + 1)'
    OBVIOUS
  <2>1. PICK m, p, u : m = ShopOf[job.sub] /\ p = PlanOf[job.sub] /\ u = job.until
    OBVIOUS
  <2>2. PaidThrough(m, p, u, Credits(m, p) + 1) /\ u \in Nat
    BY <2>1 DEF JobShape, BillingShape
  <2>3. /\ Credits(m, p) + 1 \in Nat /\ Credits(m, p)' + 1 \in Nat
        /\ Credits(m, p) + 1 <= Credits(m, p)' + 1 /\ u <= u
    BY <1>1, <2>2, CreditsAreNatural, CreditsAreNaturalNext
  <2>4. PaidThrough(m, p, u, Credits(m, p) + 1)'
    BY <2>2, <2>3, PaidThroughKeeps
  <2> QED BY <2>1, <2>4
<1>4. JobShape'
  <2>1. \A s \in todo' : row'[s] = "pending"
    BY DEF JobShape, BillingShape
  <2>2. \A s \in CryptoSubs : row'[s] = "active" => "confirmed" \in written'[s]
    BY DEF JobShape, Forward
  <2>3. job'.at \in {"merchant", "grant", "settle", "close"} =>
          job'.sub \in CryptoSubs \ todo' /\ row'[job'.sub] = "pending"
    BY DEF JobShape
  <2>4. job'.at \in {"merchant", "grant", "settle"} => "confirmed" \in written'[job'.sub]
    BY DEF JobShape, Forward
  <2> QED BY <1>3, <2>1, <2>2, <2>3, <2>4 DEF JobShape
<1> QED BY <1>2, <1>4

(* The invoice, its row and the time.                                      *)
LEMMA BillKeeps ==
  ASSUME BillingInv,
         \/ PassTime
         \/ \E s \in CryptoSubs :
              \/ AskCrypto(s) \/ InsertCryptoRow(s) \/ InsertCryptoRowFails(s)
              \/ ConfirmBill(s) \/ ExpireBill(s)
  PROVE  BillingInv'
<1> USE DEF BillingInv
<1>1. /\ UNCHANGED <<plan, planEnd, job, todo, mishaps, paidTo, mail, hook>>
      /\ now' \in Nat /\ now <= now'
  BY DEF PassTime, AskCrypto, InsertCryptoRow, InsertCryptoRowFails, ConfirmBill, ExpireBill,
         WriteStatus, shopVars, rowVars, billVars, stripeVars, jobVars, BillingShape
<1>2. /\ row' \in [Subs -> RowStates]
      /\ \A s \in CryptoSubs : row'[s] = "active" <=> row[s] = "active"
      /\ \A s \in CryptoSubs : row[s] = "pending" => row'[s] = "pending"
  BY BillingConstants DEF PassTime, AskCrypto, InsertCryptoRow, InsertCryptoRowFails,
         ConfirmBill, ExpireBill, WriteStatus, rowVars, RowStates, BillingShape
<1>3. /\ bill' \in [CryptoSubs -> {"none", "pending", "confirmed", "expired"}]
      /\ written' \in [CryptoSubs -> SUBSET {"confirmed", "expired"}]
      /\ \A s \in CryptoSubs : "confirmed" \in written[s] => "confirmed" \in written'[s]
      /\ \A s \in CryptoSubs : bill'[s] = "confirmed" => "confirmed" \in written'[s]
  BY DEF PassTime, AskCrypto, InsertCryptoRow, InsertCryptoRowFails, ConfirmBill, ExpireBill,
         WriteStatus, billVars, BillingShape, JobShape
<1>4. BillingShape'
  BY <1>1, <1>2, <1>3 DEF BillingShape
<1>5. Forward
  BY <1>1, <1>3 DEF Forward, BillingShape
<1>6. MailShape' /\ HookShape'
  BY <1>1 DEF MailShape, HookShape, HookSub
<1> QED BY <1>1, <1>2, <1>3, <1>4, <1>5, <1>6, AsideKeeps

(* The card and its events: a charge ends a period from now or later.      *)
LEMMA CardKeeps ==
  ASSUME BillingInv, NEW s \in CardSubs,
         OpenCard(s) \/ Subscribe(s) \/ RenewCard(s) \/ CancelCard(s)
  PROVE  BillingInv'
<1> USE DEF BillingInv
<1>1. UNCHANGED <<now, plan, planEnd, job, todo, mishaps, bill, written, hook>>
  BY DEF OpenCard, Subscribe, RenewCard, CancelCard, shopVars, jobVars, billVars
<1>2. /\ row' \in [Subs -> RowStates]
      /\ \A c \in CryptoSubs : row'[c] = row[c]
  BY BillingConstants DEF OpenCard, Subscribe, RenewCard, CancelCard, rowVars, RowStates,
         BillingShape
<1> DEFINE end == Later(now, paidTo[s]) + Period
<1>3. now + Period <= end /\ paidTo[s] <= end /\ end \in Nat /\ end > 0 /\ now + Delay \in Nat
  BY BillingConstants DEF Later, BillingShape
<1>4. /\ mail \subseteq mail'
      /\ paidTo' \in [CardSubs -> Nat]
      /\ \A c \in CardSubs : paidTo[c] <= paidTo'[c]
      /\ mail' \subseteq Mails
      /\ MailShape'
  <2>1. CASE OpenCard(s)
    BY <2>1 DEF OpenCard, BillingShape, MailShape
  <2>2. CASE CancelCard(s)
    <3> DEFINE e == [kind |-> "deleted", sub |-> s, end |-> 0, by |-> now + Delay]
    <3>1. mail' = mail \cup {e} /\ paidTo' = paidTo /\ paidTo[s] \in Nat
      BY <2>2 DEF CancelCard, Event, BillingShape
    <3>2. e \in Mails /\ e.sub = s /\ e.kind = "deleted" /\ e.end = 0
      BY <1>3 DEF Mails
    <3> HIDE DEF e
    <3>3. MailShape'
      BY <3>1, <3>2 DEF MailShape
    <3> QED BY <3>1, <3>2, <3>3 DEF BillingShape
  <2>3. ASSUME NEW kinds \in SUBSET {"completed", "paid"}, Charge(s, kinds)
        PROVE  /\ mail \subseteq mail'
               /\ paidTo' \in [CardSubs -> Nat]
               /\ \A c \in CardSubs : paidTo[c] <= paidTo'[c]
               /\ mail' \subseteq Mails
               /\ MailShape'
    <3> DEFINE e(k) == [kind |-> k, sub |-> s, end |-> end, by |-> now + Delay]
    <3>1. /\ mail' = mail \cup {e(k) : k \in kinds}
          /\ paidTo' = [paidTo EXCEPT ![s] = end]
      BY <2>3 DEF Charge, Event
    <3>2. \A k \in kinds : /\ e(k) \in Mails /\ e(k).sub = s /\ e(k).kind = k
                           /\ e(k).end = end /\ e(k).by = now + Delay
      BY <1>3 DEF Mails
    <3>3. /\ paidTo' \in [CardSubs -> Nat] /\ paidTo'[s] = end
          /\ \A c \in CardSubs : paidTo[c] \in Nat /\ paidTo[c] <= paidTo'[c]
      BY <1>3, <3>1 DEF BillingShape
    <3>4. end + Delay \in Nat /\ now + Delay + Period <= end + Delay /\ end <= end
      BY <1>3, BillingConstants DEF BillingShape
    <3> HIDE DEF end, e
    <3>5. ASSUME NEW m \in mail'
          PROVE  /\ m.end <= paidTo'[m.sub]
                 /\ m.kind # "deleted" => paidTo'[m.sub] > 0
                 /\ m.kind = "completed" => m.by + Period <= paidTo'[m.sub] + Delay
      <4>1. CASE m \in mail
        <5>1. /\ m.sub \in CardSubs /\ m.end \in Nat /\ m.by \in Nat
              /\ paidTo[m.sub] \in Nat /\ paidTo'[m.sub] \in Nat /\ paidTo[m.sub] <= paidTo'[m.sub]
          BY <3>3, <4>1 DEF BillingShape, Mails
        <5>2. /\ m.end <= paidTo[m.sub]
              /\ m.kind # "deleted" => paidTo[m.sub] > 0
              /\ m.kind = "completed" => m.by + Period <= paidTo[m.sub] + Delay
          BY <4>1 DEF MailShape
        <5> QED BY <5>1, <5>2, BillingConstants
      <4>2. ASSUME NEW k \in kinds, m = e(k)
            PROVE  /\ m.end <= paidTo'[m.sub]
                   /\ m.kind # "deleted" => paidTo'[m.sub] > 0
                   /\ m.kind = "completed" => m.by + Period <= paidTo'[m.sub] + Delay
        BY <1>3, <3>2, <3>3, <3>4, <4>2
      <4> QED BY <3>1, <4>1, <4>2
    <3>6. MailShape'
      BY <3>5 DEF MailShape
    <3> QED BY <3>1, <3>2, <3>3, <3>6 DEF BillingShape
  <2> QED BY <2>1, <2>2, <2>3 DEF Subscribe, RenewCard
<1>5. BillingShape'
  BY <1>1, <1>2, <1>4 DEF BillingShape
<1>6. Forward
  BY <1>1, <1>4 DEF Forward, BillingShape
<1>7. HookShape'
  <2> SUFFICES ASSUME NEW h \in Handlers
               PROVE  /\ hook[h].at # "idle" => hook[h].event \in mail'
                      /\ hook[h].at = "find" => hook[h].event.kind # "completed"
                      /\ hook[h].at = "activate" =>
                           /\ paidTo'[HookSub(h)] > 0
                           /\ hook[h].until <= paidTo'[HookSub(h)] + Delay + Grace
    BY <1>1 DEF HookShape, HookSub
  <2>1. ASSUME hook[h].at = "activate"
        PROVE  /\ paidTo'[HookSub(h)] > 0
               /\ hook[h].until <= paidTo'[HookSub(h)] + Delay + Grace
    <3>1. HookSub(h) \in CardSubs /\ hook[h].until \in Nat
      BY <2>1 DEF HookShape, HookSub, BillingShape, Mails
    <3>2. PICK a, b : a = paidTo[HookSub(h)] /\ b = paidTo'[HookSub(h)]
      OBVIOUS
    <3>3. a \in Nat /\ b \in Nat /\ a <= b /\ a > 0 /\ hook[h].until <= a + Delay + Grace
      BY <1>4, <2>1, <3>1, <3>2 DEF HookShape, BillingShape
    <3>4. b > 0 /\ hook[h].until <= b + Delay + Grace
      BY <3>1, <3>3, BillingConstants
    <3> QED BY <3>2, <3>4
  <2> QED BY <1>4, <2>1 DEF HookShape
<1>8. \A c \in CryptoSubs : bill'[c] = "confirmed" => "confirmed" \in written'[c]
  BY <1>1 DEF JobShape
<1> QED BY <1>1, <1>2, <1>4, <1>5, <1>6, <1>7, <1>8, AsideKeeps

LEMMA CreditsGrow ==
  ASSUME BillingShape, BillingShape', NEW m, NEW p,
         Granted(m, p) \subseteq Granted(m, p)', mishaps <= mishaps'
  PROVE  Credits(m, p) <= Credits(m, p)'
<1>1. IsFiniteSet(Granted(m, p)') /\ Cardinality(Granted(m, p)') \in Nat
  BY CreditsAreNaturalNext
<1>2. Cardinality(Granted(m, p)) <= Cardinality(Granted(m, p)') /\ Cardinality(Granted(m, p)) \in Nat
  BY <1>1, FS_Subset, CreditsAreNatural
<1> QED BY <1>1, <1>2 DEF Credits, BillingShape

(* The steps of a round that write no plan.                                *)
LEMMA JobKeeps ==
  ASSUME BillingInv,
         \/ ListPending \/ ReadShop \/ SettleRow \/ CloseRow \/ EndRound \/ RoundFails
         \/ \E s \in CryptoSubs : ReadBill(s) \/ SkipBill(s)
  PROVE  BillingInv'
<1> USE DEF BillingInv
<1>1. /\ UNCHANGED <<now, plan, planEnd, bill, written, paidTo, mail, hook>>
      /\ mishaps' \in Nat /\ mishaps <= mishaps'
  <2>1. UNCHANGED <<now, plan, planEnd, bill, written, paidTo, mail, hook>>
    BY DEF ListPending, ReadShop, SettleRow, CloseRow, EndRound, RoundFails, ReadBill, SkipBill,
           shopVars,
           billVars, stripeVars
  <2>2. mishaps' = mishaps \/ mishaps' = mishaps + 1
    BY DEF ListPending, ReadShop, SettleRow, CloseRow, EndRound, RoundFails, ReadBill, SkipBill
  <2> QED BY <2>1, <2>2 DEF BillingShape
<1>2. job' \in [at : JobPcs, sub : CryptoSubs \cup {"none"}, until : Nat]
  <2>1. CASE ReadShop
    <3>1. \A end \in {CurrentEnd(job.sub), 0} : Later(now, end) + Period \in Nat
      BY <2>1, BillingConstants DEF ReadShop, Later, CurrentEnd, BillingShape, JobShape
    <3>2. PICK end \in {CurrentEnd(job.sub), 0} :
            job' = [job EXCEPT !.at = "grant", !.until = Later(now, end) + Period]
      BY <2>1 DEF ReadShop
    <3>3. PICK u \in Nat : u = Later(now, end) + Period
      BY <3>1
    <3>4. job' = [job EXCEPT !.at = "grant", !.until = u]
      BY <3>2, <3>3
    <3> QED BY <3>4 DEF JobPcs, BillingShape
  <2>2. CASE \E s \in CryptoSubs : ReadBill(s)
    BY <2>2 DEF ReadBill, JobPcs, BillingShape
  <2> QED BY <2>1, <2>2 DEF ListPending, SettleRow, CloseRow, EndRound, RoundFails, SkipBill,
          JobTo, JobPcs, BillingShape
<1>3. todo' \subseteq CryptoSubs /\ row' \in [Subs -> RowStates]
  BY BillingConstants DEF ListPending, ReadShop, SettleRow, CloseRow, EndRound, RoundFails,
     ReadBill, SkipBill, rowVars, RowStates, BillingShape, JobShape
<1>4. BillingShape'
  BY <1>1, <1>2, <1>3 DEF BillingShape
<1>5. Forward
  BY <1>1 DEF Forward, BillingShape
<1>6. MailShape' /\ HookShape'
  BY <1>1 DEF MailShape, HookShape, HookSub
<1>7. ASSUME NEW m, NEW p PROVE Credits(m, p) <= Credits(m, p)'
  <2>1. CASE ~RoundFails
    <3>1. \A s \in CryptoSubs :
            row[s] = "active" \/ (job.at = "settle" /\ job.sub = s) =>
              row'[s] = "active" \/ (job'.at = "settle" /\ job'.sub = s)
      BY <2>1, BillingConstants DEF ListPending, ReadShop, SettleRow, CloseRow, EndRound,
         ReadBill, SkipBill, JobTo, rowVars, BillingShape, JobShape
    <3>2. Granted(m, p) \subseteq Granted(m, p)'
      BY <1>1, <3>1 DEF Granted, ConfirmedOf
    <3> QED BY <1>1, <1>4, <3>2, CreditsGrow
  <2>2. CASE RoundFails
    <3>1. row' = row /\ mishaps' = mishaps + 1 /\ mishaps \in Nat
      BY <2>2 DEF RoundFails, rowVars, BillingShape
    <3>2. Granted(m, p) \ {job.sub} \subseteq Granted(m, p)'
      BY <1>1, <3>1 DEF Granted, ConfirmedOf
    <3>3. IsFiniteSet(Granted(m, p)') /\ Cardinality(Granted(m, p)') \in Nat
      BY <1>4, CreditsAreNaturalNext
    <3>4. IsFiniteSet(Granted(m, p)) /\ Cardinality(Granted(m, p)) \in Nat
      BY CreditsAreNatural
    <3>5. /\ Cardinality(Granted(m, p) \ {job.sub}) \in Nat
          /\ Cardinality(Granted(m, p)) - 1 <= Cardinality(Granted(m, p) \ {job.sub})
      BY <3>4, FS_RemoveElement, FS_Subset, FS_CardinalityType
    <3>6. Cardinality(Granted(m, p) \ {job.sub}) <= Cardinality(Granted(m, p)')
      BY <3>2, <3>3, FS_Subset
    <3> QED BY <3>1, <3>3, <3>4, <3>5, <3>6 DEF Credits
  <2> QED BY <2>1, <2>2
<1>8. \A m \in Shops : PlanPaid(m)'
  BY <1>1, <1>4, <1>5, <1>7, PlanKeeps
<1>9. JobShape'
  <2>1. \A s \in todo' : row'[s] = "pending"
    <3>1. CASE SettleRow \/ CloseRow
      <4>1. /\ todo' = todo /\ job.sub \notin todo
            /\ \E v : row' = [row EXCEPT ![job.sub] = v]
        BY <3>1 DEF SettleRow, CloseRow, JobShape
      <4>2. \A s \in todo : s \in Subs /\ row[s] = "pending"
        BY BillingConstants DEF BillingShape, JobShape
      <4> QED BY <4>1, <4>2 DEF BillingShape
    <3>2. CASE ~(SettleRow \/ CloseRow)
      <4>1. /\ row' = row
            /\ todo' \subseteq todo \/ todo' = {s \in CryptoSubs : row[s] = "pending"}
        BY <3>2 DEF ListPending, ReadShop, EndRound, RoundFails, ReadBill, SkipBill, rowVars
      <4> QED BY <4>1 DEF JobShape
    <3> QED BY <3>1, <3>2
  <2>2. \A s \in CryptoSubs : row'[s] = "active" => "confirmed" \in written'[s]
    BY <1>1, BillingConstants DEF ListPending, ReadShop, SettleRow, CloseRow, EndRound,
       RoundFails, ReadBill, SkipBill, rowVars, BillingShape, JobShape
  <2>6. \A s \in CryptoSubs : bill'[s] = "confirmed" => "confirmed" \in written'[s]
    BY <1>1 DEF JobShape
  <2>3. job'.at \in {"merchant", "grant", "settle", "close"} =>
          job'.sub \in CryptoSubs \ todo' /\ row'[job'.sub] = "pending"
    <3>1. CASE ReadShop
      BY <3>1 DEF ReadShop, rowVars, BillingShape, JobShape
    <3>2. CASE \E s \in CryptoSubs : ReadBill(s)
      BY <3>2 DEF ReadBill, rowVars, BillingShape, JobShape
    <3>3. CASE ~ReadShop /\ ~\E s \in CryptoSubs : ReadBill(s)
      BY <3>3 DEF SkipBill, ListPending, SettleRow, CloseRow, EndRound, RoundFails, JobTo,
         BillingShape
    <3> QED BY <3>1, <3>2, <3>3
  <2>4. job'.at \in {"merchant", "grant", "settle"} => "confirmed" \in written'[job'.sub]
    <3>1. CASE \E s \in CryptoSubs : ReadBill(s)
      BY <1>1, <3>1 DEF ReadBill, BillingShape, JobShape
    <3>2. CASE ~\E s \in CryptoSubs : ReadBill(s)
      BY <1>1, <3>2 DEF ListPending, ReadShop, SettleRow, CloseRow, EndRound, RoundFails,
         SkipBill, JobTo, BillingShape, JobShape
    <3> QED BY <3>1, <3>2
  <2>5. ASSUME job'.at = "grant"
        PROVE  PaidThrough(ShopOf[job.sub], PlanOf[job.sub], job.until,
                           Credits(ShopOf[job.sub], PlanOf[job.sub]) + 1)'
    <3>0. ReadShop
      BY <2>5 DEF ListPending, SettleRow, CloseRow, EndRound, RoundFails, ReadBill, SkipBill,
         JobTo, BillingShape
    <3>1. /\ job.at = "merchant" /\ job'.sub = job.sub
          /\ \E x \in {CurrentEnd(job.sub), 0} : job'.until = Later(now, x) + Period
      <4>1. PICK x \in {CurrentEnd(job.sub), 0} :
              job' = [job EXCEPT !.at = "grant", !.until = Later(now, x) + Period]
        BY <3>0 DEF ReadShop
      <4> QED BY <3>0, <4>1 DEF ReadShop, BillingShape
    <3>2. PICK m, p, end : m = ShopOf[job.sub] /\ p = PlanOf[job.sub] /\ end = planEnd[m]
      OBVIOUS
    <3>3. m \in Shops /\ p # Free /\ end \in Nat /\ now \in Nat
      BY <3>1, <3>2, BillingConstants DEF JobShape, BillingShape
    <3>4. PICK c : c = Credits(m, p)
      OBVIOUS
    <3>5. c \in Nat /\ Period * c \in Nat /\ Period * (c + 1) = Period * c + Period
      BY <3>4, CreditsAreNatural, PeriodTimes
    <3>6. PaidThrough(m, p, job'.until, c + 1)
      <4>1. CASE job'.until = now + Period
        <5>1. now \in PaidUntil(m, p)
          BY DEF PaidUntil
        <5>2. job'.until <= now + Period * (c + 1)
          BY <3>3, <3>5, <4>1, BillingConstants
        <5> QED BY <5>1, <5>2 DEF PaidThrough
      <4>2. CASE job'.until # now + Period
        <5>1. plan[m] = p /\ job'.until = end + Period
          BY <3>1, <3>2, <3>3, <4>2, BillingConstants DEF Later, CurrentEnd
        <5>2. PICK t \in PaidUntil(m, p) : end <= t + Period * c
          BY <3>2, <3>3, <3>4, <5>1 DEF PlanPaid, PaidThrough
        <5>3. t \in Nat
          BY <3>3, BillingConstants DEF PaidUntil, ChargedOf, BillingShape
        <5>4. job'.until <= t + Period * (c + 1)
          <6> DEFINE a == Period * c
                     b == Period * (c + 1)
          <6>1. a \in Nat /\ b = a + Period /\ end <= t + a
            BY <3>5, <5>2
          <6> HIDE DEF a, b
          <6>2. job'.until <= t + b
            BY <3>3, <5>1, <5>3, <6>1, BillingConstants
          <6> QED BY <6>2 DEF b
        <5> QED BY <5>2, <5>4 DEF PaidThrough
      <4> QED BY <4>1, <4>2
    <3>7. /\ Credits(m, p) + 1 \in Nat /\ Credits(m, p)' + 1 \in Nat
          /\ Credits(m, p) + 1 <= Credits(m, p)' + 1
      BY <1>4, <1>7, CreditsAreNatural, CreditsAreNaturalNext
    <3>8. PICK u : u = job'.until /\ u \in Nat /\ u <= u
      BY <1>2
    <3>9. PaidThrough(m, p, u, Credits(m, p) + 1)'
      BY <1>4, <1>5, <3>4, <3>6, <3>7, <3>8, PaidThroughKeeps
    <3> QED BY <3>1, <3>2, <3>8, <3>9
  <2> QED BY <2>1, <2>2, <2>3, <2>4, <2>5, <2>6 DEF JobShape
<1> QED BY <1>4, <1>6, <1>8, <1>9

(* The reconciler activates: the invoice it holds pays for what it writes. *)
LEMMA GrantKeeps == ASSUME BillingInv, Grant PROVE BillingInv'
<1> USE DEF BillingInv
<1>1. /\ UNCHANGED <<now, row, bill, written, paidTo, mail, hook, todo, mishaps>>
      /\ job.at = "grant" /\ job' = [job EXCEPT !.at = "settle"]
      /\ plan' = [plan EXCEPT ![ShopOf[job.sub]] = PlanOf[job.sub]]
      /\ planEnd' = [planEnd EXCEPT ![ShopOf[job.sub]] = job.until]
  BY DEF Grant, Activate, JobTo, rowVars, billVars, stripeVars
<1>2. PICK m, p, s, u :
        m = ShopOf[job.sub] /\ p = PlanOf[job.sub] /\ s = job.sub /\ u = job.until
  OBVIOUS
<1>3. /\ s \in CryptoSubs /\ m \in Shops /\ p \in Plans /\ u \in Nat
      /\ "confirmed" \in written[s] /\ row[s] = "pending"
  BY <1>1, <1>2, BillingConstants DEF JobShape, BillingShape
<1>4. job' \in [at : JobPcs, sub : CryptoSubs \cup {"none"}, until : Nat] /\ job'.at = "settle" /\ job'.sub = s
  BY <1>1, <1>2 DEF BillingShape, JobPcs
<1>5. BillingShape'
  BY <1>1, <1>2, <1>3, <1>4 DEF BillingShape
<1>6. Forward
  BY <1>1 DEF Forward, BillingShape
<1>7. MailShape' /\ HookShape'
  BY <1>1 DEF MailShape, HookShape, HookSub
<1>8. JobShape'
  BY <1>1, <1>2, <1>3, <1>4 DEF JobShape
<1>9. ASSUME NEW k \in Shops, k # m PROVE PlanPaid(k)'
  <2>1. plan'[k] = plan[k] /\ planEnd'[k] = planEnd[k]
    BY <1>1, <1>2, <1>9 DEF BillingShape
  <2>2. PICK q : q = plan[k]
    OBVIOUS
  <2>3. Granted(k, q) \subseteq Granted(k, q)' /\ mishaps <= mishaps'
    BY <1>1 DEF Granted, ConfirmedOf, BillingShape
  <2>4. Credits(k, plan[k]) <= Credits(k, plan[k])'
    <3>1. Credits(k, q) <= Credits(k, q)'
      BY <1>5, <2>3, CreditsGrow
    <3> QED BY <1>1, <2>1, <2>2, <3>1 DEF Credits, Granted, ConfirmedOf
  <2> QED BY <1>5, <1>6, <2>1, <2>4, PlanKeeps
<1>10. PlanPaid(m)'
  <2>1. plan'[m] = p /\ planEnd'[m] = u
    BY <1>1, <1>2, <1>3 DEF BillingShape
  <2>2. Granted(m, p)' = Granted(m, p) \cup {s} /\ s \notin Granted(m, p)
    BY <1>1, <1>2, <1>3, <1>4 DEF Granted, ConfirmedOf
  <2>3. /\ Credits(m, p)' = Credits(m, p) + 1 /\ Credits(m, p) \in Nat /\ Credits(m, p)' \in Nat
    <3>1. IsFiniteSet(Granted(m, p)) /\ Cardinality(Granted(m, p)) \in Nat
          /\ Credits(m, p) \in Nat /\ mishaps \in Nat
      BY CreditsAreNatural DEF BillingShape
    <3>2. Cardinality(Granted(m, p)') = Cardinality(Granted(m, p)) + 1
      BY <2>2, <3>1, FS_AddElement
    <3> QED BY <1>1, <3>1, <3>2 DEF Credits
  <2>4. PaidThrough(m, p, u, Credits(m, p) + 1)
    BY <1>1, <1>2 DEF JobShape
  <2>5. PaidThrough(m, p, u, Credits(m, p))'
    BY <1>3, <1>5, <1>6, <2>3, <2>4, PaidThroughKeeps
  <2>6. s \in ConfirmedOf(m, p)'
    BY <1>1, <1>2, <1>3 DEF ConfirmedOf
  <2> QED BY <2>1, <2>5, <2>6 DEF PlanPaid
<1> QED BY <1>5, <1>7, <1>8, <1>9, <1>10

(* An event: what it grants ends with the period the card was charged for, *)
(* and its delay and grace.                                                *)
LEMMA HookKeeps ==
  ASSUME BillingInv, NEW h \in Handlers, HookStep(h)
  PROVE  BillingInv'
<1> USE DEF BillingInv
<1>1. UNCHANGED <<now, bill, written, paidTo, mail, job, todo, mishaps>>
  BY DEF HookStep, Receive, HookFind, HookActivate, HookRow, HookCancelRow, HookCheck,
     HookDowngrade, HookFails, billVars, stripeVars, jobVars
<1> DEFINE Work == [at : HookPcs, event : mail \cup {"none"}, until : Nat]
<1>2. hook \in [Handlers -> Work] /\ hook[h] \in Work
  BY DEF BillingShape
<1> DEFINE Holds(w) ==
             /\ w \in Work
             /\ w.at # "idle" => w.event \in mail
             /\ w.at = "find" => w.event.kind # "completed"
             /\ w.at = "activate" => /\ paidTo[w.event.sub] > 0
                                     /\ w.until <= paidTo[w.event.sub] + Delay + Grace
<1>3. \A k \in Handlers : Holds(hook[k])
  BY <1>2 DEF HookShape, HookSub
<1>4. \E w : Holds(w) /\ hook' = [hook EXCEPT ![h] = w]
  <2>1. CASE \E e \in mail : Receive(h, e)
    <3>1. PICK e \in mail : Receive(h, e)
      BY <2>1
    <3>2. /\ e \in Mails /\ e.by \in Nat /\ now \in Nat /\ now <= e.by
          /\ paidTo[e.sub] \in Nat
      BY <3>1 DEF Receive, BillingShape, Mails
    <3>3. CASE e.kind = "completed"
      <4> DEFINE w == [at |-> "activate", event |-> e, until |-> now + Period + Grace]
      <4>1. hook' = [hook EXCEPT ![h] = w]
        BY <3>1, <3>3 DEF Receive
      <4>2. paidTo[e.sub] > 0 /\ e.by + Period <= paidTo[e.sub] + Delay
        BY <3>3 DEF MailShape
      <4>3. /\ now + Period + Grace \in Nat
            /\ now + Period + Grace <= paidTo[e.sub] + Delay + Grace
        <5>1. PICK a : a = paidTo[e.sub]
          OBVIOUS
        <5>2. now + Period + Grace \in Nat /\ now + Period + Grace <= a + Delay + Grace
          BY <3>2, <4>2, <5>1, BillingConstants
        <5> QED BY <5>1, <5>2
      <4>4. w \in Work
        BY <4>3 DEF HookPcs
      <4> QED BY <4>1, <4>2, <4>3, <4>4
    <3>4. CASE e.kind # "completed"
      <4> DEFINE w == [at |-> "find", event |-> e, until |-> 0]
      <4>1. hook' = [hook EXCEPT ![h] = w] /\ w \in Work
        BY <3>1, <3>4 DEF Receive, HookPcs
      <4> QED BY <3>4, <4>1
    <3> QED BY <3>3, <3>4
  <2>2. CASE HookDone(h)
    <3>1. Holds(Resting)
      BY DEF Resting, HookPcs
    <3> QED BY <2>2, <3>1 DEF HookDone
  <2>3. ASSUME NEW pc \in {"row", "cancel", "check", "downgrade"}, HookTo(h, pc),
               hook[h].at # "idle"
        PROVE  \E w : Holds(w) /\ hook' = [hook EXCEPT ![h] = w]
    <3> DEFINE w == [hook[h] EXCEPT !.at = pc]
    <3>1. hook' = [hook EXCEPT ![h] = w]
      BY <1>2, <2>3 DEF HookTo
    <3>2. w \in Work /\ w.at = pc /\ w.event = hook[h].event
      BY <1>2 DEF HookPcs
    <3>3. Holds(w)
      BY <1>3, <2>3, <3>2
    <3> QED BY <3>1, <3>3
  <2>4. CASE HookFind(h)
    <3>1. CASE HookDone(h) \/ HookTo(h, "cancel")
      BY <2>2, <2>3, <2>4, <3>1 DEF HookFind
    <3>2. CASE ~(HookDone(h) \/ HookTo(h, "cancel"))
      <4> DEFINE e == hook[h].event
                 w == [hook[h] EXCEPT !.at = "activate", !.until = e.end + Grace]
      <4>1. hook[h].at = "find" /\ e.kind # "deleted" /\ hook' = [hook EXCEPT ![h] = w]
        BY <1>2, <2>4, <3>2 DEF HookFind
      <4>2. e \in mail /\ e \in Mails /\ e.kind # "completed"
        BY <1>3, <4>1 DEF BillingShape
      <4>3. /\ e.end \in Nat /\ paidTo[e.sub] \in Nat /\ paidTo[e.sub] > 0
            /\ e.end <= paidTo[e.sub]
        BY <4>1, <4>2 DEF MailShape, Mails, BillingShape
      <4>4. e.end + Grace \in Nat /\ e.end + Grace <= paidTo[e.sub] + Delay + Grace
        <5>1. PICK a, b : a = paidTo[e.sub] /\ b = e.end
          OBVIOUS
        <5>2. b + Grace \in Nat /\ b + Grace <= a + Delay + Grace
          BY <4>3, <5>1, BillingConstants
        <5> QED BY <5>1, <5>2
      <4>5. /\ w \in Work /\ w.at = "activate" /\ w.event = e /\ w.until = e.end + Grace
        BY <1>2, <4>4 DEF HookPcs
      <4>6. Holds(w)
        BY <4>2, <4>3, <4>4, <4>5
      <4> QED BY <4>1, <4>6
    <3> QED BY <3>1, <3>2
  <2>5. CASE HookActivate(h) \/ HookCancelRow(h) \/ HookCheck(h)
    BY <2>2, <2>3, <2>5 DEF HookActivate, HookCancelRow, HookCheck
  <2> QED BY <2>1, <2>2, <2>4, <2>5 DEF HookStep, HookRow, HookDowngrade, HookFails
<1>5. PICK w : Holds(w) /\ hook' = [hook EXCEPT ![h] = w]
  BY <1>4
<1>6. hook' \in [Handlers -> Work] /\ \A k \in Handlers : Holds(hook'[k])
  BY <1>2, <1>3, <1>5
<1>7. HookShape'
  BY <1>1, <1>6 DEF HookShape, HookSub
<1>8. MailShape'
  BY <1>1 DEF MailShape
<1>9. HookSub(h) \in CardSubs \/ \E e \in mail : Receive(h, e)
  BY <1>3 DEF HookStep, HookFind, HookActivate, HookRow, HookCancelRow, HookCheck,
     HookDowngrade, HookFails, HookSub, BillingShape, Mails
<1>10. row' \in [Subs -> RowStates] /\ \A s \in CryptoSubs : row'[s] = row[s]
  BY <1>9, BillingConstants DEF HookStep, Receive, HookFind, HookActivate, HookRow,
     HookCancelRow, HookCheck, HookDowngrade, HookFails, rowVars, RowStates, BillingShape
<1>11. plan' \in [Shops -> Plans \cup {Free}] /\ planEnd' \in [Shops -> Nat]
  <2>1. CASE HookActivate(h)
    BY <1>2, <1>9, <2>1, BillingConstants DEF HookActivate, Activate, Receive, BillingShape
  <2>2. CASE HookDowngrade(h)
    BY <2>2 DEF HookDowngrade, BillingShape
  <2> QED BY <2>1, <2>2 DEF HookStep, Receive, HookFind, HookRow, HookCancelRow, HookCheck,
          HookFails, shopVars, BillingShape
<1>12. BillingShape'
  BY <1>1, <1>6, <1>10, <1>11 DEF BillingShape
<1>13. Forward
  BY <1>1 DEF Forward, BillingShape
<1>14. /\ JobShape'
       /\ \A m \in Shops : plan'[m] = plan[m] /\ planEnd'[m] = planEnd[m] => PlanPaid(m)'
  <2>1. \A c \in CryptoSubs : bill'[c] = "confirmed" => "confirmed" \in written'[c]
    BY <1>1 DEF JobShape
  <2> QED BY <1>1, <1>10, <1>12, <1>13, <2>1, AsideKeeps
<1>15. ASSUME NEW m \in Shops, ~(plan'[m] = plan[m] /\ planEnd'[m] = planEnd[m])
       PROVE  PlanPaid(m)'
  <2>1. CASE HookActivate(h)
    <3>1. PICK s, u : s = HookSub(h) /\ u = hook[h].until
      OBVIOUS
    <3>2. /\ s \in CardSubs /\ paidTo[s] \in Nat /\ paidTo[s] > 0 /\ u \in Nat
          /\ u <= paidTo[s] + Delay + Grace
      BY <1>2, <1>3, <2>1, <3>1 DEF HookActivate, HookSub, BillingShape, Mails
    <3>3. m = ShopOf[s] /\ plan'[m] = PlanOf[s] /\ planEnd'[m] = u
      BY <1>15, <2>1, <3>1 DEF HookActivate, Activate, BillingShape
    <3>4. s \in ChargedOf(m, PlanOf[s])'
      BY <1>1, <3>2, <3>3 DEF ChargedOf
    <3>5. PaidThrough(m, PlanOf[s], u, Credits(m, PlanOf[s]))'
      <4>1. PICK c : c = Credits(m, PlanOf[s])'
        OBVIOUS
      <4>2. c \in Nat /\ Period * c \in Nat
        BY <1>12, <4>1, CreditsAreNaturalNext, PeriodTimes
      <4>3. paidTo[s] + Delay + Grace \in PaidUntil(m, PlanOf[s])'
        BY <1>1, <3>4 DEF PaidUntil
      <4>4. u <= paidTo[s] + Delay + Grace + Period * c
        <5> DEFINE a == Period * c
        <5>1. a \in Nat
          BY <4>2
        <5> HIDE DEF a
        <5>2. u <= paidTo[s] + Delay + Grace + a
          BY <3>2, <5>1, BillingConstants
        <5> QED BY <5>2 DEF a
      <4> QED BY <4>1, <4>3, <4>4 DEF PaidThrough
    <3> QED BY <3>3, <3>4, <3>5 DEF PlanPaid
  <2>2. CASE HookDowngrade(h)
    BY <1>15, <2>2 DEF HookDowngrade, BillingShape, PlanPaid
  <2> QED BY <1>15, <2>1, <2>2 DEF HookStep, Receive, HookFind, HookRow, HookCancelRow,
          HookCheck, HookFails, shopVars
<1> QED BY <1>7, <1>8, <1>12, <1>14, <1>15

LEMMA BillingInvNext == BillingInv /\ [BillingNext]_billingVars => BillingInv'
<1> SUFFICES ASSUME BillingInv, [BillingNext]_billingVars PROVE BillingInv'
  OBVIOUS
<1>1. CASE JobStep \/ RoundFails
  BY <1>1, JobKeeps, GrantKeeps DEF JobStep
<1>2. CASE UNCHANGED billingVars
  BY <1>2 DEF billingVars, shopVars, rowVars, billVars, stripeVars, jobVars, BillingInv,
     BillingShape, JobShape, MailShape, HookShape, HookSub, PlanPaid, PaidThrough, PaidUntil,
     ChargedOf, Credits, Granted, ConfirmedOf
<1> QED BY <1>1, <1>2, BillKeeps, JobKeeps, CardKeeps, HookKeeps DEF BillingNext

(* PlanIsPaidFor: a merchant has a plan for no longer than was paid for,   *)
(* but for what a round that failed grants again (billing.ts).             *)
THEOREM NoMoreThanPaidFor == BillingSpec => []PlanIsPaidFor
<1>1. BillingInv => PlanIsPaidFor
  <2> SUFFICES ASSUME BillingInv, NEW m \in Shops, plan[m] # Free
               PROVE  /\ ConfirmedOf(m, plan[m]) \cup ChargedOf(m, plan[m]) # {}
                      /\ \E t \in PaidUntil(m, plan[m]) : planEnd[m] <=
                           t + Period * (Cardinality(ConfirmedOf(m, plan[m])) + mishaps)
    BY DEF PlanIsPaidFor
  <2> USE DEF BillingInv
  <2>1. PICK p, n, k : p = plan[m] /\ n = Credits(m, p) /\ k = Cardinality(ConfirmedOf(m, p)) + mishaps
    OBVIOUS
  <2>2. n \in Nat /\ k \in Nat /\ n <= k
    BY <2>1, CreditsAreNatural DEF Credits, BillingShape
  <2>3. PICK t \in PaidUntil(m, p) : planEnd[m] <= t + Period * n
    BY <2>1 DEF PlanPaid, PaidThrough
  <2>4. t \in Nat /\ planEnd[m] \in Nat
    BY BillingConstants DEF PaidUntil, ChargedOf, BillingShape
  <2>5. planEnd[m] <= t + Period * k
    <3> DEFINE a == Period * n
               b == Period * k
    <3>1. a \in Nat /\ b \in Nat /\ a <= b /\ planEnd[m] <= t + a
      BY <2>2, <2>3, PeriodTimes
    <3> HIDE DEF a, b
    <3>2. planEnd[m] <= t + b
      BY <2>4, <3>1
    <3> QED BY <3>2 DEF b
  <2> QED BY <2>1, <2>3, <2>5 DEF PlanPaid
<1> QED BY <1>1, BillingInvInit, BillingInvNext, PTL DEF BillingSpec

-----------------------------------------------------------------------------
(* Sign-up.  The rows of a merchant are a first part of what he asked for, *)
(* in the order of the inserts, and who was shown a key has its row.       *)
RowsInOrder(r) ==
  \A i, j \in DOMAIN Inserts :
    j < i /\ Inserts[i] \in rows[r] /\ Inserts[j] \in Asked(r) => Inserts[j] \in rows[r]

(* Who is past the lookup found no one of his email, or lost its answer.   *)
FoundNobody(r) ==
  (step[r] = "merchant" \/ r \in Signed) /\ r \notin misread => before[r] = {}

AccountInv ==
  /\ step \in [Signups -> {"find", "taken", "merchant", "done", "failed"}]
  /\ rows \in [Signups -> SUBSET {"merchant", "btc", "base", "webhook", "key"}]
  /\ before \in [Signups -> SUBSET Signups]
  /\ shown \subseteq Signups
  /\ \A r \in Signups :
       /\ RowsInOrder(r)
       /\ FoundNobody(r)
       /\ r \in shown => "key" \in rows[r]
       /\ step[r] = "find" => rows[r] = {}

LEMMA LeastNatural ==
  ASSUME NEW S \in SUBSET Nat, S # {}
  PROVE  \E n \in S : \A m \in S : n <= m
<1> DEFINE R == OpToRel(<, Nat)
<1>1. IsWellFoundedOn(R, Nat)
  BY NatLessThanWellFounded
<1> HIDE DEF R
<1>2. PICK n \in S : \A m \in S : <<m, n>> \notin R
  BY <1>1, WFMin
<1>3. \A m \in S : m < n => <<m, n>> \in R
  BY DEF R, OpToRel
<1>4. \A m \in S : ~(m < n)
  BY <1>2, <1>3
<1> QED BY <1>4

LEMMA MinIsLeast ==
  ASSUME NEW S \in SUBSET Nat, S # {}
  PROVE  Min(S) \in S /\ \A m \in S : Min(S) <= m
  BY LeastNatural DEF Min

LEMMA InsertNames ==
  /\ DOMAIN Inserts = 1 .. 5 /\ DOMAIN Inserts \in SUBSET Nat
  /\ Inserts[1] = "merchant" /\ Inserts[2] = "btc" /\ Inserts[3] = "base"
  /\ Inserts[4] = "webhook" /\ Inserts[5] = "key"
  BY DEF Inserts

LEMMA AccountInvInit == ASSUME AccountInit PROVE AccountInv
<1>1. \A r \in Signups : r \notin Signed
  BY DEF AccountInit, Signed
<1> QED BY <1>1 DEF AccountInit, AccountInv, RowsInOrder, FoundNobody

(* The next insert is one asked for and not made, and those before it are. *)
LEMMA NextInsertFacts ==
  ASSUME NEW r \in Signups, Missing(r) # {}
  PROVE  /\ Min(Missing(r)) \in DOMAIN Inserts
         /\ NextInsert(r) = Inserts[Min(Missing(r))]
         /\ Inserts[Min(Missing(r))] \in Asked(r) \ rows[r]
         /\ \A j \in DOMAIN Inserts :
              j < Min(Missing(r)) /\ Inserts[j] \in Asked(r) => Inserts[j] \in rows[r]
<1>1. Missing(r) \in SUBSET Nat /\ Missing(r) \subseteq DOMAIN Inserts
  BY InsertNames DEF Missing
<1>2. Min(Missing(r)) \in Missing(r) /\ \A m \in Missing(r) : Min(Missing(r)) <= m
  BY <1>1, MinIsLeast
<1>3. ASSUME NEW j \in DOMAIN Inserts, j < Min(Missing(r)), Inserts[j] \in Asked(r),
             Inserts[j] \notin rows[r]
      PROVE  FALSE
  <2>1. j \in Missing(r)
    BY <1>3 DEF Missing
  <2>2. Min(Missing(r)) <= j /\ Min(Missing(r)) \in Nat /\ j \in Nat
    BY <1>1, <1>2, <2>1
  <2> QED BY <1>3, <2>2
<1> QED BY <1>1, <1>2, <1>3 DEF Missing, NextInsert

LEMMA InsertsDiffer ==
  ASSUME NEW i \in DOMAIN Inserts, NEW j \in DOMAIN Inserts, Inserts[i] = Inserts[j]
  PROVE  i = j
<1>1. i \in 1 .. 5 /\ j \in 1 .. 5
  BY InsertNames
<1>2. i \in {1, 2, 3, 4, 5} /\ j \in {1, 2, 3, 4, 5}
  BY <1>1
<1> QED BY <1>2, InsertNames

LEMMA AccountInvNext == ASSUME AccountInv, [AccountNext]_accountVars PROVE AccountInv'
<1> USE DEF AccountInv
<1>1. CASE UNCHANGED accountVars
  BY <1>1 DEF accountVars, RowsInOrder, FoundNobody, Asked, Signed
<1>2. ASSUME NEW r \in Signups, FindEmail(r) PROVE AccountInv'
  <2>1. Signed' = Signed /\ Signed \subseteq Signups
    BY <1>2 DEF FindEmail, Signed
  <2>2. ASSUME NEW q \in Signups PROVE FoundNobody(q)'
    <3>1. CASE q = r
      <4>1. r \notin Signed
        BY <1>2 DEF FindEmail, Signed
      <4>2. step'[r] = "merchant" => before'[r] = {}
        BY <1>2 DEF FindEmail
      <4> QED BY <2>1, <3>1, <4>1, <4>2 DEF FoundNobody
    <3>2. CASE q # r
      BY <1>2, <2>1, <3>2 DEF FindEmail, FoundNobody
    <3> QED BY <3>1, <3>2
  <2>3. \A q \in Signups : RowsInOrder(q)'
    BY <1>2 DEF FindEmail, RowsInOrder, Asked
  <2> QED BY <1>2, <2>1, <2>2, <2>3 DEF FindEmail, Holders
<1>6. ASSUME NEW r \in Signups, MisreadEmail(r) PROVE AccountInv'
  <2>1. Signed' = Signed /\ Signed \subseteq Signups
    BY <1>6 DEF MisreadEmail, Signed
  <2>2. ASSUME NEW q \in Signups PROVE FoundNobody(q)' /\ RowsInOrder(q)'
    BY <1>6, <2>1 DEF MisreadEmail, FoundNobody, RowsInOrder, Asked
  <2> QED BY <1>6, <2>1, <2>2 DEF MisreadEmail, Holders
<1>3. ASSUME NEW r \in Signups, Insert(r) \/ (SignupFails(r) /\ Stores(r)) PROVE AccountInv'
  <2> DEFINE i == Min(Missing(r))
             x == Inserts[i]
  <2>1. /\ i \in DOMAIN Inserts /\ x \in Asked(r) \ rows[r]
        /\ \A j \in DOMAIN Inserts : j < i /\ Inserts[j] \in Asked(r) => Inserts[j] \in rows[r]
    BY <1>3, NextInsertFacts DEF Insert, Stores
  <2>2. /\ rows' = [rows EXCEPT ![r] = @ \cup {x}]
        /\ shown' = shown \/ (x = "key" /\ shown' = shown \cup {r})
        /\ step' \in {step, [step EXCEPT ![r] = "done"], [step EXCEPT ![r] = "failed"]}
        /\ before' = before /\ misread' = misread /\ step[r] = "merchant"
    BY <1>3, NextInsertFacts DEF Insert, SignupFails, Stores
  <2> HIDE DEF i
  <2>3. x \in {"merchant", "btc", "base", "webhook", "key"}
    BY <2>1, SignUpAssumption DEF Asked
  <2>4. ASSUME NEW q \in Signups PROVE RowsInOrder(q)'
    <3>1. CASE q # r
      BY <2>2, <3>1 DEF RowsInOrder, Asked
    <3>2. CASE q = r
      <4>1. ASSUME NEW a \in DOMAIN Inserts, NEW b \in DOMAIN Inserts, b < a,
                   Inserts[a] \in rows'[r], Inserts[b] \in Asked(r)
            PROVE  Inserts[b] \in rows'[r]
        <5>1. rows'[r] = rows[r] \cup {x}
          BY <2>2
        <5>2. CASE Inserts[a] \in rows[r]
          BY <4>1, <5>1, <5>2 DEF RowsInOrder
        <5>3. CASE Inserts[a] = x
          <6>1. a = i
            BY <2>1, <5>3, InsertsDiffer
          <6> QED BY <2>1, <4>1, <5>1, <6>1
        <5> QED BY <4>1, <5>1, <5>2, <5>3
      <4> QED BY <3>2, <4>1 DEF RowsInOrder, Asked
    <3> QED BY <3>1, <3>2
  <2>5. ASSUME NEW q \in Signups PROVE FoundNobody(q)'
    BY <2>2 DEF FoundNobody, Signed
  <2> QED BY <2>2, <2>3, <2>4, <2>5
<1>4. ASSUME NEW r \in Signups, SignupFails(r), UNCHANGED rows PROVE AccountInv'
  BY <1>4 DEF SignupFails, RowsInOrder, FoundNobody, Asked, Signed
<1>5. ASSUME NEW w \in Setters, GetWebhook(w) \/ PutWebhook(w) \/ SetWebhookFails(w)
      PROVE  AccountInv'
  BY <1>5 DEF GetWebhook, PutWebhook, SetWebhookFails, RowsInOrder, FoundNobody, Asked, Signed
<1>7. ASSUME NEW r \in Signups, SignupFails(r) PROVE Stores(r) \/ UNCHANGED rows
  BY <1>7 DEF SignupFails
<1> QED BY <1>1, <1>2, <1>3, <1>4, <1>5, <1>6, <1>7 DEF AccountNext

(* KeyOpensWholeAccount: whoever was shown a key has an account as he      *)
(* asked for it, and the only one of its email but for sign-ups that       *)
(* overlap and those that read a lost body as nobody, whichever insert     *)
(* fails (accounts.ts, supabase-db.ts).                                    *)
THEOREM AccountIsWhole == AccountSpec => []KeyOpensWholeAccount
<1>1. AccountInv => KeyOpensWholeAccount
  <2> SUFFICES ASSUME AccountInv, NEW r \in shown
               PROVE  /\ Asked(r) \subseteq rows[r]
                      /\ \A q \in Signed \ {r} : EmailOf[q] = EmailOf[r] =>
                           /\ r \in before[q] => q \in misread
                           /\ q \in before[r] => r \in misread
    BY DEF KeyOpensWholeAccount
  <2>1. r \in Signups /\ Inserts[5] \in rows[r] /\ 5 \in DOMAIN Inserts
    BY InsertNames DEF AccountInv
  <2>2. ASSUME NEW j \in {1, 2, 3, 4}, Inserts[j] \in Asked(r) PROVE Inserts[j] \in rows[r]
    <3>1. j < 5 /\ j \in DOMAIN Inserts
      BY InsertNames
    <3> QED BY <2>1, <2>2, <3>1 DEF AccountInv, RowsInOrder
  <2>3. Asked(r) \subseteq rows[r]
    BY <2>1, <2>2, InsertNames, SignUpAssumption DEF Asked
  <2>4. r \in Signed /\ Signed \subseteq Signups
    BY <2>1, <2>3 DEF Signed, Asked
  <2> QED BY <2>3, <2>4 DEF AccountInv, FoundNobody
<1> QED BY <1>1, AccountInvInit, AccountInvNext, PTL DEF AccountSpec

-----------------------------------------------------------------------------
(* The Base watcher.  An invoice that is still to be checked, or that the  *)
(* poll has found covered, is not confirmed yet; and an address that only  *)
(* one invoice has holds nothing until that one is paid.                   *)
BaseShape ==
  /\ BaseTypeOK
  /\ \A i \in listed : billed[i] = "pending"
  /\ polling \in {"store", "emit"} => checked \notin listed
  /\ polling = "store" =>
       billed[checked] = "pending" /\ (Alone(checked) => checked \in paid)
  /\ polling = "emit" => billed[checked] = "confirmed" /\ told[checked] = 0

EmptyUntilPaid == \A i \in Bills \ paid : Alone(i) => balance[AddressOf[i]] = 0

BaseInv == BaseShape /\ EmptyUntilPaid /\ AnnouncedOnceAndPaid

LEMMA BaseInvInit == BaseInit => BaseInv
  BY BaseAssumption
     DEF BaseInit, BaseInv, BaseShape, BaseTypeOK, EmptyUntilPaid, AnnouncedOnceAndPaid

LEMMA PayKeeps == ASSUME BaseInv, NEW i \in Bills, PayBill(i) PROVE BaseInv'
<1> USE BaseAssumption DEF BaseInv
<1>1. BaseShape'
  BY DEF PayBill, BaseShape, BaseTypeOK, Alone
<1>2. ASSUME NEW j \in Bills \ paid', Alone(j) PROVE balance'[AddressOf[j]] = 0
  <2>1. j # i /\ j \in Bills \ paid
    BY <1>2 DEF PayBill
  <2>2. AddressOf[i] # AddressOf[j]
    BY <1>2, <2>1 DEF Alone
  <2> QED BY <1>2, <2>1, <2>2 DEF PayBill, EmptyUntilPaid, BaseShape, BaseTypeOK
<1>3. AnnouncedOnceAndPaid'
  BY DEF PayBill, AnnouncedOnceAndPaid, Alone
<1> QED BY <1>1, <1>2, <1>3 DEF EmptyUntilPaid, Alone

(* What covers the amount of an invoice alone on its address is its own    *)
(* payment.                                                                *)
LEMMA CoveredIsPaid ==
  ASSUME BaseInv, NEW i \in Bills, Covered(i), Alone(i)
  PROVE  i \in paid
<1>1. balance[AddressOf[i]] \in Nat /\ Price[i] \in Nat \ {0}
  BY BaseAssumption DEF BaseInv, BaseShape, BaseTypeOK
<1> QED BY <1>1 DEF Covered, BaseInv, EmptyUntilPaid

LEMMA WritesKeep == ASSUME BaseInv, StoreBill \/ EmitBill \/ WriteFails PROVE BaseInv'
<1> USE BaseAssumption
    DEF BaseInv, BaseShape, BaseTypeOK, EmptyUntilPaid, AnnouncedOnceAndPaid, Alone, worldVars,
        Stored, Emitted
<1>1. CASE StoreBill
  BY <1>1 DEF StoreBill
<1>2. CASE EmitBill
  BY <1>2 DEF EmitBill
<1>3. CASE WriteFails
  BY <1>3 DEF WriteFails
<1> QED BY <1>1, <1>2, <1>3

LEMMA BaseInvNext == BaseInv /\ [BaseNext]_baseVars => BaseInv'
<1> SUFFICES ASSUME BaseInv, [BaseNext]_baseVars PROVE BaseInv'
  OBVIOUS
<1> USE BaseAssumption
<1>0. ASSUME NEW i \in Bills, IssueBill(i) PROVE BaseInv'
  <2>1. /\ billed[i] = "new" /\ billed' = [billed EXCEPT ![i] = "pending"]
        /\ UNCHANGED <<worldVars, polling, listed, checked, told, deaths>>
        /\ BaseTypeOK
    BY <1>0 DEF IssueBill, BaseInv, BaseShape
  <2>2. \A j \in Bills \ {i} : billed'[j] = billed[j]
    BY <2>1 DEF BaseTypeOK
  <2>3. (billed'[i] = "pending" /\ i # checked) \/ polling \notin {"store", "emit"}
    BY <2>1 DEF BaseInv, BaseShape, BaseTypeOK
  <2>4. BaseTypeOK'
    BY <2>1 DEF BaseTypeOK, worldVars
  <2>5. BaseShape'
    BY <2>1, <2>2, <2>3, <2>4 DEF BaseInv, BaseShape, BaseTypeOK, Alone, worldVars
  <2>6. EmptyUntilPaid'
    BY <2>1 DEF BaseInv, EmptyUntilPaid, Alone, worldVars
  <2>7. AnnouncedOnceAndPaid'
    BY <2>1, <2>2 DEF BaseInv, AnnouncedOnceAndPaid, BaseTypeOK, Alone, worldVars
  <2> QED BY <2>5, <2>6, <2>7 DEF BaseInv
<1>1. ASSUME NEW i \in Bills, BecomeLate(i) \/ CheckFails(i) \/ FindUnpaid(i)
      PROVE  BaseInv'
  <2>1. CASE BecomeLate(i)
    BY <2>1 DEF BecomeLate, BaseInv, BaseShape, BaseTypeOK, EmptyUntilPaid,
       AnnouncedOnceAndPaid, Alone
  <2>2. CASE CheckFails(i) \/ FindUnpaid(i)
    BY <2>2 DEF CheckFails, FindUnpaid, IsNext, BaseInv, BaseShape, BaseTypeOK, EmptyUntilPaid,
       AnnouncedOnceAndPaid, Alone, worldVars
  <2> QED BY <1>1, <2>1, <2>2
<1>2. ASSUME NEW i \in Bills, FindCovered(i) PROVE BaseInv'
  <2>1. billed[i] = "pending" /\ (Alone(i) => i \in paid)
    BY <1>2, CoveredIsPaid DEF FindCovered, IsNext, BaseInv, BaseShape
  <2> QED BY <1>2, <2>1 DEF FindCovered, BaseInv, BaseShape, BaseTypeOK, EmptyUntilPaid,
     AnnouncedOnceAndPaid, Alone, worldVars
<1>3. ASSUME NEW a \in Addresses, Withdraw(a) PROVE BaseInv'
  BY <1>3 DEF Withdraw, BaseInv, BaseShape, BaseTypeOK, EmptyUntilPaid, AnnouncedOnceAndPaid,
     Alone
<1>4. ASSUME StartPoll \/ EndPoll \/ Die \/ UNCHANGED baseVars PROVE BaseInv'
  <2>1. /\ UNCHANGED <<billed, paid, balance, told, checked>>
        /\ late' = late /\ withdrawals' = withdrawals /\ deaths' \in Nat
    BY <1>4 DEF StartPoll, EndPoll, Die, baseVars, worldVars, BaseInv, BaseShape, BaseTypeOK
  <2>2. /\ listed' \subseteq listed \cup {i \in Bills : billed[i] = "pending"}
        /\ polling' \in {"idle", "next"} \/ (polling' = polling /\ listed' = listed)
    BY <1>4 DEF StartPoll, EndPoll, Die, baseVars, worldVars
  <2>3. BaseShape'
    BY <2>1, <2>2 DEF BaseInv, BaseShape, BaseTypeOK, Alone
  <2>4. EmptyUntilPaid' /\ AnnouncedOnceAndPaid'
    BY <2>1 DEF BaseInv, EmptyUntilPaid, AnnouncedOnceAndPaid, Alone
  <2> QED BY <2>3, <2>4 DEF BaseInv
<1> QED BY <1>0, <1>1, <1>2, <1>3, <1>4, PayKeeps, WritesKeep DEF BaseNext, CheckBill, PollStep

(* AnnouncedOnceAndPaid: the watcher announces a confirmation once, and    *)
(* confirms an invoice with an address of its own only for its payment.    *)
THEOREM OwnAddressWasPaid == BaseSpec => []AnnouncedOnceAndPaid
<1>1. BaseSpec => []BaseInv
  BY BaseInvInit, BaseInvNext, PTL DEF BaseSpec
<1> QED BY <1>1, PTL DEF BaseInv

-----------------------------------------------------------------------------
(* The delivery loop of the cloud.  deliverOne lists what was due at the   *)
(* epoch, and no event was: it never holds one.                            *)
NothingInHand ==
  /\ second \in Nat \ {0}
  /\ nextAttempt \in [Events -> Nat]
  /\ due \subseteq Events
  /\ inHand = None /\ sent = {}

LEMMA NothingDueAtEpoch ==
  ASSUME NothingInHand
  PROVE  Dispatch!DueAt(Dispatch!Epoch) = {}
  BY DEF NothingInHand, Dispatch!DueAt, Dispatch!Recorded, Dispatch!Epoch

LEMMA NothingInHandNext ==
  ASSUME None \notin Events, WithWebhook \subseteq Events,
         NothingInHand, [Dispatch!Next]_(Dispatch!vars)
  PROVE  NothingInHand'
<1>1. CASE Dispatch!TimePasses
  BY <1>1 DEF Dispatch!TimePasses, NothingInHand
<1>2. ASSUME NEW e \in Events, Dispatch!Record(e) PROVE NothingInHand'
  BY <1>2 DEF Dispatch!Record, NothingInHand
<1>3. CASE Dispatch!Tick
  BY <1>3 DEF Dispatch!Tick, NothingInHand
<1>4. ASSUME NEW e \in due, Dispatch!FindEvent(e) PROVE NothingInHand'
  <2>1. PICK S \in SUBSET Events :
          /\ S \subseteq Dispatch!DueAt(Dispatch!Epoch)
          /\ inHand' = IF e \in S /\ attempts[e] < Dispatch!MAX_ATTEMPTS THEN e ELSE None
    BY <1>4 DEF Dispatch!FindEvent, Dispatch!IsListing
  <2>2. inHand' = None
    BY <2>1, NothingDueAtEpoch
  <2> QED BY <1>4, <2>2 DEF Dispatch!FindEvent, NothingInHand
<1>5. CASE Dispatch!Retire \/ Dispatch!UrlRejected \/ Dispatch!Post
  BY <1>5 DEF Dispatch!Retire, Dispatch!UrlRejected, Dispatch!Post, NothingInHand
<1>6. CASE UNCHANGED Dispatch!vars
  BY <1>6 DEF Dispatch!vars, NothingInHand
<1> QED BY <1>1, <1>2, <1>3, <1>4, <1>5, <1>6 DEF Dispatch!Next, Dispatch!Loop

(* Why EveryEventIsSent is false, for any events, webhooks, batch and      *)
(* curve: deliverOne (webhook-fleet.ts) looks its event up among those     *)
(* that were due at new Date(0), finds none, and so sends nothing, ever.   *)
THEOREM NothingIsEverSent ==
  ASSUME None \notin Events, WithWebhook \subseteq Events
  PROVE  Dispatch!Spec => [](sent = {})
<1>1. Dispatch!Init => NothingInHand
  BY DEF Dispatch!Init, Dispatch!Epoch, NothingInHand
<1>2. NothingInHand /\ [Dispatch!Next]_(Dispatch!vars) => NothingInHand'
  BY NothingInHandNext
<1>3. NothingInHand => sent = {}
  BY DEF NothingInHand
<1> QED BY <1>1, <1>2, <1>3, PTL DEF Dispatch!Spec
=============================================================================
