----------------------------- MODULE RateLimiter -----------------------------
(***************************************************************************)
(* SlidingWindowRateLimiter (listener/src/rate-limit.ts), which bounds     *)
(* POST /invoice per address and in all.  Each decision is synchronous.    *)
(* The cloud's CloudRateLimiter (cloud/src/auth.ts) is the same with the   *)
(* ring of the key alone: no global ceiling is ever reached.               *)
(*                                                                         *)
(* A ring, an array of times in the order they were pushed, is the set of  *)
(* its hits, which are numbered.  The clock does not go back, so the hits  *)
(* that prune drops from the front are those that are too old.             *)
(***************************************************************************)
EXTENDS Integers, FiniteSets

CONSTANTS Ips,          \* the callers, by address
          PerIp, Global, WindowMs, Second,
          Steps,        \* by how much the clock may advance
          MaxClock      \* bound: the time a behaviour lasts

ASSUME LimiterAssumption ==
  /\ PerIp \in Nat \ {0} /\ Global \in Nat \ {0}
  /\ WindowMs \in Nat \ {0} /\ Second \in Nat \ {0}
  /\ Steps \subseteq Nat

VARIABLES clock,        \* this.now()
          perIp,        \* perIp[c], empty where the map has no bucket
          global,       \* global
          allowed,      \* history: the hits let through
          answer        \* the last decision

limiterVars == <<clock, perIp, global, allowed, answer>>

LimiterInit ==
  /\ clock = 0
  /\ perIp = [c \in Ips |-> {}]
  /\ global = {}
  /\ allowed = {}
  /\ answer \in [to : Ips, ok : {TRUE}, wait : {0}]

Advance(d) ==
  /\ clock + d <= MaxClock
  /\ clock' = clock + d
  /\ UNCHANGED <<perIp, global, allowed, answer>>

(* Mutant: a hit at the cutoff is kept.                                    *)
pruneLate(ring, cutoff) == {h \in ring : h.at >= cutoff}

prune(ring, cutoff) == {h \in ring : h.at > cutoff}

Oldest(ring) == CHOOSE h \in ring : \A g \in ring : h.n <= g.n

retryAfter(ring, t) ==
  LET ms == Oldest(ring).at + WindowMs - t
      seconds == (ms + Second - 1) \div Second
  IN IF seconds > 1 THEN seconds ELSE 1

Rejected(c, ring) == [to |-> c, ok |-> FALSE, wait |-> retryAfter(ring, clock)]

globalRecent == prune(global, clock - WindowMs)
Bucket(c) == prune(perIp[c], clock - WindowMs)

RejectGlobally(c) ==
  /\ Cardinality(globalRecent) >= Global
  /\ global' = globalRecent
  /\ answer' = Rejected(c, globalRecent)
  /\ UNCHANGED <<clock, perIp, allowed>>

RejectIp(c) ==
  /\ Cardinality(globalRecent) < Global
  /\ Cardinality(Bucket(c)) >= PerIp
  /\ global' = globalRecent
  /\ perIp' = [perIp EXCEPT ![c] = Bucket(c)]
  /\ answer' = Rejected(c, Bucket(c))
  /\ UNCHANGED <<clock, allowed>>

AllowHit(c) ==
  /\ Cardinality(globalRecent) < Global
  /\ Cardinality(Bucket(c)) < PerIp
  /\ LET h == [n |-> Cardinality(allowed), by |-> c, at |-> clock] IN
       /\ allowed' = allowed \cup {h}
       /\ global' = globalRecent \cup {h}
       /\ perIp' = [perIp EXCEPT ![c] = Bucket(c) \cup {h}]
  /\ answer' = [to |-> c, ok |-> TRUE, wait |-> 0]
  /\ UNCHANGED clock

LimiterNext ==
  \/ \E d \in Steps : Advance(d)
  \/ \E c \in Ips : RejectGlobally(c) \/ RejectIp(c) \/ AllowHit(c)

LimiterSpec == LimiterInit /\ [][LimiterNext]_limiterVars

-----------------------------------------------------------------------------
Hits == [n : Nat, by : Ips, at : Nat]

LimiterTypeOK ==
  /\ clock \in Nat
  /\ perIp \in [Ips -> SUBSET Hits]
  /\ global \in SUBSET Hits /\ allowed \in SUBSET Hits
  /\ answer \in [to : Ips, ok : BOOLEAN, wait : Nat]

(* The rings, although pruned and never holding a rejected hit, decide as  *)
(* if every hit let through had been kept, in any order of bursts and      *)
(* pauses; and Retry-After is neither 0 nor too short.                     *)
Window == INSTANCE SlidingWindow
ImplementsSlidingWindow == Window!SlidingSpec
=============================================================================
