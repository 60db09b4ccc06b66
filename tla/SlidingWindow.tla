---------------------------- MODULE SlidingWindow ----------------------------
(***************************************************************************)
(* What a sliding-window limiter promises (the header of                   *)
(* listener/src/rate-limit.ts): a hit is let through exactly when fewer    *)
(* than the ceilings were let through in the window that ends with it, and *)
(* whoever is turned away is told how long to wait.  It keeps every hit it *)
(* ever let through.                                                       *)
(***************************************************************************)
EXTENDS Integers, FiniteSets

CONSTANTS PerIp,      \* perIpPerWindow
          Global,     \* globalPerWindow
          WindowMs,   \* windowMs
          Second      \* 1000 ms

VARIABLES clock,      \* Date.now()
          allowed,    \* the hits let through so far: [n, by, at]
          answer      \* the last decision: [to, ok, wait]

windowVars == <<clock, allowed, answer>>

Recent(t) == {h \in allowed : h.at > t - WindowMs}
RecentOf(c, t) == {h \in Recent(t) : h.by = c}

Admits(c) == /\ Cardinality(Recent(clock)) < Global
             /\ Cardinality(RecentOf(c, clock)) < PerIp

SlidingInit ==
  /\ clock = 0
  /\ allowed = {}
  /\ answer.ok

SlidingAllow(c) ==
  /\ Admits(c)
  /\ allowed' = allowed \cup {[n |-> Cardinality(allowed), by |-> c, at |-> clock]}
  /\ answer' = [to |-> c, ok |-> TRUE, wait |-> 0]
  /\ UNCHANGED clock

(* The wait is enough for the ceiling that was reached, if no other hit is *)
(* let through meanwhile.                                                  *)
SlidingReject(c) ==
  /\ ~Admits(c)
  /\ answer'.to = c /\ ~answer'.ok /\ answer'.wait >= 1
  /\ LET then == clock + answer'.wait * Second IN
       \/ /\ Cardinality(Recent(clock)) >= Global
          /\ Cardinality(Recent(then)) < Global
       \/ /\ Cardinality(RecentOf(c, clock)) >= PerIp
          /\ Cardinality(RecentOf(c, then)) < PerIp
  /\ UNCHANGED <<clock, allowed>>

SlidingTime == clock' >= clock /\ UNCHANGED <<allowed, answer>>

SlidingNext == \/ SlidingTime
               \/ SlidingAllow(answer'.to) \/ SlidingReject(answer'.to)

SlidingSpec == SlidingInit /\ [][SlidingNext]_windowVars
=============================================================================
