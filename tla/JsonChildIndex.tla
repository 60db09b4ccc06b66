---------------------------- MODULE JsonChildIndex ----------------------------
(***************************************************************************)
(* nextChildIndex of the listener's JsonFileStorage                        *)
(* (listener/src/storage/json.ts).  merchant.json is shared by the         *)
(* listener and by every CLI command run beside it, so a call passes two   *)
(* gates: indexQueue, a promise chain that runs the calls of one process   *)
(* one at a time, and the lock file of proper-lockfile, which processes    *)
(* share.  Under the lock the call reads the file, replaces it by rename   *)
(* and answers with the value it read.                                     *)
(*                                                                         *)
(* External: proper-lockfile.  A live holder refreshes its lock, so the    *)
(* lock goes stale (10 s) only after its process died; taking it is        *)
(* atomic.                                                                 *)
(***************************************************************************)
EXTENDS Integers, Sequences

CONSTANTS Requests,      \* the calls of nextChildIndex
          Processes,     \* Node processes that opened the data directory
          ProcessOf,     \* ProcessOf[r]: the process that makes the call r
          FirstIndex,    \* next_child_index in merchant.json at the start
          NoOne          \* the lock file does not exist

ASSUME JsonAssumption == /\ ProcessOf \in [Requests -> Processes]
                         /\ FirstIndex \in Nat
                         /\ NoOne \notin Requests

VARIABLES stored,        \* next_child_index in merchant.json
          pc,            \* pc[r]: where the call r is
          seen,          \* seen[r]: preIncrement
          indexQueue,    \* indexQueue[p]: calls of p that have not settled
          lock,          \* the call that holds the lock file, or NoOne
          alive          \* the processes still running

vars == <<stored, pc, seen, indexQueue, lock, alive>>

(* "lost": the file was replaced but the call did not answer.              *)
Points == {"idle", "queued", "locking", "reading", "writing", "releasing",
           "served", "failed", "lost"}
Settled == {"served", "failed", "lost"}

Init ==
  /\ stored = FirstIndex
  /\ pc = [r \in Requests |-> "idle"]
  /\ seen = [r \in Requests |-> 0]
  /\ indexQueue = [p \in Processes |-> <<>>]
  /\ lock = NoOne
  /\ alive = Processes

Live(r) == ProcessOf[r] \in alive

(* this.indexQueue.then(run, run): the call waits for those before it.     *)
Call(r) ==
  /\ pc[r] = "idle"
  /\ Live(r)
  /\ indexQueue' = [indexQueue EXCEPT ![ProcessOf[r]] = Append(@, r)]
  /\ pc' = [pc EXCEPT ![r] = "queued"]
  /\ UNCHANGED <<stored, seen, lock, alive>>

FirstOfQueue(r) ==
  /\ indexQueue[ProcessOf[r]] # <<>>
  /\ Head(indexQueue[ProcessOf[r]]) = r

(* Mutant: a call that fails does not let the next one run.                *)
SettleOnSuccess(r, outcome) ==
  /\ pc' = [pc EXCEPT ![r] = outcome]
  /\ indexQueue' = IF outcome = "failed" THEN indexQueue
                   ELSE [indexQueue EXCEPT ![ProcessOf[r]] = Tail(@)]

(* The call settles and the next one of its process may run.               *)
Settle(r, outcome) ==
  /\ pc' = [pc EXCEPT ![r] = outcome]
  /\ indexQueue' = [indexQueue EXCEPT ![ProcessOf[r]] = Tail(@)]

(* run: the merchant file is there, ask for the lock.                      *)
Start(r) ==
  /\ pc[r] = "queued"
  /\ FirstOfQueue(r)
  /\ pc' = [pc EXCEPT ![r] = "locking"]
  /\ UNCHANGED <<stored, seen, indexQueue, lock, alive>>

(* Mutant: a lock goes stale although its holder still reads.              *)
LockFreeOfReaders ==
  lock \in {NoOne} \cup {r \in Requests : ~Live(r) \/ pc[r] = "reading"}

(* External: the lock file is absent, or its holder is dead and it has     *)
(* gone stale.                                                             *)
LockFree == lock \in {NoOne} \cup {r \in Requests : ~Live(r)}

Acquire(r) ==
  /\ pc[r] = "locking"
  /\ LockFree
  /\ lock' = r
  /\ pc' = [pc EXCEPT ![r] = "reading"]
  /\ UNCHANGED <<stored, seen, indexQueue, alive>>

(* LOCK_RETRY_OPTS exhausted while the lock file exists: the call throws.  *)
LockRefused(r) ==
  /\ pc[r] = "locking"
  /\ lock # NoOne
  /\ Settle(r, "failed")
  /\ UNCHANGED <<stored, seen, lock, alive>>

ReadMerchant(r) ==
  /\ pc[r] = "reading"
  /\ seen' = [seen EXCEPT ![r] = stored]
  /\ pc' = [pc EXCEPT ![r] = "writing"]
  /\ UNCHANGED <<stored, indexQueue, lock, alive>>

(* atomicWrite: a rename replaces merchant.json.                           *)
WriteMerchant(r) ==
  /\ pc[r] = "writing"
  /\ stored' = seen[r] + 1
  /\ pc' = [pc EXCEPT ![r] = "releasing"]
  /\ UNCHANGED <<seen, indexQueue, lock, alive>>

(* A read or a write threw: finally { release() }, and the error goes up.  *)
FileError(r) ==
  /\ pc[r] \in {"reading", "writing"}
  /\ lock' = NoOne
  /\ Settle(r, "failed")
  /\ UNCHANGED <<stored, seen, alive>>

(* finally { await release() }, then `return preIncrement`; if release     *)
(* throws, so does the call.                                               *)
Release(r) ==
  /\ pc[r] = "releasing"
  /\ lock' = NoOne
  /\ \E outcome \in {"served", "lost"} : Settle(r, outcome)
  /\ UNCHANGED <<stored, seen, alive>>

Step(r) ==
  /\ Live(r)
  /\ \/ Start(r) \/ Acquire(r) \/ LockRefused(r) \/ ReadMerchant(r)
     \/ WriteMerchant(r) \/ FileError(r) \/ Release(r)

(* The process dies: its calls never answer, its lock file stays behind.   *)
Crash(p) ==
  /\ p \in alive
  /\ alive' = alive \ {p}
  /\ pc' = [r \in Requests |->
              IF ProcessOf[r] # p \/ pc[r] \in Settled \cup {"idle"} THEN pc[r]
              ELSE IF pc[r] = "releasing" THEN "lost" ELSE "failed"]
  /\ indexQueue' = [indexQueue EXCEPT ![p] = <<>>]
  /\ UNCHANGED <<stored, seen, lock>>

Next == \/ \E r \in Requests : Call(r) \/ Step(r)
        \/ \E p \in Processes : Crash(p)

Spec == Init /\ [][Next]_vars

(* Every live process keeps running its event loop; a lock holder keeps    *)
(* the lock for as long as its own steps take.                             *)
Fairness == \A r \in Requests : WF_vars(Step(r))

FairSpec == Spec /\ Fairness

-----------------------------------------------------------------------------
TypeOK ==
  /\ stored \in Nat
  /\ pc \in [Requests -> Points]
  /\ seen \in [Requests -> Nat]
  /\ indexQueue \in [Processes -> Seq(Requests)]
  /\ lock \in Requests \cup {NoOne}
  /\ alive \in SUBSET Processes

(* Between reading merchant.json and replacing it, a call is the only one  *)
(* that may do so, in whatever process: the lock covers the whole          *)
(* read-modify-write, and a stale lock is never taken from a live call.    *)
InCritical(r) == pc[r] \in {"reading", "writing", "releasing"}

OneWriter ==
  \A r, s \in Requests : InCritical(r) /\ InCritical(s) => r = s

(* Whatever calls fail, are refused the lock or die with it, every other   *)
(* call settles: neither the queue of a process nor a lock file left by a  *)
(* dead one blocks nextChildIndex forever.                                 *)
EveryCallSettles ==
  \A r \in Requests : pc[r] # "idle" ~> pc[r] \in Settled

(* The refinement: a call takes its index when merchant.json is replaced.  *)
Status == [r \in Requests |->
             CASE pc[r] \in {"releasing", "served"} -> "served"
               [] pc[r] = "lost"                    -> "lost"
               [] pc[r] = "failed"                  -> "failed"
               [] OTHER                             -> "waiting"]
Index == [r \in Requests |->
            IF pc[r] \in {"releasing", "served", "lost"} THEN seen[r] ELSE 0]

Abstract == INSTANCE ChildIndex WITH nextIndex <- stored, status <- Status,
                                     index <- Index, wasted <- {}

(* The queue and the lock together give what the adapter interface         *)
(* promises.                                                               *)
ImplementsChildIndex == Abstract!Spec

(* The indices used are contiguous: whatever calls fail, are refused the   *)
(* lock or die, an index is skipped only if a call died with it.           *)
NoUnaccountedGap == Abstract!NoUnaccountedGap
=============================================================================
