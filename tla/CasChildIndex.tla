---------------------------- MODULE CasChildIndex ----------------------------
(***************************************************************************)
(* nextChildIndex of the cloud's SupabaseStorageAdapter                    *)
(* (cloud/src/storage.ts): a loop that reads the merchant's primary chain  *)
(* row and advances its next_child_index by a conditional update, which    *)
(* only one of the racing callers can win.  Each request is two HTTP calls *)
(* per attempt, and any call may fail, before or after the database has    *)
(* applied it (cloud/src/supabase-db.ts never retries).  A body that is    *)
(* lost after the status arrived is read as no rows, which is what a       *)
(* missed update answers.                                                  *)
(***************************************************************************)
EXTENDS Integers

CONSTANTS Callers,       \* concurrent calls for one merchant, of any process
          StartIndex,    \* next_child_index of the row when they start
          MaxAttempts    \* MAX_CAS_ATTEMPTS

ASSUME CasAssumption == /\ StartIndex \in Nat
                        /\ MaxAttempts \in Nat \ {0}

VARIABLES rowIndex,      \* merchant_chains.next_child_index
          at,            \* at[r]: where the call r is
          current,       \* current[r]: the value r read
          attempt,       \* attempt[r]: the loop counter
          wasted         \* history: indices of updates taken for misses

casVars == <<rowIndex, at, current, attempt, wasted>>

(* "gaveup": attempts exhausted; "error": a call to the database threw;    *)
(* "lost": it threw although the update had been applied.                  *)
CasPoints == {"read", "cas", "served", "gaveup", "error", "lost"}

CasInit ==
  /\ rowIndex = StartIndex
  /\ at = [r \in Callers |-> "read"]
  /\ current = [r \in Callers |-> 0]
  /\ attempt = [r \in Callers |-> 0]
  /\ wasted = {}

(* await this.primaryChain(merchantId)                                     *)
ReadRow(r) ==
  /\ at[r] = "read"
  /\ current' = [current EXCEPT ![r] = rowIndex]
  /\ at' = [at EXCEPT ![r] = "cas"]
  /\ UNCHANGED <<rowIndex, attempt, wasted>>

(* casChildIndex: UPDATE ... WHERE next_child_index = expected             *)
Matches(r) == rowIndex = current[r]

(* The update matched the row: `return current`.                           *)
CasWon(r) ==
  /\ at[r] = "cas"
  /\ Matches(r)
  /\ rowIndex' = current[r] + 1
  /\ at' = [at EXCEPT ![r] = "served"]
  /\ UNCHANGED <<current, attempt, wasted>>

(* Mutant: the last round of the loop is missing.                          *)
NextRoundGivesUpEarly(r) ==
  /\ attempt' = [attempt EXCEPT ![r] = @ + 1]
  /\ at' = [at EXCEPT ![r] = IF attempt[r] + 2 < MaxAttempts
                             THEN "read" ELSE "gaveup"]
  /\ UNCHANGED current

(* Mutant: an update that matched no row is taken for one that did.        *)
CasMissedIsServed(r) ==
  /\ at[r] = "cas"
  /\ ~Matches(r)
  /\ at' = [at EXCEPT ![r] = "served"]
  /\ UNCHANGED <<rowIndex, current, attempt, wasted>>

(* casChildIndex is false: next round of the loop, or give up.             *)
NextRound(r) ==
  /\ attempt' = [attempt EXCEPT ![r] = @ + 1]
  /\ at' = [at EXCEPT ![r] = IF attempt[r] + 1 < MaxAttempts
                             THEN "read" ELSE "gaveup"]
  /\ UNCHANGED current

(* The update matched no row.                                              *)
CasMissed(r) ==
  /\ at[r] = "cas"
  /\ ~Matches(r)
  /\ NextRound(r)
  /\ UNCHANGED <<rowIndex, wasted>>

(* The update was applied, but the body that shows the row was lost.       *)
CasMisread(r) ==
  /\ at[r] = "cas"
  /\ Matches(r)
  /\ rowIndex' = current[r] + 1
  /\ wasted' = wasted \cup {current[r]}
  /\ NextRound(r)

(* A call throws and the database has not been changed.                    *)
CallFails(r) ==
  /\ at[r] \in {"read", "cas"}
  /\ at' = [at EXCEPT ![r] = "error"]
  /\ UNCHANGED <<rowIndex, current, attempt, wasted>>

(* The update was applied and its answer was lost, or the process died.    *)
AnswerLost(r) ==
  /\ at[r] = "cas"
  /\ Matches(r)
  /\ rowIndex' = current[r] + 1
  /\ at' = [at EXCEPT ![r] = "lost"]
  /\ UNCHANGED <<current, attempt, wasted>>

CasNext == \E r \in Callers :
          \/ ReadRow(r) \/ CasWon(r) \/ CasMissed(r) \/ CasMisread(r)
          \/ CallFails(r) \/ AnswerLost(r)

CasSpec == CasInit /\ [][CasNext]_casVars

-----------------------------------------------------------------------------
CasTypeOK ==
  /\ rowIndex \in Nat
  /\ at \in [Callers -> CasPoints]
  /\ current \in [Callers -> Nat]
  /\ attempt \in [Callers -> 0 .. MaxAttempts]
  /\ wasted \subseteq Nat

(* A call that gave up made MAX_CAS_ATTEMPTS attempts, each of which found *)
(* that the counter had advanced or advanced it unknowingly: contention    *)
(* and lost bodies can refuse an invoice only after that many indices were *)
(* taken (the loop is lock-free).                                          *)
GivesUpOnlyAfterLosing ==
  \A r \in Callers : at[r] = "gaveup" => rowIndex - StartIndex >= MaxAttempts

(* The refinement: a call is served when its update is applied.            *)
CasStatus == [r \in Callers |->
             CASE at[r] = "served"            -> "served"
               [] at[r] = "lost"              -> "lost"
               [] at[r] \in {"gaveup", "error"} -> "failed"
               [] OTHER                       -> "waiting"]
CasIndex == [r \in Callers |-> IF at[r] \in {"served", "lost"} THEN current[r] ELSE 0]

CasAbstract == INSTANCE ChildIndex WITH
  Requests <- Callers, FirstIndex <- StartIndex,
  nextIndex <- rowIndex, status <- CasStatus, index <- CasIndex

(* The loop hands out indices the way the adapter interface promises.      *)
CasImplementsChildIndex == CasAbstract!Spec

(* No two served calls return the same child index (storage/index.ts:      *)
(* "Atomic increment of merchant.next_child_index. MUST be race-safe").    *)
UniqueIndices == CasAbstract!UniqueIndices
=============================================================================
