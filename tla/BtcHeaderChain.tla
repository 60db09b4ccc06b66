--------------------------- MODULE BtcHeaderChain ---------------------------
(***************************************************************************)
(* The Bitcoin header chain of zettapay-core (lib.rs,                      *)
(* process_init_btc_header_chain and process_update_btc_header): one       *)
(* account with a ring of the last headers.  Anybody may extend the tip by *)
(* a header with enough work; there is no other update, so a chain whose   *)
(* tip Bitcoin abandons stays where it is.                                 *)
(*                                                                         *)
(* A header stands for its bytes and for its hash.                         *)
(***************************************************************************)
EXTENDS Integers

CONSTANTS Headers,        \* block headers that somebody may send
          Worked,         \* those whose hash meets their target
          ParentOf,       \* ParentOf[h]: the header its prev_block_hash names
          Window,         \* BTC_HEADER_CHAIN_WINDOW
          AnchorHeights,  \* heights an initializer may claim
          Zero            \* the bytes of a slot that was never written

ASSUME HeaderAssumption ==
  /\ Worked \subseteq Headers
  /\ Window \in Nat \ {0}
  /\ AnchorHeights \subseteq Nat
  /\ Zero \notin Headers

VARIABLES headIndex,      \* head_index, the slot of the newest header
          count,          \* count of the slots written, 0 while there is no account
          latestHeight,   \* latest_height
          latestHash,     \* latest_hash
          ring            \* headers_data, by slot

headerVars == <<headIndex, count, latestHeight, latestHash, ring>>

HeaderInit ==
  /\ headIndex = 0
  /\ count = 0
  /\ latestHeight = 0
  /\ latestHash = Zero
  /\ ring = [s \in 0 .. Window - 1 |-> Zero]

(* Anybody, once, with any header that has the work.                       *)
InitBtcHeaderChain(h, n) ==
  /\ count = 0
  /\ h \in Worked
  /\ headIndex' = 0
  /\ count' = 1
  /\ latestHeight' = n
  /\ latestHash' = h
  /\ ring' = [ring EXCEPT ![0] = h]

(* The slot the next header goes to.                                       *)
SlotAfter(s) == (s + 1) % Window

(* Mutant: a header is compared with the oldest header, not the newest.    *)
UpdateBtcHeaderAnywhere(h) ==
  /\ count > 0
  /\ \E s \in 0 .. count - 1 : ParentOf[h] = ring[s]
  /\ h \in Worked
  /\ ring' = [ring EXCEPT ![SlotAfter(headIndex)] = h]
  /\ headIndex' = SlotAfter(headIndex)
  /\ count' = IF count < Window THEN count + 1 ELSE count
  /\ latestHash' = h
  /\ latestHeight' = latestHeight + 1

(* The header must continue the newest; the oldest gives way to it.        *)
UpdateBtcHeader(h) ==
  /\ count > 0
  /\ ParentOf[h] = latestHash
  /\ h \in Worked
  /\ ring' = [ring EXCEPT ![SlotAfter(headIndex)] = h]
  /\ headIndex' = SlotAfter(headIndex)
  /\ count' = IF count < Window THEN count + 1 ELSE count
  /\ latestHash' = h
  /\ latestHeight' = latestHeight + 1

HeaderNext ==
  \/ \E h \in Headers, n \in AnchorHeights : InitBtcHeaderChain(h, n)
  \/ \E h \in Headers : UpdateBtcHeader(h)

HeaderSpec == HeaderInit /\ [][HeaderNext]_headerVars

-----------------------------------------------------------------------------
HeaderTypeOK ==
  /\ headIndex \in 0 .. Window - 1
  /\ count \in 0 .. Window
  /\ latestHeight \in Nat
  /\ latestHash \in Headers \cup {Zero}
  /\ ring \in [0 .. Window - 1 -> Headers \cup {Zero}]

(* The slot that comes k before the slot s.                                *)
SlotBack(s, k) == IF k <= s THEN s - k ELSE s - k + Window

(* The refinement: the window is read from the ring, oldest first.         *)
Kept == [k \in 1 .. count |-> ring[SlotBack(headIndex, count - k)]]

Reference == INSTANCE HeaderWindow WITH kept <- Kept, height <- latestHeight

(* The ring with its head, its count and its wrap-around is the window of  *)
(* the last headers, and the hash that is compared is its newest.          *)
ImplementsWindow == Reference!Spec

(* The headers that can be read are consecutive, over any number of turns  *)
(* of the ring.                                                            *)
WindowIsAChain == Reference!WindowIsAChain
=============================================================================
