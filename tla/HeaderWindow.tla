---------------------------- MODULE HeaderWindow ----------------------------
(***************************************************************************)
(* What the on-chain reference of Bitcoin headers promises                 *)
(* (programs/zettapay-core/src/state.rs, "a rolling window of the          *)
(* most-recent Bitcoin block headers"): the last Window headers of one     *)
(* chain, oldest first, each the parent of the next.                       *)
(***************************************************************************)
EXTENDS Sequences, Integers

CONSTANTS Headers,        \* block headers, each as good as its hash
          ParentOf,       \* ParentOf[h]: the header its prev_block_hash names
          Window,         \* headers that are kept, at least one
          AnchorHeights   \* heights the first header may be given

VARIABLES kept,           \* the headers kept, oldest first
          height          \* height of the newest

Init == kept = <<>> /\ height = 0

Anchor(h, n) ==
  /\ kept = <<>>
  /\ kept' = <<h>>
  /\ height' = n

Extend(h) ==
  /\ kept # <<>>
  /\ ParentOf[h] = kept[Len(kept)]
  /\ kept' = IF Len(kept) < Window THEN Append(kept, h) ELSE Append(Tail(kept), h)
  /\ height' = height + 1

Next == \/ \E h \in Headers, n \in AnchorHeights : Anchor(h, n)
        \/ \E h \in Headers : Extend(h)

Spec == Init /\ [][Next]_<<kept, height>>

-----------------------------------------------------------------------------
(* The window is a piece of one chain.                                     *)
WindowIsAChain == \A k \in 1 .. Len(kept) - 1 : ParentOf[kept[k + 1]] = kept[k]
=============================================================================
