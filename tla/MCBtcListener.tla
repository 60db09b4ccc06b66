---------------------------- MODULE MCBtcListener ----------------------------
(* Sets for the instances of BtcListener.                                   *)
EXTENDS BtcListener

CONSTANTS i1, t1, t2

One == {i1}
OneTx == {t1}
TwoTxs == {t1, t2}
OneHandler == {1}
TwoHandlers == {1, 2}
PaidOne == [t \in Txs |-> i1]
Required1 == [i \in Invoices |-> 1]
Required2 == [i \in Invoices |-> 2]
=============================================================================
