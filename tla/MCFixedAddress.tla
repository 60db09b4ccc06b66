---------------------------- MODULE MCFixedAddress ----------------------------
(* Sets for the instances of the fixed-address watcher.                     *)
EXTENDS FixedAddress

CONSTANTS i1, i2, i3, t1, t2, t3

OneInvoices == {i1}
TwoInvoices == {i1, i2}
ThreeInvoices == {i1, i2, i3}
OneTransfers == {t1}
TwoTransfers == {t1, t2}
ThreeTransfers == {t1, t2, t3}
NoFaults == {}
ThirdFaulty == {3}
=============================================================================
