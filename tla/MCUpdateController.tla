------------------------- MODULE MCUpdateController -------------------------
(* UpdateController with its thresholds: applied on its own after one       *)
(* instant, with no shorter delay for a stale client.  Either two tabs are  *)
(* open, or one whose controller is replaced while an answer is due.        *)
EXTENDS UpdateController

AfterOne == {1}
Never == {}
ThreeTabs == {1, 2, 3}
PairOrOne == {{1, 2}, {3}}
TheOne == {3}
FourControllers == {<<1, 1>>, <<2, 1>>, <<3, 1>>, <<3, 2>>}
=============================================================================
