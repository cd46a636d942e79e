---------------------------- MODULE MCPageAlloc ----------------------------
(* Model-checking instance of PageAlloc: an 8-page pool (the scenario of  *)
(* spec section 8) and orders 0..3, so that a request for the whole pool  *)
(* and requests that fail on a fragmented pool both occur.                *)
EXTENDS PageAlloc

MCNumPages == 8
MCOrders == {0, 1, 2, 3}
=============================================================================
