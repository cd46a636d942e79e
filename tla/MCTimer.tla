------------------------------ MODULE MCTimer ------------------------------
(* Timer with one-tick sleeps and tick stopped at 4.                      *)
EXTENDS Timer

MCTimeouts == {1}
MCMaxTick == 4

=============================================================================
