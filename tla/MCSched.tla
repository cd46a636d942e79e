------------------------------ MODULE MCSched ------------------------------
(* Sched with a table of three slots and small run-time counters.         *)
EXTENDS Sched

MCMaxProcesses == 3
MCMaxTime == 2

=============================================================================
