---------------------------- MODULE MCProcessMM ----------------------------
EXTENDS ProcessMM

MCSlots == {1, 2}

=============================================================================
