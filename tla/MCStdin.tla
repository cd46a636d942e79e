------------------------------- MODULE MCStdin ------------------------------
EXTENDS Stdin

(* Counts: one too small for a line of two characters, and one that takes *)
(* any line the buffer holds, as the shell's 256 does.                    *)
MCCounts == {1, 2}

MCInput == {"x", "CR", "NL", "BS"}

=============================================================================
