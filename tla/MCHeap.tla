------------------------------- MODULE MCHeap -------------------------------
(* Model-checking instance of Heap with the ARM64 header and tail sizes.  *)
(* The pool starts at 40 bytes and may double three times (320 bytes), so *)
(* growth, growth refused, splitting and merging on both sides all occur. *)
(* 20 is not a multiple of 8, so the aligned and the requested size differ. *)
EXTENDS Heap

MCHDR == 32
MCTAIL == 8
MCPoolMax == 320
MCRequests == {8, 20, 64}
=============================================================================
