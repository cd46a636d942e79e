------------------------------ MODULE LogQueue ------------------------------
(***************************************************************************)
(* What a concurrent_cbuf promises (src/lib/circular_buffer.c): a bounded  *)
(* FIFO of characters.  A write puts its whole message at the end when    *)
(* the free space holds it, and otherwise fails and sets write_overflow;  *)
(* a read takes characters from the front, at most as many as asked for,  *)
(* in the order they were written.                                         *)
(***************************************************************************)
EXTENDS Integers, Sequences

CONSTANTS
    Cap,      \* characters the buffer can hold
    Msgs,     \* messages writers pass
    Lengths   \* lengths readers ask for

VARIABLES
    q,          \* the characters written and not yet read
    overflow,   \* write_overflow
    got         \* the characters the last read returned

vars == <<q, overflow, got>>

Init ==
    /\ q = << >>
    /\ overflow = FALSE
    /\ got = << >>

Put(msg) ==
    /\ Len(q) + Len(msg) <= Cap
    /\ q' = q \o msg
    /\ UNCHANGED <<overflow, got>>

Reject(msg) ==
    /\ Len(q) + Len(msg) > Cap
    /\ overflow' = TRUE
    /\ UNCHANGED <<q, got>>

(* A read of n characters returns k of them, k at most n and at most what *)
(* is stored: what was stored when the read looked may be less.            *)
Take(n) ==
    \E k \in 0 .. n :
        /\ k <= Len(q)
        /\ got' = SubSeq(q, 1, k)
        /\ q' = SubSeq(q, k + 1, Len(q))
        /\ UNCHANGED overflow

Next ==
    \/ \E m \in Msgs : Put(m) \/ Reject(m)
    \/ \E n \in Lengths : Take(n)

Spec == Init /\ [][Next]_vars

=============================================================================
