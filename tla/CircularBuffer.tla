--------------------------- MODULE CircularBuffer ---------------------------
(***************************************************************************)
(* The kernel log ring of src/lib/circular_buffer.c: a circular_buffer     *)
(* (buffer, length, rp, wp) inside a concurrent_cbuf with one lock for     *)
(* writers and another for readers.  printk writes on any core under      *)
(* cbuf_wlock (printk.c:83); the UART transmit path reads under           *)
(* cbuf_rlock (uart.c:64, 154).  A writer and a reader run at the same    *)
(* time, each under its own lock, so each is a process of several steps:  *)
(* take a snapshot of rp and wp and decide, move the characters one by    *)
(* one, then store its own pointer.  The locks make the writers one       *)
(* process and the readers another.                                       *)
(*                                                                         *)
(* Pointers are offsets from buffer; `end' is offset LOG_BUF_SIZE.        *)
(***************************************************************************)
EXTENDS Integers, Sequences, FiniteSetsExt

CONSTANTS
    LOG_BUF_SIZE,   \* length of the ring (printk.c:27)
    Msgs,           \* messages printk writes (sequences of characters)
    Lengths,        \* lengths the UART side asks for
    Blank           \* what __log_buf holds before anything is written

VARIABLES
    buffer,     \* buffer[i]: the character at offset i
    rp, wp,     \* p->rp and p->wp
    overflow,   \* cbuf->write_overflow
    got,        \* the characters the last read copied out
    w,          \* the writer: pc, msg, characters copied i, its local wp
    r           \* the reader: pc, to_read_len k, copied i, its local rp, data

vars == <<buffer, rp, wp, overflow, got, w, r>>

Offsets == 0 .. (LOG_BUF_SIZE - 1)

Chars == UNION {{m[j] : j \in DOMAIN m} : m \in Msgs}

(* Mutant: the wrap tested one position late.                             *)
WrapLate(x) == IF x > LOG_BUF_SIZE THEN 0 ELSE x

(* `if (wp == end) wp = begin', circular_buffer.c:43-45 and 76-78.         *)
Wrap(x) == IF x = LOG_BUF_SIZE THEN 0 ELSE x

(* Mutant: the capacity test of write_circular_buffer without the slot    *)
(* kept free to tell a full ring from an empty one.                        *)
RoomNoSlack(rpv, wpv, len) ==
    IF wpv >= rpv THEN ~(LOG_BUF_SIZE - (wpv - rpv) < len)
    ELSE ~(rpv - wpv < len)

(* The capacity test, circular_buffer.c:31-39.                             *)
Room(rpv, wpv, len) ==
    IF wpv >= rpv THEN ~(LOG_BUF_SIZE - 1 - (wpv - rpv) < len)
    ELSE ~(rpv - 1 - wpv < len)

(* store_len, circular_buffer.c:67-71.                                     *)
StoreLen(rpv, wpv) ==
    IF wpv >= rpv THEN wpv - rpv ELSE LOG_BUF_SIZE - (rpv - wpv)

WIdle == [pc |-> "idle", msg |-> << >>, i |-> 0, wpl |-> 0]
RIdle == [pc |-> "idle", k |-> 0, i |-> 0, rpl |-> 0, data |-> << >>]

(* init_concurrent_cbuf / init_circular_buffer, circular_buffer.c:5-16 and *)
(* 86-102.                                                                 *)
Init ==
    /\ buffer = [i \in Offsets |-> Blank]
    /\ rp = 0
    /\ wp = 0
    /\ overflow = FALSE
    /\ got = << >>
    /\ w = WIdle
    /\ r = RIdle

(***************************************************************************)
(* write_concurrent_cbuf(cbuf, p, length), circular_buffer.c:124-147.      *)
(***************************************************************************)

(* Lines 21-39: read p->rp and p->wp once; the message fits.               *)
WriteCheck(msg) ==
    /\ w.pc = "idle"
    /\ Room(rp, wp, Len(msg))
    /\ w' = [pc |-> "copy", msg |-> msg, i |-> 0, wpl |-> wp]
    /\ UNCHANGED <<buffer, rp, wp, overflow, got, r>>

(* Lines 31-39 return -1, and write_concurrent_cbuf sets write_overflow.  *)
WriteOverflow(msg) ==
    /\ w.pc = "idle"
    /\ ~Room(rp, wp, Len(msg))
    /\ overflow' = TRUE
    /\ UNCHANGED <<buffer, rp, wp, got, w, r>>

(* Lines 41-46: one character, *wp++ = *cur_data++, then the wrap.         *)
WriteCopy ==
    /\ w.pc = "copy"
    /\ w.i < Len(w.msg)
    /\ buffer' = [buffer EXCEPT ![w.wpl] = w.msg[w.i + 1]]
    /\ w' = [w EXCEPT !.i = @ + 1, !.wpl = Wrap(@ + 1)]
    /\ UNCHANGED <<rp, wp, overflow, got, r>>

(* Line 48: p->wp = wp, after the copy.                                    *)
WritePublish ==
    /\ w.pc = "copy"
    /\ w.i = Len(w.msg)
    /\ wp' = w.wpl
    /\ w' = WIdle
    /\ UNCHANGED <<buffer, rp, overflow, got, r>>

(***************************************************************************)
(* read_concurrent_cbuf(cbuf, p, length), circular_buffer.c:104-122.       *)
(***************************************************************************)

(* Lines 55-72: read p->rp and p->wp once; to_read_len.                    *)
ReadStart(n) ==
    /\ r.pc = "idle"
    /\ r' = [pc |-> "copy", k |-> Min({n, StoreLen(rp, wp)}), i |-> 0,
             rpl |-> rp, data |-> << >>]
    /\ UNCHANGED <<buffer, rp, wp, overflow, got, w>>

(* Lines 74-79: one character, *cur_data++ = *rp++, then the wrap.         *)
ReadCopy ==
    /\ r.pc = "copy"
    /\ r.i < r.k
    /\ r' = [r EXCEPT !.i = @ + 1, !.rpl = Wrap(@ + 1),
                      !.data = Append(@, buffer[r.rpl])]
    /\ UNCHANGED <<buffer, rp, wp, overflow, got, w>>

(* Line 81: p->rp = rp; the characters are returned.                       *)
ReadPublish ==
    /\ r.pc = "copy"
    /\ r.i = r.k
    /\ rp' = r.rpl
    /\ got' = r.data
    /\ r' = RIdle
    /\ UNCHANGED <<buffer, wp, overflow, w>>

Next ==
    \/ \E m \in Msgs : WriteCheck(m) \/ WriteOverflow(m)
    \/ WriteCopy
    \/ WritePublish
    \/ \E n \in Lengths : ReadStart(n)
    \/ ReadCopy
    \/ ReadPublish

Spec == Init /\ [][Next]_vars

-----------------------------------------------------------------------------

TypeOK ==
    /\ buffer \in [Offsets -> Chars \cup {Blank}]
    /\ rp \in Offsets /\ wp \in Offsets
    /\ w.wpl \in Offsets /\ r.rpl \in Offsets
    /\ overflow \in BOOLEAN

(* The characters between rp and wp, in ring order.                        *)
Stored == [j \in 1 .. StoreLen(rp, wp) |-> buffer[(rp + j - 1) % LOG_BUF_SIZE]]

(* The ring implements the bounded FIFO of LogQueue, holding one character *)
(* less than its length: every printk that is not reported as overflow is *)
(* read back whole, in order, never overwritten and never read twice,     *)
(* whatever the interleaving of the writer's and the reader's steps.      *)
Queue == INSTANCE LogQueue
            WITH q <- Stored, Cap <- LOG_BUF_SIZE - 1

QueueSpec == Queue!Spec

=============================================================================
