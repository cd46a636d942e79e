------------------------------- MODULE Printk -------------------------------
(***************************************************************************)
(* printk (src/kernel/printk.c, UART_IRQ_MODE) over the kernel log ring.   *)
(* printk formats its line one character at a time through print_char     *)
(* into the per-core scratch buffer tmp_printk_buf at tmp_printk_offset,  *)
(* which it first resets to 0, then hands the first num_ts_printed +      *)
(* num_printed bytes of that buffer to write_concurrent_cbuf.             *)
(*                                                                         *)
(* One core is modelled, with two contexts that call printk: the code     *)
(* that runs on it ("task": a task in the kernel, or swapper) and an      *)
(* interrupt on it ("irq": irq_handler's own messages, the softirq timer  *)
(* callbacks, the UART's magic keys, or a task that irq_handler's         *)
(* schedule() runs over swapper).  The irq context runs to its end before *)
(* the task resumes; IRQs are masked under cbuf_wlock, so it can start    *)
(* only while the task formats or is outside printk.  The reader of the   *)
(* ring is the UART on another core, interleaving step by step.  The      *)
(* formatting itself is abstracted: a printk's text is the sequence of    *)
(* characters it passes to print_char, timestamp included.                *)
(***************************************************************************)
EXTENDS Integers, Sequences, SequencesExt

CONSTANTS
    LOG_BUF_SIZE,       \* length of the ring
    TMP_PRINTK_BUF_LEN, \* printk.c:15
    TaskTexts,          \* the lines the task prints
    IrqTexts,           \* the lines interrupts print
    Lengths,            \* lengths the UART side asks for
    Blank               \* a byte nobody printed

VARIABLES
    buffer, rp, wp, overflow, got, w, r,  \* the ring, as in CircularBuffer
    tmp,    \* tmp_printk_buf of the core: tmp[j] for j in 0..LEN-1
    off,    \* tmp_printk_offset of the core
    pk      \* pk[c]: the printk of context c: pc, text, characters
            \* printed i, whether another printk ran on the core while it
            \* formatted (nested), and the line it handed to the ring

vars == <<buffer, rp, wp, overflow, got, w, r, tmp, off, pk>>

Contexts == {"task", "irq"}

Texts == TaskTexts \cup IrqTexts

MaxText == Max({Len(t) : t \in Texts})

Chars == UNION {Range(t) : t \in Texts}

(* What write_concurrent_cbuf may be handed: any bytes, Blank included.   *)
Lines == SeqOf(Chars \cup {Blank}, MaxText) \ {<< >>}

Ring == INSTANCE CircularBuffer WITH Msgs <- Lines

Idle == [pc |-> "idle", text |-> << >>, i |-> 0, nested |-> FALSE, line |-> << >>]

(* init_printk and the per-cpu definitions, printk.c:15-28.                *)
Init ==
    /\ Ring!Init
    /\ tmp = [j \in 0 .. (TMP_PRINTK_BUF_LEN - 1) |-> Blank]
    /\ off = 0
    /\ pk = [c \in Contexts |-> Idle]

(* The task does not run while irq_handler runs on its core               *)
(* (isr.c:103-127).                                                        *)
CanStep(c) == c = "irq" \/ pk["irq"].pc = "idle"

(* spin_lock_irqsave masks IRQs from before cbuf_wlock is taken until     *)
(* spin_unlock_irqrestore (spinlock.c:112-133): no interrupt arrives      *)
(* while the task writes the ring.                                         *)
IrqsEnabled == pk["task"].pc # "write"

(* Mutant: printk without the reset of tmp_printk_offset.                  *)
PrintkStartNoReset(c, txt) ==
    /\ pk[c].pc = "idle"
    /\ CanStep(c)
    /\ c = "irq" => IrqsEnabled
    /\ pk' = [d \in Contexts |->
                IF d = c THEN [Idle EXCEPT !.pc = "fmt", !.text = txt]
                ELSE IF pk[d].pc = "fmt" THEN [pk[d] EXCEPT !.nested = TRUE]
                ELSE pk[d]]
    /\ UNCHANGED <<buffer, rp, wp, overflow, got, w, r, tmp, off>>

(* printk.c:64-70: a call with a format resets the core's offset.  A      *)
(* printk the new one interrupts is marked nested.                         *)
PrintkStart(c, txt) ==
    /\ pk[c].pc = "idle"
    /\ CanStep(c)
    /\ c = "irq" => IrqsEnabled
    /\ off' = 0
    /\ pk' = [d \in Contexts |->
                IF d = c THEN [Idle EXCEPT !.pc = "fmt", !.text = txt]
                ELSE IF pk[d].pc = "fmt" THEN [pk[d] EXCEPT !.nested = TRUE]
                ELSE pk[d]]
    /\ UNCHANGED <<buffer, rp, wp, overflow, got, w, r, tmp>>

(* print_char, printk.c:37-40: the offset after a character.               *)
OffsetNext(o) == IF o + 1 >= TMP_PRINTK_BUF_LEN THEN 0 ELSE o + 1

(* print_char, printk.c:31-42, for the next character of the text.        *)
PrintChar(c) ==
    /\ pk[c].pc = "fmt"
    /\ CanStep(c)
    /\ pk[c].i < Len(pk[c].text)
    /\ tmp' = [tmp EXCEPT ![off] = pk[c].text[pk[c].i + 1]]
    /\ off' = OffsetNext(off)
    /\ pk' = [pk EXCEPT ![c].i = @ + 1]
    /\ UNCHANGED <<buffer, rp, wp, overflow, got, w, r>>

(* The n bytes at tmp_printk_buf, printk.c:83-84: past                    *)
(* TMP_PRINTK_BUF_LEN they are whatever follows the per-cpu array.        *)
TmpRead(n) ==
    {[j \in 1 .. n |-> IF j <= TMP_PRINTK_BUF_LEN THEN tmp[j - 1] ELSE x[j]] :
        x \in [(TMP_PRINTK_BUF_LEN + 1) .. n -> Chars \cup {Blank}]}

(* printk.c:83-90: write_concurrent_cbuf of the formatted bytes; on       *)
(* overflow printk returns -1 at once.                                     *)
PrintkWrite(c) ==
    /\ pk[c].pc = "fmt"
    /\ CanStep(c)
    /\ pk[c].i = Len(pk[c].text)
    /\ \E line \in TmpRead(Len(pk[c].text)) :
          \/ /\ Ring!WriteCheck(line)
             /\ pk' = [pk EXCEPT ![c].pc = "write", ![c].line = line]
          \/ /\ Ring!WriteOverflow(line)
             /\ pk' = [pk EXCEPT ![c] = Idle]
    /\ UNCHANGED <<tmp, off>>

(* write_circular_buffer's copy loop, circular_buffer.c:40-46.            *)
RingCopy ==
    /\ Ring!WriteCopy
    /\ UNCHANGED <<tmp, off, pk>>

(* The store of wp, the unlock and printk's return, printk.c:86-90.       *)
PrintkReturn(c) ==
    /\ pk[c].pc = "write"
    /\ Ring!WritePublish
    /\ pk' = [pk EXCEPT ![c] = Idle]
    /\ UNCHANGED <<tmp, off>>

(* read_concurrent_cbuf by the UART, circular_buffer.c:104-122.            *)
ReadLog ==
    /\ \/ \E n \in Lengths : Ring!ReadStart(n)
       \/ Ring!ReadCopy
       \/ Ring!ReadPublish
    /\ UNCHANGED <<tmp, off, pk>>

Next ==
    \/ \E t \in TaskTexts : PrintkStart("task", t)
    \/ \E t \in IrqTexts : PrintkStart("irq", t)
    \/ \E c \in Contexts : PrintChar(c) \/ PrintkWrite(c) \/ PrintkReturn(c)
    \/ RingCopy
    \/ ReadLog

Spec == Init /\ [][Next]_vars

-----------------------------------------------------------------------------

TypeOK ==
    /\ Ring!TypeOK
    /\ tmp \in [0 .. (TMP_PRINTK_BUF_LEN - 1) -> Chars \cup {Blank}]
    /\ off \in 0 .. (TMP_PRINTK_BUF_LEN - 1)
    /\ \A c \in Contexts : pk[c].pc \in {"idle", "fmt", "write"}

(* A printk that nothing interrupted while it formatted, and whose line   *)
(* fits tmp_printk_buf, hands the ring exactly the characters it passed   *)
(* to print_char, whatever printks ran on the core before it: the offset  *)
(* reset at printk.c:70 and the wrap in print_char must leave the line at *)
(* the start of the buffer.                                                *)
PrintkLineIntact ==
    \A c \in Contexts :
        /\ pk[c].pc = "write"
        /\ ~pk[c].nested
        /\ Len(pk[c].text) <= TMP_PRINTK_BUF_LEN
        => pk[c].line = pk[c].text

(* The ring under printk still implements the bounded FIFO of LogQueue.   *)
QueueSpec == Ring!QueueSpec

=============================================================================
