------------------------------- MODULE Stdin -------------------------------
(***************************************************************************)
(* Console input: the UART receive interrupt's line discipline            *)
(* (to_line_discipline, src/kernel/uart.c) and read_stdin                 *)
(* (src/kernel/isr.c), which meet in uart_in_buf / uib_index under         *)
(* uib_lock and in the wait queue uib_wq_head (src/kernel/wait.c,         *)
(* include/wait.h).                                                        *)
(*                                                                         *)
(* The interrupt stores a character under uib_lock, drops the lock, and   *)
(* only then calls wake_up for a newline: two steps.  A reader checks for *)
(* a complete line under uib_lock; while there is none it drops the lock, *)
(* marks itself SLEEPING and calls schedule(): the drop and the marking   *)
(* are separate steps, as in the code.  A region under a spin lock is one *)
(* step.  The screen echo is left out.                                     *)
(***************************************************************************)
EXTENDS Integers, Sequences

CONSTANTS
    Readers,          \* tasks calling read(0, buf, count) (model values)
    Counts,           \* the counts they pass
    Input,            \* characters typed: "x", "CR", "NL", "BS"
    UART_IN_BUF_LEN   \* uart.c:16

ASSUME Input \subseteq {"x", "CR", "NL", "BS"} /\ UART_IN_BUF_LEN \in Nat \ {0}

VARIABLES
    buf,     \* uart_in_buf[0 .. uib_index - 1]
    upc,     \* the interrupt: "idle", or "wake" between unlock and wake_up
    wq,      \* the readers whose wait_queue_entry is on uib_wq_head
    state,   \* state[r]: "RUNNING" or "SLEEPING"
    pc,      \* pc[r]: "out", "unlocked" (isr.c:430 done), "sched" (in schedule())
    ret      \* ret[r]: what r's last read_stdin returned

vars == <<buf, upc, wq, state, pc, ret>>

NoRet == [ok |-> FALSE, data |-> << >>]

(* The loop condition, isr.c:424 and 429: the buffer ends in a newline.     *)
LineComplete(b) == Len(b) > 0 /\ b[Len(b)] = "NL"

Init ==
    /\ buf = << >>
    /\ upc = "idle"
    /\ wq = {}
    /\ state = [r \in Readers |-> "RUNNING"]
    /\ pc = [r \in Readers |-> "out"]
    /\ ret = [r \in Readers |-> NoRet]

(***************************************************************************)
(* The interrupt side.                                                     *)
(***************************************************************************)

(* Mutant: the buffer filled up to UART_IN_BUF_LEN characters.            *)
ToLineDisciplineOffByOne(c) ==
    LET ch == IF c = "CR" THEN "NL" ELSE c
    IN  /\ upc = "idle"
        /\ IF c = "BS"
           THEN buf' = IF Len(buf) > 0 THEN SubSeq(buf, 1, Len(buf) - 1) ELSE buf
           ELSE buf' = IF Len(buf) < UART_IN_BUF_LEN THEN Append(buf, ch) ELSE buf
        /\ upc' = IF c # "BS" /\ ch = "NL" THEN "wake" ELSE "idle"
        /\ UNCHANGED <<wq, state, pc, ret>>

(* to_line_discipline(c), uart.c:107-133, the part under uib_lock: a      *)
(* backspace removes the last character and returns; '\r' becomes '\n';  *)
(* a character is stored while uib_index < UART_IN_BUF_LEN - 1.  A newline *)
(* goes on to wake_up even when it was not stored.                         *)
ToLineDiscipline(c) ==
    LET ch == IF c = "CR" THEN "NL" ELSE c
    IN  /\ upc = "idle"
        /\ IF c = "BS"
           THEN buf' = IF Len(buf) > 0 THEN SubSeq(buf, 1, Len(buf) - 1) ELSE buf
           ELSE buf' = IF Len(buf) < UART_IN_BUF_LEN - 1 THEN Append(buf, ch) ELSE buf
        /\ upc' = IF c # "BS" /\ ch = "NL" THEN "wake" ELSE "idle"
        /\ UNCHANGED <<wq, state, pc, ret>>

(* wake_up(&uib_wq_head), uart.c:136 and wait.c:3-15: every task on the   *)
(* queue is set RUNNING.                                                   *)
WakeUp ==
    /\ upc = "wake"
    /\ state' = [r \in Readers |-> IF r \in wq THEN "RUNNING" ELSE state[r]]
    /\ upc' = "idle"
    /\ UNCHANGED <<buf, wq, pc, ret>>

(***************************************************************************)
(* The reader side, read_stdin, isr.c:411-449.                             *)
(***************************************************************************)

(* isr.c:439-447: with the line complete and uib_lock held, copy it out   *)
(* and empty the buffer, or return -1 when count is too small.            *)
CopyOut(r, count) ==
    IF count < Len(buf)
    THEN /\ ret' = [ret EXCEPT ![r] = [ok |-> FALSE, data |-> << >>]]
         /\ UNCHANGED buf
    ELSE /\ ret' = [ret EXCEPT ![r] = [ok |-> TRUE, data |-> buf]]
         /\ buf' = << >>

(* isr.c:423-428 and the first loop test: no complete line, so the entry  *)
(* goes on the queue, the task is marked SLEEPING and uib_lock is dropped. *)
ReadStdinWait(r) ==
    /\ pc[r] = "out"
    /\ ~LineComplete(buf)
    /\ wq' = wq \cup {r}
    /\ state' = [state EXCEPT ![r] = "SLEEPING"]
    /\ pc' = [pc EXCEPT ![r] = "unlocked"]
    /\ UNCHANGED <<buf, upc, ret>>

(* isr.c:423-424 and 439-449: the line is already complete.                *)
ReadStdinNow(r, count) ==
    /\ pc[r] = "out"
    /\ LineComplete(buf)
    /\ CopyOut(r, count)
    /\ UNCHANGED <<upc, wq, state, pc>>

(* isr.c:431: set_task_state(current, SLEEPING), with uib_lock not held.  *)
ReadSetSleeping(r) ==
    /\ pc[r] = "unlocked"
    /\ state' = [state EXCEPT ![r] = "SLEEPING"]
    /\ pc' = [pc EXCEPT ![r] = "sched"]
    /\ UNCHANGED <<buf, upc, wq, ret>>

(* Mutant: the wake taken as proof of a line (an if for the while): copy  *)
(* out whatever the buffer holds.                                          *)
ReadWokenNoRecheck(r, count) ==
    /\ pc[r] = "sched"
    /\ state[r] = "RUNNING"
    /\ wq' = wq \ {r}
    /\ pc' = [pc EXCEPT ![r] = "out"]
    /\ CopyOut(r, count)
    /\ UNCHANGED <<upc, state>>

(* isr.c:432-437: schedule() returns once the task is RUNNING and picked; *)
(* relock and test again.  A complete line ends the loop: the task stays  *)
(* RUNNING, leaves the queue and copies out (isr.c:439-447).  Otherwise   *)
(* the lock is dropped again (isr.c:430).                                  *)
ReadWoken(r, count) ==
    /\ pc[r] = "sched"
    /\ state[r] = "RUNNING"
    /\ IF LineComplete(buf)
       THEN /\ wq' = wq \ {r}
            /\ pc' = [pc EXCEPT ![r] = "out"]
            /\ CopyOut(r, count)
       ELSE /\ pc' = [pc EXCEPT ![r] = "unlocked"]
            /\ UNCHANGED <<buf, wq, ret>>
    /\ UNCHANGED <<upc, state>>

Next ==
    \/ \E c \in Input : ToLineDiscipline(c)
    \/ WakeUp
    \/ \E r \in Readers :
          \/ ReadStdinWait(r)
          \/ \E n \in Counts : ReadStdinNow(r, n)
          \/ ReadSetSleeping(r)
          \/ \E n \in Counts : ReadWoken(r, n)

(***************************************************************************)
(* Fairness: a raised wake_up runs (the interrupt handler finishes), and a *)
(* reader inside read_stdin runs its next step when it is RUNNING.  Typing *)
(* and starting a read are not fair.                                       *)
(***************************************************************************)
Fairness ==
    /\ WF_vars(WakeUp)
    /\ \A r \in Readers :
         /\ WF_vars(ReadSetSleeping(r))
         /\ WF_vars(\E n \in Counts : ReadWoken(r, n))

Spec == Init /\ [][Next]_vars /\ Fairness

-----------------------------------------------------------------------------

TypeOK ==
    /\ buf \in Seq({"x", "NL"}) /\ Len(buf) <= UART_IN_BUF_LEN - 1
    /\ upc \in {"idle", "wake"}
    /\ wq \subseteq Readers
    /\ state \in [Readers -> {"RUNNING", "SLEEPING"}]
    /\ pc \in [Readers -> {"out", "unlocked", "sched"}]

(* A read that succeeds returns one whole line: at least one character,   *)
(* ending in the newline.  With two readers woken by one wake_up, only    *)
(* the test repeated under uib_lock keeps the second from copying out     *)
(* what the first left.                                                    *)
ReadReturnsLine ==
    \A r \in Readers : ret[r].ok => LineComplete(ret[r].data)

(* A reader inside read_stdin while a complete line sits in the buffer    *)
(* eventually returns (section 5: a blocking read is a suspension point   *)
(* that the input ends).                                                   *)
ReaderReturns ==
    \A r \in Readers : (pc[r] # "out" /\ LineComplete(buf)) ~> pc[r] = "out"

=============================================================================
