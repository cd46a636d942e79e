------------------------------- MODULE MCSync -------------------------------
(***************************************************************************)
(* The kernel's synchronisation primitives checked in one model: the      *)
(* spin lock (Spinlock) and the two sleep-and-wake protocols built over   *)
(* it, the sleeping mutex (Mutex) and the console read (Stdin).  The three *)
(* share no state, so interleaving their steps adds nothing to what each  *)
(* property, which is about one of them, can observe: the model is their  *)
(* sum, in which `part' chooses the component a behaviour drives while    *)
(* the others stay in their initial states.  Each keeps its fairness; no   *)
(* fair action of a component is enabled in its initial state.  The timer *)
(* list and msleep (Timer), the other sleep-and-wake protocol, are added  *)
(* without their fairness: the property checked of them here is safety,  *)
(* and their liveness is the timer_lost run of MCTimer.                   *)
(***************************************************************************)
EXTENDS Naturals, TLC

CONSTANTS Tasks, WaitingBits, Readers, Counts, Input, UART_IN_BUF_LEN,
          Threads, Cores, CoreOf, Swapper, Calls, SpuriousStxr, s0, t0, t1,
          NUM_CPUS, Sleepers, Timeouts, MaxTick, NoTimer

VARIABLES mstate, waiting, mtask, mpc, buf, upc, wq, rstate, rpc, ret,
          lock, mon, masked, running, lpc, kind, lv, iflags, oflags,
          tick, pending, sirq, timers, expires, tstate, tpc, timeout, part

mvars == <<mstate, waiting, mtask, mpc>>
svars == <<buf, upc, wq, rstate, rpc, ret>>
lvars == <<lock, mon, masked, running, lpc, kind, lv, iflags, oflags>>
tvars == <<tick, pending, sirq, timers, expires, tstate, tpc, timeout>>
vars == <<mvars, svars, lvars, tvars, part>>

M == INSTANCE Mutex WITH state <- mtask, pc <- mpc
S == INSTANCE Stdin WITH state <- rstate, pc <- rpc
L == INSTANCE Spinlock WITH pc <- lpc, v <- lv
T == INSTANCE Timer WITH state <- tstate, pc <- tpc

(* Core 0 runs swapper s0, which main() uses to create the kernel threads *)
(* with IRQs open (main.c:450-539), and t0, the thread of slot 0; core 1  *)
(* runs t1.                                                                *)
MCCoreOf == [t \in {s0, t0, t1} |-> IF t = t1 THEN 1 ELSE 0]

(* Swapper's kernel_thread takes tasks_lock with spin_lock_irqsave        *)
(* (sched.c:206); t0 takes locks both ways (the mutex's p->lock plainly,  *)
(* mutex.c:25, and irqsave ones); t1 the mutex's p->lock.                  *)
MCCalls == (s0 :> {"irqsave"}) @@ (t0 :> {"plain", "irqsave"}) @@ (t1 :> {"plain"})

(* Counts: one too small for a line of two characters, and one that takes *)
(* any line the buffer holds, as the shell's 256 does.                    *)
MCCounts == {1, 2}

MCInput == {"x", "CR", "NL", "BS"}

(* One-tick sleeps, tick stopped at 4, as in MCTimer.                     *)
MCTimeouts == {1}
MCMaxTick == 4

Init ==
    /\ part \in {"mutex", "stdin", "spinlock", "timer"}
    /\ M!Init /\ S!Init /\ L!Init /\ T!Init

Next ==
    \/ part = "mutex" /\ M!Next /\ UNCHANGED <<svars, lvars, tvars, part>>
    \/ part = "stdin" /\ S!Next /\ UNCHANGED <<mvars, lvars, tvars, part>>
    \/ part = "spinlock" /\ L!Next /\ UNCHANGED <<mvars, svars, tvars, part>>
    \/ part = "timer" /\ T!Next /\ UNCHANGED <<mvars, svars, lvars, part>>

Spec == Init /\ [][Next]_vars /\ M!Fairness /\ S!Fairness /\ L!Fairness

MutexTypeOK == M!TypeOK
StdinTypeOK == S!TypeOK
TimerTypeOK == T!TypeOK

(* run_timer_softirq only calls a timer that is unlinked, whose msleep is *)
(* still inside schedule_timeout, and that the other core is not calling  *)
(* (Timer).                                                                *)
CallbackOnLiveTimer == T!CallbackOnLiveTimer

(* At most one thread holds the spin lock, and then its word is 1          *)
(* (Spinlock).                                                             *)
SpinMutualExclusion == L!SpinMutualExclusion

(* An irqsave holder has IRQs masked until it releases, and IRQs are back *)
(* as they were after the call (Spinlock).                                 *)
IrqsaveMasks == L!IrqsaveMasks

(* A taken spin lock is eventually free again (Spinlock).                  *)
LockReleased == L!LockReleased

(* Every task asleep in mutex_lock is in the waiter bitmap (Mutex).        *)
WaiterRecorded == M!WaiterRecorded

(* While a task sleeps in mutex_lock, some task eventually holds the      *)
(* mutex (Mutex).                                                          *)
MutexProgress == M!MutexProgress

(* A successful read_stdin returns one whole line (Stdin).                 *)
ReadReturnsLine == S!ReadReturnsLine

=============================================================================
