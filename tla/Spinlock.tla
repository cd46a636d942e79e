------------------------------ MODULE Spinlock ------------------------------
(***************************************************************************)
(* One spin lock of src/kernel/spinlock.c (SPIN_LOCK_IN_C) taken by        *)
(* threads on several cores.  spin_lock loops: mask IRQs, LDXR the lock    *)
(* word, and if it is 0 STXR a 1, which succeeds only while the core's     *)
(* exclusive monitor still covers the word; then restore IRQs.  spin_unlock *)
(* does LDXR, then STXR 0 if the word is 1, ignoring the result.  The      *)
(* irqsave variants mask IRQs around the whole call.                       *)
(*                                                                         *)
(* The LDXR and the STXR are separate steps, so another core runs between *)
(* them.  A successful STXR clears every core's monitor; any STXR clears   *)
(* its own.  IRQs are a thread's PSTATE.I (saved and restored with it), so *)
(* masked[t] belongs to the thread.  A timer interrupt on a core whose     *)
(* IRQs are open makes irq_handler call schedule() when the interrupted    *)
(* thread is swapper (pid 0): another thread of that core then runs, and  *)
(* swapper runs again only when that thread leaves the CPU.               *)
(***************************************************************************)
EXTENDS Naturals, FiniteSets

CONSTANTS
    Threads,        \* threads that take the lock
    Cores,
    CoreOf,         \* CoreOf[t]: the core thread t runs on (slot % NUM_CPUS)
    Swapper,        \* the threads that are swapper (pid 0) of their core
    Calls,          \* Calls[t]: "plain" (spin_lock) or "irqsave" calls of t
    SpuriousStxr    \* whether a STXR may fail with the monitor still held

VARIABLES
    lock,       \* lock->data[0]
    mon,        \* mon[c]: core c's exclusive monitor covers the lock word
    masked,     \* masked[t]: IRQs masked in thread t (DAIF.I)
    running,    \* running[c]: the thread on core c
    pc,         \* pc[t]: where t is in its lock and unlock calls
    kind,       \* kind[t]: the call t is in, "plain" or "irqsave"
    v,          \* v[t]: the value t's last LDXR read
    iflags,     \* iflags[t]: flags of local_irq_save in spin_lock/unlock
    oflags      \* oflags[t]: flags of spin_lock_irqsave

vars == <<lock, mon, masked, running, pc, kind, v, iflags, oflags>>

Holds(t) == pc[t] \in {"held", "uldxr", "ustxr"}

(* spin_lock_init zeroes the lock (spinlock.c:8-16); each core runs its   *)
(* swapper, or its one thread; every thread starts with IRQs open         *)
(* (main.c:450, main.c:624).                                               *)
Init ==
    /\ lock = 0
    /\ mon = [c \in Cores |-> FALSE]
    /\ masked = [t \in Threads |-> FALSE]
    /\ running = [c \in Cores |->
                    IF \E s \in Swapper : CoreOf[s] = c
                    THEN CHOOSE s \in Swapper : CoreOf[s] = c
                    ELSE CHOOSE t \in Threads : CoreOf[t] = c]
    /\ pc = [t \in Threads |-> "out"]
    /\ kind = [t \in Threads |-> "plain"]
    /\ v = [t \in Threads |-> 0]
    /\ iflags = [t \in Threads |-> FALSE]
    /\ oflags = [t \in Threads |-> FALSE]

Runs(t) == running[CoreOf[t]] = t

(* spin_lock_irqsave (spinlock.c:112-122) saves and masks IRQs before     *)
(* spin_lock; spin_lock itself starts its loop.                            *)
LockCall(t, k) ==
    /\ Runs(t)
    /\ pc[t] = "out"
    /\ pc' = [pc EXCEPT ![t] = "ldxr"]
    /\ kind' = [kind EXCEPT ![t] = k]
    /\ oflags' = [oflags EXCEPT ![t] = masked[t]]
    /\ masked' = [masked EXCEPT ![t] = (k = "irqsave") \/ @]
    /\ UNCHANGED <<lock, mon, running, v, iflags>>

(* spinlock.c:65-66: local_irq_save, then LDXR.                            *)
LockLdxr(t) ==
    /\ Runs(t)
    /\ pc[t] = "ldxr"
    /\ iflags' = [iflags EXCEPT ![t] = masked[t]]
    /\ masked' = [masked EXCEPT ![t] = TRUE]
    /\ v' = [v EXCEPT ![t] = lock]
    /\ mon' = [mon EXCEPT ![CoreOf[t]] = TRUE]
    /\ pc' = [pc EXCEPT ![t] = "stxr"]
    /\ UNCHANGED <<lock, running, kind, oflags>>

(* Mutant: a store-exclusive that succeeds without the monitor.           *)
StxrOkNoMonitor(t) == TRUE

(* A STXR by t succeeds: its core's monitor still covers the word, and    *)
(* the store did not fail spuriously.                                      *)
StxrOk(t) == mon[CoreOf[t]]

(* Mutant: spin_lock ending with enable_irq() in place of                   *)
(* local_irq_restore(flags).                                               *)
LockRestoreEnable(t) == FALSE

(* The IRQ state local_irq_restore(flags) gives back, spinlock.c:73, 77.  *)
LockRestore(t) == iflags[t]

(* spinlock.c:67-77: if the word read was 0, STXR 1; on success restore   *)
(* IRQs and return holding the lock, otherwise restore IRQs and loop.     *)
LockStxr(t) ==
    /\ Runs(t)
    /\ pc[t] = "stxr"
    /\ masked' = [masked EXCEPT ![t] = LockRestore(t)]
    /\ \E ok \in IF SpuriousStxr THEN {StxrOk(t), FALSE} ELSE {StxrOk(t)} :
          IF v[t] = 0 /\ ok
          THEN /\ lock' = 1
               /\ mon' = [c \in Cores |-> FALSE]
               /\ pc' = [pc EXCEPT ![t] = "held"]
          ELSE /\ mon' = IF v[t] = 0 THEN [mon EXCEPT ![CoreOf[t]] = FALSE] ELSE mon
               /\ pc' = [pc EXCEPT ![t] = "ldxr"]
               /\ UNCHANGED lock
    /\ UNCHANGED <<running, kind, v, iflags, oflags>>

(* The critical section ends: spin_unlock's local_irq_save and LDXR,      *)
(* spinlock.c:91-92.                                                       *)
UnlockLdxr(t) ==
    /\ Runs(t)
    /\ pc[t] = "held"
    /\ iflags' = [iflags EXCEPT ![t] = masked[t]]
    /\ masked' = [masked EXCEPT ![t] = TRUE]
    /\ v' = [v EXCEPT ![t] = lock]
    /\ mon' = [mon EXCEPT ![CoreOf[t]] = TRUE]
    /\ pc' = [pc EXCEPT ![t] = "ustxr"]
    /\ UNCHANGED <<lock, running, kind, oflags>>

(* Mutant: spin_unlock testing for the free value.                         *)
UnlockTestZero(t) == v[t] = 0

(* spinlock.c:93: the word read is the held value.                          *)
UnlockTest(t) == v[t] = 1

(* spinlock.c:93-97, and the local_irq_restore of                          *)
(* spin_unlock_irqrestore (124-133): STXR 0 when the word read was 1,      *)
(* its result ignored; restore IRQs to the caller's flags.                 *)
UnlockStxr(t) ==
    /\ Runs(t)
    /\ pc[t] = "ustxr"
    /\ \E ok \in IF SpuriousStxr THEN {StxrOk(t), FALSE} ELSE {StxrOk(t)} :
          IF UnlockTest(t) /\ ok
          THEN /\ lock' = 0
               /\ mon' = [c \in Cores |-> FALSE]
          ELSE /\ mon' = IF UnlockTest(t) THEN [mon EXCEPT ![CoreOf[t]] = FALSE] ELSE mon
               /\ UNCHANGED lock
    /\ masked' = [masked EXCEPT ![t] = IF kind[t] = "irqsave" THEN oflags[t] ELSE iflags[t]]
    /\ pc' = [pc EXCEPT ![t] = "out"]
    /\ UNCHANGED <<running, kind, v, iflags, oflags>>

(* irq_handler, isr.c:131-145: a tick that interrupts swapper with IRQs   *)
(* open calls schedule(), which runs another ready thread of the core.    *)
Tick(c) ==
    /\ running[c] \in Swapper
    /\ ~masked[running[c]]
    /\ \E t \in Threads \ Swapper :
          /\ CoreOf[t] = c
          /\ running' = [running EXCEPT ![c] = t]
    /\ UNCHANGED <<lock, mon, masked, pc, kind, v, iflags, oflags>>

(* A thread outside any lock call sleeps or exits; schedule() finds no    *)
(* other ready thread and runs swapper (sched.c:101-123).                  *)
Leave(t) ==
    /\ Runs(t)
    /\ t \notin Swapper
    /\ pc[t] = "out"
    /\ \E s \in Swapper :
          /\ CoreOf[s] = CoreOf[t]
          /\ running' = [running EXCEPT ![CoreOf[t]] = s]
    /\ UNCHANGED <<lock, mon, masked, pc, kind, v, iflags, oflags>>

Step(t) == LockLdxr(t) \/ LockStxr(t) \/ UnlockLdxr(t) \/ UnlockStxr(t)

Next ==
    \/ \E t \in Threads : \E k \in Calls[t] : LockCall(t, k)
    \/ \E t \in Threads : Step(t) \/ Leave(t)
    \/ \E c \in Cores : Tick(c)

(* A thread on its CPU keeps executing its lock and unlock code; a        *)
(* critical section ends.  Taking the lock, ticks and leaving the CPU are *)
(* not fair.                                                               *)
Fairness == \A t \in Threads : WF_vars(Step(t))

Spec == Init /\ [][Next]_vars /\ Fairness

-----------------------------------------------------------------------------

TypeOK ==
    /\ lock \in {0, 1}
    /\ mon \in [Cores -> BOOLEAN]
    /\ masked \in [Threads -> BOOLEAN]
    /\ pc \in [Threads -> {"out", "ldxr", "stxr", "held", "uldxr", "ustxr"}]

(* Mutual exclusion: two threads, on different cores, LDXR a free word    *)
(* and both STXR; only the first store may succeed, because it clears the *)
(* other core's monitor.  At most one thread is inside the lock, and then *)
(* the word says it is taken.                                              *)
SpinMutualExclusion ==
    /\ Cardinality({t \in Threads : Holds(t)}) <= 1
    /\ \A t \in Threads : Holds(t) => lock = 1

(* A thread that called spin_lock_irqsave has IRQs masked from the moment *)
(* it holds the lock until it has released it, though spin_lock restores  *)
(* the flags it saved at every turn of its loop: no interrupt on its core *)
(* can run while it holds the lock (the printk ring write relies on it).   *)
(* Back outside the call, its IRQ state is the one it had before.         *)
IrqsaveMasks ==
    \A t \in Threads :
        /\ kind[t] = "irqsave" /\ pc[t] # "out" => masked[t]
        /\ pc[t] = "out" => masked[t] = FALSE

(* A taken lock is eventually free again: every holder reaches its        *)
(* spin_unlock and the STXR 0 lands, whatever the other cores spin on.     *)
LockReleased == (lock = 1) ~> (lock = 0)

=============================================================================
