------------------------------- MODULE Mutex -------------------------------
(***************************************************************************)
(* The sleeping mutex of src/kernel/mutex.c.                               *)
(*                                                                         *)
(* A mutex is its state and the waiter bitmap `waiting', an unsigned int.  *)
(* mutex_lock loops: under p->lock it takes an unlocked mutex, or records  *)
(* its pid with waiting |= 1ULL << pid, marks itself SLEEPING, drops the   *)
(* lock and calls schedule().  mutex_unlock, under p->lock, unlocks and    *)
(* wakes the waiter of lowest bit when that pid is > 0.  Each region under *)
(* p->lock is one step; the gap between the unlock and schedule()          *)
(* returning is where a woken task waits for its core.                    *)
(*                                                                         *)
(* The bitmap is the set of its set bits.  1ULL << pid is a 64-bit value  *)
(* with bit pid set; or-ing it into the unsigned int keeps bits below     *)
(* WaitingBits only.                                                      *)
(***************************************************************************)
EXTENDS Integers, FiniteSetsExt

CONSTANTS
    Tasks,        \* pids of the tasks that use the mutex: tasks[i].pid = i + 1
    WaitingBits   \* (sizeof (m->waiting)) * 8

ASSUME Tasks \subseteq Nat \ {0} /\ WaitingBits \in Nat

VARIABLES
    mstate,    \* p->state: "UNLOCKED" or "LOCKED"
    waiting,   \* p->waiting, as the set of its bits
    state,     \* state[t]: tasks[t - 1].state, "RUNNING" or "SLEEPING"
    pc         \* pc[t]: "out", "lock" (at the top of the loop), "sched"
               \* (inside schedule()), "cs" (holding the mutex)

vars == <<mstate, waiting, state, pc>>

(* The assignment of a 64-bit value to the unsigned int waiting.           *)
Truncate(bits) == {b \in bits : b < WaitingBits}

(* get_next_waiting, mutex.c:42-54: the lowest set bit below max_pid, or -1. *)
GetNextWaiting(w) ==
    LET set == {i \in 0 .. (WaitingBits - 1) : i \in w}
    IN  IF set = {} THEN -1 ELSE Min(set)

(* init_mutex, mutex.c:5-15; every task starts outside mutex_lock.         *)
Init ==
    /\ mstate = "UNLOCKED"
    /\ waiting = {}
    /\ state = [t \in Tasks |-> "RUNNING"]
    /\ pc = [t \in Tasks |-> "out"]

(* A task calls mutex_lock (test_mutex, main.c:407).                       *)
MutexLockCall(t) ==
    /\ pc[t] = "out"
    /\ pc' = [pc EXCEPT ![t] = "lock"]
    /\ UNCHANGED <<mstate, waiting, state>>

(* mutex.c:25-30: the mutex is free; take it and leave the loop.           *)
MutexLockAcquire(t) ==
    /\ pc[t] = "lock"
    /\ mstate = "UNLOCKED"
    /\ mstate' = "LOCKED"
    /\ pc' = [pc EXCEPT ![t] = "cs"]
    /\ UNCHANGED <<waiting, state>>

(* Mutant: the bit of the slot index (pid - 1) recorded instead of the pid. *)
MutexLockWaitSlotIndex(t) ==
    /\ pc[t] = "lock"
    /\ mstate = "LOCKED"
    /\ waiting' = Truncate(waiting \cup {t - 1})
    /\ state' = [state EXCEPT ![t] = "SLEEPING"]
    /\ pc' = [pc EXCEPT ![t] = "sched"]
    /\ UNCHANGED mstate

(* mutex.c:31-36: the mutex is held; record the pid in waiting, mark the  *)
(* task SLEEPING (set_task_state) and drop p->lock.                        *)
MutexLockWait(t) ==
    /\ pc[t] = "lock"
    /\ mstate = "LOCKED"
    /\ waiting' = Truncate(waiting \cup {t})
    /\ state' = [state EXCEPT ![t] = "SLEEPING"]
    /\ pc' = [pc EXCEPT ![t] = "sched"]
    /\ UNCHANGED mstate

(* mutex.c:37: schedule() returns once the task is RUNNING again and its   *)
(* core picks it; the loop goes back to the top.                           *)
ScheduleReturn(t) ==
    /\ pc[t] = "sched"
    /\ state[t] = "RUNNING"
    /\ pc' = [pc EXCEPT ![t] = "lock"]
    /\ UNCHANGED <<mstate, waiting, state>>

(* Mutants of mutex_unlock: the whole bitmap cleared instead of one bit;   *)
(* the bit cleared but the waiter not woken.                               *)
MutexUnlockClearAll(t) ==
    LET pid == GetNextWaiting(waiting)
    IN  /\ pc[t] = "cs"
        /\ mstate' = "UNLOCKED"
        /\ waiting' = IF pid > 0 THEN {} ELSE waiting
        /\ state' = IF pid > 0 THEN [state EXCEPT ![pid] = "RUNNING"] ELSE state
        /\ pc' = [pc EXCEPT ![t] = "out"]

MutexUnlockNoWake(t) ==
    LET pid == GetNextWaiting(waiting)
    IN  /\ pc[t] = "cs"
        /\ mstate' = "UNLOCKED"
        /\ waiting' = IF pid > 0 THEN waiting \ {pid} ELSE waiting
        /\ pc' = [pc EXCEPT ![t] = "out"]
        /\ UNCHANGED state

(* mutex_unlock, mutex.c:56-73: unlock, and wake the lowest waiting pid   *)
(* if it is > 0, clearing its bit.                                         *)
MutexUnlock(t) ==
    LET pid == GetNextWaiting(waiting)
    IN  /\ pc[t] = "cs"
        /\ mstate' = "UNLOCKED"
        /\ waiting' = IF pid > 0 THEN waiting \ {pid} ELSE waiting
        /\ state' = IF pid > 0 THEN [state EXCEPT ![pid] = "RUNNING"] ELSE state
        /\ pc' = [pc EXCEPT ![t] = "out"]

Next ==
    \E t \in Tasks :
        \/ MutexLockCall(t)
        \/ MutexLockAcquire(t)
        \/ MutexLockWait(t)
        \/ ScheduleReturn(t)
        \/ MutexUnlock(t)

(***************************************************************************)
(* Fairness: a task inside mutex_lock or holding the mutex keeps running   *)
(* kernel code to its next step (test_mutex unlocks after its msleep); a  *)
(* RUNNING task gets its core back.  Calling mutex_lock is not fair.       *)
(***************************************************************************)
Fairness ==
    \A t \in Tasks :
        /\ WF_vars(MutexLockAcquire(t) \/ MutexLockWait(t))
        /\ WF_vars(ScheduleReturn(t))
        /\ WF_vars(MutexUnlock(t))

Spec == Init /\ [][Next]_vars /\ Fairness

-----------------------------------------------------------------------------

TypeOK ==
    /\ mstate \in {"UNLOCKED", "LOCKED"}
    /\ waiting \subseteq Tasks
    /\ state \in [Tasks -> {"RUNNING", "SLEEPING"}]
    /\ pc \in [Tasks -> {"out", "lock", "sched", "cs"}]

(* Every task asleep in mutex_lock is recorded in the waiter bitmap, so    *)
(* some mutex_unlock will find it with get_next_waiting.  It takes a pid   *)
(* that fits the bitmap, and an unlock that clears only the bit of the    *)
(* task it wakes.                                                          *)
WaiterRecorded ==
    \A t \in Tasks : (pc[t] = "sched" /\ state[t] = "SLEEPING") => t \in waiting

(* While a task sleeps in mutex_lock, some task eventually holds the mutex: *)
(* the holder's unlock wakes a waiter, and that waiter either takes the    *)
(* mutex or finds another task holding it.                                 *)
MutexProgress ==
    (\E t \in Tasks : pc[t] = "sched" /\ state[t] = "SLEEPING")
        ~> (\E t \in Tasks : pc[t] = "cs")

=============================================================================
