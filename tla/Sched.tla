------------------------------- MODULE Sched -------------------------------
(***************************************************************************)
(* The task slot table and the scheduler of src/kernel/sched.c, with the   *)
(* timer interrupt's accounting and preemption (irq_handler, isr.c).       *)
(*                                                                         *)
(* tasks[] holds MAX_NUM_PROCESSES slots; slot i runs only on core         *)
(* i % NUM_CPUS (get_next_proc scans i = core_id, core_id + NUM_CPUS, ...) *)
(* and each core falls back to its swapper (idle) task.  A slot is taken  *)
(* by get_task_slot, which also reclaims every STOPPED slot it passes.     *)
(* Everything under tasks_lock is one step.  do_exit writes               *)
(* state = STOPPED without the lock and only then calls schedule(), so it  *)
(* is two steps: between them the exiting task still runs on its core.    *)
(*                                                                         *)
(* Only stime + utime matters to the scheduler, so a slot keeps their sum  *)
(* as time.  The address space, stack and saved context of a task are      *)
(* left to the process module.                                             *)
(***************************************************************************)
EXTENDS Integers, FiniteSets

CONSTANTS
    NUM_CPUS,           \* cores, a build constant
    MAX_NUM_PROCESSES,  \* slots in tasks[]
    MaxTime             \* bound on stime + utime of a slot

ASSUME NUM_CPUS \in Nat \ {0} /\ MAX_NUM_PROCESSES \in Nat \ {0}
ASSUME MaxTime \in Nat

VARIABLES
    in_use,    \* tasks[i].in_use
    state,     \* tasks[i].state
    time,      \* tasks[i].stime + tasks[i].utime
    current,   \* current[c]: the slot core c runs, or SWAPPER
    exiting    \* exiting[c]: the task on c has set STOPPED in do_exit and
               \* not yet switched away

vars == <<in_use, state, time, current, exiting>>

Slots == 0 .. (MAX_NUM_PROCESSES - 1)
Cores == 0 .. (NUM_CPUS - 1)

(* swapper_task_struct[c] lies outside tasks[]; it is named by the index   *)
(* just past the table.  NULL is get_next_proc's "nothing ready".         *)
SWAPPER == MAX_NUM_PROCESSES
NULL == -1

States == {"INITIALIZING", "RUNNING", "SLEEPING", "STOPPED"}

(* The core a slot is bound to by get_next_proc's stride.                 *)
CoreOf(i) == i % NUM_CPUS

(* Mutant: is_task_ready without the state test.                          *)
IsTaskReadyAnyState(st, i) == in_use[i]

(* is_task_ready, sched.c:71-74.                                           *)
IsTaskReady(st, i) == in_use[i] /\ st[i] = "RUNNING"

(***************************************************************************)
(* get_next_proc, sched.c:76-101: among the ready slots of core c the one  *)
(* (states st) with the least stime + utime (times tm), the lowest index  *)
(* on a tie, the test being min_time > proc_time; NULL when none is ready. *)
(***************************************************************************)
GetNextProc(c, st, tm) ==
    LET ready == {i \in Slots : CoreOf(i) = c /\ IsTaskReady(st, i)}
    IN  IF ready = {} THEN NULL
        ELSE CHOOSE i \in ready :
                 \A j \in ready : tm[i] < tm[j] \/ (tm[i] = tm[j] /\ i <= j)

(* Mutant: schedule() without the fallback to the swapper task.           *)
PickNextNoSwapper(c, st, tm) == GetNextProc(c, st, tm)

(* schedule(), sched.c:103-144: the task core c runs next.  When it is the *)
(* current one there is no switch; either way current becomes next.        *)
PickNext(c, st, tm) ==
    IF GetNextProc(c, st, tm) = NULL THEN SWAPPER ELSE GetNextProc(c, st, tm)

Schedule(c, st, tm) == current' = [current EXCEPT ![c] = PickNext(c, st, tm)]

(* free_task_slot, sched.c:186-199: memset the slot to zero.              *)
Zeroed(f, i, zero) == [f EXCEPT ![i] = zero]

(***************************************************************************)
(* get_task_slot, sched.c:201-227: take the first slot not in use; every   *)
(* STOPPED slot before it (all of them when none is free) is reclaimed:    *)
(* TLB entries of its ASID invalidated, in_use cleared, the slot zeroed.   *)
(***************************************************************************)
GetTaskSlot ==
    LET free  == {i \in Slots : ~in_use[i]}
        slot  == IF free = {} THEN NULL
                 ELSE CHOOSE i \in free : \A j \in free : i <= j
        freed == {i \in Slots : in_use[i] /\ state[i] = "STOPPED"
                                /\ (slot = NULL \/ i < slot)}
    IN  [slot    |-> slot,
         in_use  |-> [i \in Slots |-> IF i = slot THEN TRUE
                                      ELSE IF i \in freed THEN FALSE
                                      ELSE in_use[i]],
         state   |-> [i \in Slots |-> IF i \in freed THEN "INITIALIZING" ELSE state[i]],
         time    |-> [i \in Slots |-> IF i \in freed THEN 0 ELSE time[i]]]

Init ==
    /\ in_use = [i \in Slots |-> FALSE]
    /\ state = [i \in Slots |-> "INITIALIZING"]
    /\ time = [i \in Slots |-> 0]
    /\ current = [c \in Cores |-> SWAPPER]
    /\ exiting = [c \in Cores |-> FALSE]

(* The task on core c is in its own code, not inside do_exit.              *)
Running(c) == ~exiting[c]

(***************************************************************************)
(* kernel_thread, sched.c:261-303, called by main as swapper 0 on core 0  *)
(* (main.c:539-594) or, as sys_fork, by a task.  get_task_slot; then kzalloc of the          *)
(* mm_struct either fails, and free_task_slot zeroes the slot, or the      *)
(* stack and context are set and state = RUNNING.  sys_fork (isr.c:167-   *)
(* 295) does the same to the slot table: get_task_slot, then RUNNING or,   *)
(* on any failed allocation, free_task_slot.                               *)
(***************************************************************************)
KernelThread(c) ==
    LET r == GetTaskSlot
    IN  /\ Running(c)
        /\ current[c] = SWAPPER => c = 0
        /\ \E ok \in BOOLEAN :
             IF r.slot = NULL
             THEN /\ in_use' = r.in_use
                  /\ state' = r.state
                  /\ time' = r.time
             ELSE IF ok
             THEN /\ in_use' = r.in_use
                  /\ state' = [r.state EXCEPT ![r.slot] = "RUNNING"]
                  /\ time' = r.time
             ELSE /\ in_use' = Zeroed(r.in_use, r.slot, FALSE)
                  /\ state' = Zeroed(r.state, r.slot, "INITIALIZING")
                  /\ time' = Zeroed(r.time, r.slot, 0)
        /\ UNCHANGED <<current, exiting>>

(* do_exit, sched.c:396-406, first half: t->state = STOPPED, no lock.      *)
DoExitStop(c) ==
    /\ current[c] # SWAPPER
    /\ Running(c)
    /\ state' = [state EXCEPT ![current[c]] = "STOPPED"]
    /\ exiting' = [exiting EXCEPT ![c] = TRUE]
    /\ UNCHANGED <<in_use, time, current>>

(* do_exit, second half: schedule().  It is meant never to come back.      *)
DoExitSchedule(c) ==
    /\ exiting[c]
    /\ Schedule(c, state, time)
    /\ exiting' = [exiting EXCEPT ![c] = FALSE]
    /\ UNCHANGED <<in_use, state, time>>

(***************************************************************************)
(* set_task_state(current, SLEEPING) followed by schedule(): msleep        *)
(* (sched.c:176-184), sys_nanosleep, sys_pause, read_stdin and mutex_lock. *)
(***************************************************************************)
Sleep(c) ==
    /\ current[c] # SWAPPER
    /\ Running(c)
    /\ state' = [state EXCEPT ![current[c]] = "SLEEPING"]
    /\ Schedule(c, state', time)
    /\ UNCHANGED <<in_use, time, exiting>>

(* set_task_state(t, RUNNING) on a sleeping task: process_timeout         *)
(* (sched.c:146-151), wake_up (wait.c) and mutex_unlock (mutex.c).         *)
Wake(i) ==
    /\ state[i] = "SLEEPING"
    /\ state' = [state EXCEPT ![i] = "RUNNING"]
    /\ UNCHANGED <<in_use, time, current, exiting>>

(* Mutant: the timer interrupt without `|| current->pid == 0`.            *)
TickNoIdlePreempt(c, in_user_mode) ==
    LET cur == current[c]
    IN  /\ in_user_mode => (cur # SWAPPER /\ Running(c))
        /\ cur # SWAPPER => time[cur] < MaxTime
        /\ time' = IF cur = SWAPPER THEN time ELSE [time EXCEPT ![cur] = @ + 1]
        /\ IF in_user_mode
           THEN Schedule(c, state, time')
           ELSE UNCHANGED current
        /\ UNCHANGED <<in_use, state, exiting>>

(***************************************************************************)
(* The timer interrupt on core c, irq_handler isr.c:131-152: charge one    *)
(* tick to the current task (utime in user mode, stime otherwise), then    *)
(* schedule() if the interrupted code was in user mode or is the swapper  *)
(* (pid 0).  A task inside do_exit is in the kernel.                       *)
(***************************************************************************)
Tick(c, in_user_mode) ==
    LET cur == current[c]
        tm  == IF cur = SWAPPER THEN time
               ELSE [time EXCEPT ![cur] = @ + 1]
    IN  /\ in_user_mode => (cur # SWAPPER /\ Running(c))
        /\ cur # SWAPPER => time[cur] < MaxTime
        /\ time' = tm
        /\ IF in_user_mode \/ cur = SWAPPER
           THEN Schedule(c, state, tm)
           ELSE UNCHANGED current
        /\ UNCHANGED <<in_use, state, exiting>>

Next ==
    \/ \E c \in Cores : KernelThread(c)
    \/ \E c \in Cores : DoExitStop(c)
    \/ \E c \in Cores : DoExitSchedule(c)
    \/ \E c \in Cores : Sleep(c)
    \/ \E i \in Slots : Wake(i)
    \/ \E c \in Cores, um \in BOOLEAN : Tick(c, um)

(* The per-core timer interrupt keeps firing (config_hw_timer re-arms it   *)
(* on every core, and the swapper waits in wfi with interrupts enabled).  *)
Fairness == \A c \in Cores : WF_vars(\E um \in BOOLEAN : Tick(c, um))

Spec == Init /\ [][Next]_vars /\ Fairness

-----------------------------------------------------------------------------

TypeOK ==
    /\ in_use \in [Slots -> BOOLEAN]
    /\ state \in [Slots -> States]
    /\ time \in [Slots -> 0 .. MaxTime]
    /\ current \in [Cores -> Slots \cup {SWAPPER}]
    /\ exiting \in [Cores -> BOOLEAN]

(* Every core runs its swapper or a live task of its own: a slot in use,   *)
(* bound to that core, RUNNING, or STOPPED while it is still inside        *)
(* do_exit.  Broken when a slot is reclaimed or woken under the task that  *)
(* runs on it, or when schedule() picks a task that is not ready.          *)
CurrentIsLive ==
    \A c \in Cores : current[c] # SWAPPER =>
        LET t == current[c]
        IN  /\ in_use[t]
            /\ CoreOf(t) = c
            /\ \/ state[t] = "RUNNING"
               \/ exiting[c] /\ state[t] = "STOPPED"

(* get_task_slot reclaims a STOPPED slot (clears in_use and zeroes it)    *)
(* only when no core is still running the task in it: section 5 says a   *)
(* slot is reclaimed only after its stop "is later observed".  The slot's *)
(* kernel stack is the one the exiting task is still running on.          *)
NoReclaimOfRunningTask ==
    [][\A i \in Slots :
         (in_use[i] /\ ~in_use'[i]) => \A c \in Cores : current[c] # i]_vars

(* A core left in its swapper while one of its tasks is ready eventually *)
(* runs a task: the timer interrupt preempts the swapper (pid 0).         *)
IdleCoreRunsReadyTask ==
    \A i \in Slots :
        (IsTaskReady(state, i) /\ current[CoreOf(i)] = SWAPPER)
            ~> current[CoreOf(i)] # SWAPPER

=============================================================================
