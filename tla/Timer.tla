------------------------------- MODULE Timer -------------------------------
(***************************************************************************)
(* The tick, the timer list and the timer softirq (src/kernel/hw_timer.c,  *)
(* timer.c, softirq.c), driven by tasks sleeping in msleep /               *)
(* schedule_timeout (src/kernel/sched.c).                                  *)
(*                                                                         *)
(* Every core takes timer interrupts; only core 0 advances tick.  The     *)
(* interrupt raises the timer softirq, and do_softirq runs it later on the *)
(* same core: irq_handler calls schedule() before do_softirq, so a switch *)
(* can put any number of ticks between the two.  run_timer_softirq reads   *)
(* tick once and fires each listed timer whose expires equals it: under    *)
(* timerlist_lock it unlinks the timer, then drops the lock and calls      *)
(* process_timeout, which sets the owner RUNNING.                          *)
(*                                                                         *)
(* A sleeper is a task in msleep; its timer lives in schedule_timeout's    *)
(* stack frame and is named by the sleeper.  The scheduler is abstracted:  *)
(* a RUNNING sleeper parked in schedule() eventually runs again.           *)
(*                                                                         *)
(* tick is a 64-bit counter and never wraps in practice.  The model stops  *)
(* it at MaxTick and only computes an expiry below MaxTick, so every      *)
(* expires compared later is below the stopped tick, as it would be below *)
(* the real, still growing, one.                                          *)
(***************************************************************************)
EXTENDS Integers, FiniteSets

CONSTANTS
    NUM_CPUS,   \* cores
    Sleepers,   \* tasks that call msleep (model values)
    Timeouts,   \* msleep lengths in ticks: (msecs + TICK - 1) / TICK
    MaxTick,    \* where the model stops tick
    NoTimer     \* cur when run_timer_softirq holds no timer (a model value)

ASSUME NUM_CPUS \in Nat \ {0} /\ Timeouts \subseteq Nat \ {0} /\ MaxTick \in Nat
ASSUME NoTimer \notin Sleepers

VARIABLES
    tick,      \* hw_timer.c tick
    pending,   \* pending[c]: the timer bit of __softirq_pending on core c
    sirq,      \* sirq[c]: run_timer_softirq on c: phase, the tick it read,
               \* and the timer it is firing
    timers,    \* the sleepers whose timer is linked in the list at head
    expires,   \* expires[s]: timer.expires of s's current timer
    state,     \* state[s]: "RUNNING" or "SLEEPING"
    pc,        \* pc[s]: where s is in msleep / schedule_timeout
    timeout    \* timeout[s]: msleep's remaining timeout

vars == <<tick, pending, sirq, timers, expires, state, pc, timeout>>

Cores == 0 .. (NUM_CPUS - 1)

Idle == [ph |-> "idle", tk |-> 0, tmr |-> NoTimer]

Init ==
    /\ tick = 0
    /\ pending = [c \in Cores |-> FALSE]
    /\ sirq = [c \in Cores |-> Idle]
    /\ timers = {}
    /\ expires = [s \in Sleepers |-> 0]
    /\ state = [s \in Sleepers |-> "RUNNING"]
    /\ pc = [s \in Sleepers |-> "run"]
    /\ timeout = [s \in Sleepers |-> 0]

(***************************************************************************)
(* The interrupt side.                                                     *)
(***************************************************************************)

(* handle_timer_irq, hw_timer.c:32-44: core 0 advances tick; every core    *)
(* raises SOFTIRQ_TIMER (softirq.c:39-51).                                 *)
HandleTimerIrq(c) ==
    /\ tick' = IF c = 0 /\ tick < MaxTick THEN tick + 1 ELSE tick
    /\ pending' = [pending EXCEPT ![c] = TRUE]
    /\ UNCHANGED <<sirq, timers, expires, state, pc, timeout>>

(* do_softirq, softirq.c:58-83, with the timer bit set: take and clear the *)
(* pending bits; run_timer_softirq reads tick (timer.c:109).  The         *)
(* nested_softirq_count test keeps one run per core at a time.            *)
DoSoftirq(c) ==
    /\ pending[c]
    /\ sirq[c].ph = "idle"
    /\ pending' = [pending EXCEPT ![c] = FALSE]
    /\ sirq' = [sirq EXCEPT ![c] = [ph |-> "scan", tk |-> tick, tmr |-> NoTimer]]
    /\ UNCHANGED <<tick, timers, expires, state, pc, timeout>>

(* Mutant: the timer is left linked while its function is called.         *)
RunTimerFindNoDel(c) ==
    /\ sirq[c].ph = "scan"
    /\ \E s \in timers :
         /\ expires[s] = sirq[c].tk
         /\ sirq' = [sirq EXCEPT ![c] = [@ EXCEPT !.ph = "call", !.tmr = s]]
    /\ UNCHANGED <<tick, pending, timers, expires, state, pc, timeout>>

(* run_timer_softirq, timer.c:111-116: under the lock, a listed timer with *)
(* expires == tick is unlinked (_del_timer, timer.c:46-63); the lock is    *)
(* dropped before its function runs.  The walk restarts at head after each *)
(* call, so every matching timer is fired in this run, in some order.      *)
RunTimerFind(c) ==
    /\ sirq[c].ph = "scan"
    /\ \E s \in timers :
         /\ expires[s] = sirq[c].tk
         /\ timers' = timers \ {s}
         /\ sirq' = [sirq EXCEPT ![c] = [@ EXCEPT !.ph = "call", !.tmr = s]]
    /\ UNCHANGED <<tick, pending, expires, state, pc, timeout>>

(* timer.c:117-119: cur->function(cur->data), i.e. process_timeout        *)
(* (sched.c:146-151) setting the owner RUNNING; then relock, back to head. *)
RunTimerCall(c) ==
    /\ sirq[c].ph = "call"
    /\ state' = [state EXCEPT ![sirq[c].tmr] = "RUNNING"]
    /\ sirq' = [sirq EXCEPT ![c] = [@ EXCEPT !.ph = "scan", !.tmr = NoTimer]]
    /\ UNCHANGED <<tick, pending, timers, expires, pc, timeout>>

(* timer.c:120-124: no listed timer expires at the tick read; unlock.      *)
RunTimerDone(c) ==
    /\ sirq[c].ph = "scan"
    /\ \A s \in timers : expires[s] # sirq[c].tk
    /\ sirq' = [sirq EXCEPT ![c] = Idle]
    /\ UNCHANGED <<tick, pending, timers, expires, state, pc, timeout>>

(***************************************************************************)
(* The sleeper side: msleep (sched.c:176-184) and schedule_timeout        *)
(* (sched.c:153-174), one statement group per step.                        *)
(***************************************************************************)

(* Mutant: msleep without set_task_state(current, SLEEPING).               *)
MsleepNoSleeping(s, t) ==
    /\ pc[s] = "run"
    /\ timeout' = [timeout EXCEPT ![s] = t]
    /\ pc' = [pc EXCEPT ![s] = "read"]
    /\ UNCHANGED <<tick, pending, sirq, timers, expires, state>>

(* msleep(msecs), sched.c:176-181: timeout = t ticks, then the task marks *)
(* itself SLEEPING (under tasks_lock) before schedule_timeout.            *)
Msleep(s, t) ==
    /\ pc[s] = "run"
    /\ timeout' = [timeout EXCEPT ![s] = t]
    /\ state' = [state EXCEPT ![s] = "SLEEPING"]
    /\ pc' = [pc EXCEPT ![s] = "read"]
    /\ UNCHANGED <<tick, pending, sirq, timers, expires>>

(* schedule_timeout, sched.c:159-163: expires = timeout + get_tick().      *)
ScheduleTimeoutStart(s) ==
    /\ pc[s] = "read"
    /\ timeout[s] + tick < MaxTick
    /\ expires' = [expires EXCEPT ![s] = timeout[s] + tick]
    /\ pc' = [pc EXCEPT ![s] = "add"]
    /\ UNCHANGED <<tick, pending, sirq, timers, state, timeout>>

(* add_timer, timer.c:32-44 (sched.c:164): link the timer at head.         *)
AddTimer(s) ==
    /\ pc[s] = "add"
    /\ timers' = timers \cup {s}
    /\ pc' = [pc EXCEPT ![s] = "sched"]
    /\ UNCHANGED <<tick, pending, sirq, expires, state, timeout>>

(* schedule(), sched.c:165: a SLEEPING task is switched out and comes back *)
(* only once something set it RUNNING and its core picked it.              *)
ScheduleBack(s) ==
    /\ pc[s] = "sched"
    /\ state[s] = "RUNNING"
    /\ pc' = [pc EXCEPT ![s] = "del"]
    /\ UNCHANGED <<tick, pending, sirq, timers, expires, state, timeout>>

(* del_timer, timer.c:65-77 (sched.c:166): unlink it if still linked.      *)
DelTimer(s) ==
    /\ pc[s] = "del"
    /\ timers' = timers \ {s}
    /\ pc' = [pc EXCEPT ![s] = "ret"]
    /\ UNCHANGED <<tick, pending, sirq, expires, state, timeout>>

(* Mutant: the remaining ticks returned without the delta < 0 test.       *)
ScheduleTimeoutReturnNoClamp(s) ==
    LET left == expires[s] - tick
    IN  /\ pc[s] = "ret"
        /\ timeout' = [timeout EXCEPT ![s] = left]
        /\ pc' = [pc EXCEPT ![s] = IF left = 0 THEN "run" ELSE "read"]
        /\ state' = [state EXCEPT ![s] = IF left = 0 THEN @ ELSE "SLEEPING"]
        /\ UNCHANGED <<tick, pending, sirq, timers, expires>>

(* sched.c:168-173 and msleep's loop, sched.c:180-183: the remaining       *)
(* ticks, zero once expired; msleep returns at zero and sleeps again       *)
(* otherwise.  The stack frame holding the timer is gone from here on.     *)
(* Only the expiry callback wakes an msleep sleeper, so left is 0 in every *)
(* reachable state; the loop is kept as the code has it.                  *)
ScheduleTimeoutReturn(s) ==
    LET delta == expires[s] - tick
        left  == IF delta < 0 THEN 0 ELSE delta
    IN  /\ pc[s] = "ret"
        /\ timeout' = [timeout EXCEPT ![s] = left]
        /\ pc' = [pc EXCEPT ![s] = IF left = 0 THEN "run" ELSE "read"]
        /\ state' = [state EXCEPT ![s] = IF left = 0 THEN @ ELSE "SLEEPING"]
        /\ UNCHANGED <<tick, pending, sirq, timers, expires>>

Next ==
    \/ \E c \in Cores : HandleTimerIrq(c)
    \/ \E c \in Cores : DoSoftirq(c)
    \/ \E c \in Cores : RunTimerFind(c)
    \/ \E c \in Cores : RunTimerCall(c)
    \/ \E c \in Cores : RunTimerDone(c)
    \/ \E s \in Sleepers, t \in Timeouts : Msleep(s, t)
    \/ \E s \in Sleepers : ScheduleTimeoutStart(s)
    \/ \E s \in Sleepers : AddTimer(s)
    \/ \E s \in Sleepers : ScheduleBack(s)
    \/ \E s \in Sleepers : DelTimer(s)
    \/ \E s \in Sleepers : ScheduleTimeoutReturn(s)

(***************************************************************************)
(* Fairness.  The per-core timer keeps interrupting; a raised softirq runs *)
(* at the latest when the core next leaves an interrupt; a softirq run    *)
(* finishes its walk; a sleeper that is RUNNING gets its core back.        *)
(* Starting a sleep is the task's choice and is not fair.                  *)
(***************************************************************************)
Fairness ==
    /\ \A c \in Cores :
         /\ WF_vars(HandleTimerIrq(c))
         /\ WF_vars(DoSoftirq(c))
         /\ WF_vars(RunTimerFind(c))
         /\ WF_vars(RunTimerCall(c))
         /\ WF_vars(RunTimerDone(c))
    /\ \A s \in Sleepers :
         /\ WF_vars(ScheduleTimeoutStart(s))
         /\ WF_vars(AddTimer(s))
         /\ WF_vars(ScheduleBack(s))
         /\ WF_vars(DelTimer(s))
         /\ WF_vars(ScheduleTimeoutReturn(s))

Spec == Init /\ [][Next]_vars /\ Fairness

-----------------------------------------------------------------------------

TypeOK ==
    /\ tick \in 0 .. MaxTick
    /\ pending \in [Cores -> BOOLEAN]
    /\ \A c \in Cores : sirq[c].ph \in {"idle", "scan", "call"}
    /\ timers \subseteq Sleepers
    /\ state \in [Sleepers -> {"RUNNING", "SLEEPING"}]
    /\ pc \in [Sleepers -> {"run", "read", "add", "sched", "del", "ret"}]
    /\ timeout \in [Sleepers -> Nat]

(* A timer's function runs while its timer is still live: the timer is     *)
(* unlinked (no other core can pick it up) and its owner is still inside   *)
(* schedule_timeout, so the frame that holds cur->function and cur->data  *)
(* (read after the unlock, timer.c:117) has not been popped.  Nor is one  *)
(* timer fired on two cores at once.                                      *)
CallbackOnLiveTimer ==
    \A c \in Cores : sirq[c].ph = "call" =>
        LET s == sirq[c].tmr
        IN  /\ s \notin timers
            /\ pc[s] \in {"sched", "del"}
            /\ \A d \in Cores \ {c} : ~(sirq[d].ph = "call" /\ sirq[d].tmr = s)

(* Section 4.5: schedule_timeout registers a timer that sets the caller    *)
(* RUNNING after the timeout, so every msleep returns.                    *)
MsleepReturns ==
    \A s \in Sleepers : pc[s] = "sched" ~> pc[s] = "ret"

=============================================================================
