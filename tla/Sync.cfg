\* Three mutex tasks with pids that fit the waiter bitmap; two readers and
\* a console buffer of UART_IN_BUF_LEN = 3 (two characters stored); a spin
\* lock taken by swapper and a thread on core 0 and a thread on core 1;
\* two cores and two one-tick sleepers on the timer list.
CONSTANTS
    Tasks = {1, 2, 3}
    WaitingBits = 32
    Readers = {r1, r2}
    Counts <- MCCounts
    Input <- MCInput
    UART_IN_BUF_LEN = 3
    s0 = s0
    t0 = t0
    t1 = t1
    Threads = {s0, t0, t1}
    Cores = {0, 1}
    CoreOf <- MCCoreOf
    Swapper = {s0}
    Calls <- MCCalls
    SpuriousStxr = FALSE
    NUM_CPUS = 2
    Sleepers = {sl1, sl2}
    Timeouts <- MCTimeouts
    MaxTick <- MCMaxTick
    NoTimer = NoTimer
SPECIFICATION Spec
INVARIANTS
    MutexTypeOK
    StdinTypeOK
    WaiterRecorded
    ReadReturnsLine
    SpinMutualExclusion
    IrqsaveMasks
    TimerTypeOK
    CallbackOnLiveTimer
PROPERTIES
    MutexProgress
    LockReleased
