\* One core: slots, exit, sleep and wake, and the tick's preemption.
CONSTANTS
    NUM_CPUS = 1
    MAX_NUM_PROCESSES <- MCMaxProcesses
    MaxTime <- MCMaxTime
SPECIFICATION Spec
INVARIANT TypeOK
INVARIANT CurrentIsLive
PROPERTY IdleCoreRunsReadyTask
