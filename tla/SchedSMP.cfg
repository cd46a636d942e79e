\* Two cores: a fork on core 1 scans the whole table while the task in
\* slot 0 is between state = STOPPED and its switch on core 0.
CONSTANTS
    NUM_CPUS = 2
    MAX_NUM_PROCESSES <- MCMaxProcesses
    MaxTime <- MCMaxTime
SPECIFICATION Spec
PROPERTY NoReclaimOfRunningTask
