\* One core, one sleeper: does every msleep return?
CONSTANTS
    NUM_CPUS = 1
    Sleepers = {s1}
    Timeouts <- MCTimeouts
    MaxTick <- MCMaxTick
    NoTimer = NoTimer
SPECIFICATION Spec
PROPERTY MsleepReturns
