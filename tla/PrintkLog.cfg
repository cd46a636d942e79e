\* A 3-byte ring (two usable bytes, one line), a 2-byte scratch
\* buffer, a task and an interrupt printing on one core, the UART reading;
\* and printk's formatting with int scaled to 16 bits and pointers to
\* 3 bytes, on cores 0 and 1; string.h on the AArch64 build (char
\* unsigned), and the shell with a 6-byte buffer and lines of up to 6 bytes.
CONSTANTS
    LOG_BUF_SIZE = 3
    TMP_PRINTK_BUF_LEN = 2
    TaskTexts <- MCTaskTexts
    IrqTexts <- MCIrqTexts
    Lengths <- MCLengths
    Blank = Blank
    INT_BITS = 16
    PTR_BYTES = 3
    CNTFRQ_EL0_VALUE = 4
    TimerCounts <- MCTimerCounts
    Cores = {0, 1}
    Formats <- MCFormats
    Ints <- MCInts
    Ptrs <- MCPtrs
    Strs <- MCStrs
    CharArgs = {"q"}
    NULL = NULL
    CHAR_SIGNED = FALSE
    Bufs <- MCBufs
    Dests <- MCDests
    Ns = {0, 1, 2, 3}
    Cs = {0, 97, 200}
    LINE_BUF_SIZE = 6
    UART_IN_BUF_LEN = 7
    Inputs <- MCInputs
    Garbage = {0, 112}
SPECIFICATION SumSpec
INVARIANTS
    TypeOK
    PrintkLineIntact
    ConversionFaithful
    CountMatchesOutput
    StrcmpFaithful
    StringOpsFaithful
    ShellUsesOnlyLine
PROPERTY QueueSpec
