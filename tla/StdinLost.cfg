\* One reader.
CONSTANTS
    Readers = {r1}
    Counts <- MCCounts
    Input <- MCInput
    UART_IN_BUF_LEN = 3
SPECIFICATION Spec
PROPERTY
    ReaderReturns
