------------------------------- MODULE Shell -------------------------------
(***************************************************************************)
(* The user shell, shell_main in src/usr/user_init.c: print a prompt,     *)
(* read(0, buf, sizeof buf) into a stack buffer that is never cleared,    *)
(* and match the line with strncmp against "help" and "man"; print the    *)
(* help text, or echo the line without its newline and ": command not     *)
(* found".  read and write are the wrappers of src/usr/unistd.c; the      *)
(* kernel's read_stdin (isr.c) returns the bytes of uart_in_buf once the  *)
(* last of them is a newline (its wait is the Stdin module's, whose       *)
(* ReadReturnsLine says it returns such a line).  One step is one turn of *)
(* the shell's loop.                                                       *)
(***************************************************************************)
EXTENDS StringLib

CONSTANTS
    LINE_BUF_SIZE,  \* sizeof buf, user_init.c:142
    UART_IN_BUF_LEN, \* uart.c:16
    Inputs,          \* what the user types before Enter
    Garbage         \* the bytes an uninitialized stack buffer may hold

VARIABLES
    buf,    \* shell_main's buf: LINE_BUF_SIZE bytes
    ret,    \* what read returned
    typed,  \* the text the last line holds before its newline
    read,   \* how many bytes of buf the two strncmp calls read
    out     \* what the last turn wrote to fd 1

vars == <<buf, ret, typed, read, out>>

NL == 10

(* The literals of user_init.c:151, with their terminators.               *)
HELP == <<104, 101, 108, 112, NUL>>
MAN  == <<109, 97, 110, NUL>>

(* The contents uart_in_buf may have when the shell calls read: a line    *)
(* ended by Enter (uart.c:124-131 turns '\r' into '\n'), or a line not    *)
(* finished yet; to_line_discipline keeps at most UART_IN_BUF_LEN - 1     *)
(* bytes (uart.c:129).                                                     *)
UartLines == {l \in {t \o <<NL>> : t \in Inputs} \cup (Inputs \ {<< >>}) :
                Len(l) <= UART_IN_BUF_LEN - 1}

(* 255 bytes of uart_in_buf fit in the 256 of buf: read never returns -1  *)
(* to the shell, and its "if (ret > 0)" (user_init.c:148) always holds.   *)
ASSUME UART_IN_BUF_LEN - 1 <= LINE_BUF_SIZE

(* buf holds garbage: it is an uninitialized local (user_init.c:142).      *)
Init ==
    /\ buf \in [1 .. LINE_BUF_SIZE -> Garbage]
    /\ ret = 0
    /\ typed = << >>
    /\ read = 0
    /\ out = << >>

(* Mutant: read_stdin returning as soon as the buffer is not empty.       *)
LineReadyAny(b) == Len(b) > 0

(* read_stdin's wait condition, isr.c:424 and 429: the buffer ends with a *)
(* newline.                                                                *)
LineReady(b) == Len(b) > 0 /\ b[Len(b)] = NL

(* read (unistd.c:128-147) into buf: read_stdin returns -1 when count is  *)
(* smaller than the line (isr.c:439-443), which the ASSUME rules out, else *)
(* memcpy's the line into buf and returns its length (isr.c:444-449).     *)
ReadResult(in) == IF LINE_BUF_SIZE < Len(in) THEN -1 ELSE Len(in)

ReadInto(in) == [i \in 1 .. LINE_BUF_SIZE |-> IF i <= Len(in) THEN in[i] ELSE buf[i]]

(* One turn of shell_main's loop, user_init.c:145-162, on the line in:    *)
(* strncmp(buf, "help", 4) and, when it is not 0, strncmp(buf, "man", 3)  *)
(* (the || short-circuits); then the help text, the echo of ret - 1 bytes *)
(* and the error text, or nothing for an empty line.  write (unistd.c:    *)
(* 149-169) passes fd 1 and a non-NULL buf to the kernel.                  *)
ShellLine(in) ==
    LET r  == ReadResult(in)
        b  == ReadInto(in)
        c1 == strncmp(b, HELP, 4)
        c2 == strncmp(b, MAN, 3)
    IN  /\ LineReady(in)
        /\ buf' = b
        /\ ret' = r
        /\ typed' = IF in[Len(in)] = NL THEN SubSeq(in, 1, Len(in) - 1) ELSE in
        /\ \/ /\ c1.r = 0
              /\ read' = c1.read
              /\ out' = <<"help">>
           \/ /\ c1.r # 0 /\ c2.r = 0
              /\ read' = IF c1.read > c2.read THEN c1.read ELSE c2.read
              /\ out' = <<"help">>
           \/ /\ c1.r # 0 /\ c2.r # 0 /\ b[1] # NL
              /\ read' = IF c1.read > c2.read THEN c1.read ELSE c2.read
              /\ out' = <<SubSeq(b, 1, r - 1), "command not found">>
           \/ /\ c1.r # 0 /\ c2.r # 0 /\ b[1] = NL
              /\ read' = IF c1.read > c2.read THEN c1.read ELSE c2.read
              /\ out' = << >>

Next == \E in \in UartLines : ShellLine(in)

Spec == Init /\ [][Next]_vars

-----------------------------------------------------------------------------

TypeOK ==
    /\ buf \in [1 .. LINE_BUF_SIZE -> 0 .. 255]
    /\ ret \in -1 .. LINE_BUF_SIZE
    /\ read \in 0 .. LINE_BUF_SIZE

(* The shell hands strncmp a buffer that is not '\0'-terminated and       *)
(* holds the previous line, or garbage, past what read returned.  It is   *)
(* safe only because read_stdin returns whole lines: strncmp stops at the *)
(* newline, where "help" and "man" differ, so it never reads a byte past  *)
(* the line; and the echo of ret - 1 bytes is exactly what was typed.     *)
ShellUsesOnlyLine ==
    ret > 0 =>
        /\ read <= ret
        /\ out # << >> /\ out[1] # "help" => out[1] = typed

=============================================================================
