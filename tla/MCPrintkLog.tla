---------------------------- MODULE MCPrintkLog ----------------------------
(***************************************************************************)
(* printk checked in two parts that share no state: its writes to the log *)
(* ring (Printk), where a printk's text is taken as given, and the        *)
(* formatting that produces that text (Format); with them the other half  *)
(* of the text library, string.h, called by its host tests (StringTest)   *)
(* and by the user shell (Shell).  The model is the sum of the four:      *)
(* `part', chosen at the start, says which one a behaviour drives while   *)
(* the other stays in its initial state.                                  *)
(***************************************************************************)
EXTENDS Printk, SequencesExt

CONSTANTS INT_BITS, PTR_BYTES, CNTFRQ_EL0_VALUE, TimerCounts, Cores, Formats,
          Ints, Ptrs, Strs, CharArgs, NULL,
          CHAR_SIGNED, Bufs, Dests, Ns, Cs,
          LINE_BUF_SIZE, UART_IN_BUF_LEN, Inputs, Garbage

VARIABLES ppc, fmt, out, num, convs, call, sbuf, sret, typed, sread, sout, part

F == INSTANCE Format

T == INSTANCE StringTest

Sh == INSTANCE Shell WITH buf <- sbuf, ret <- sret, read <- sread, out <- sout

fvars == <<ppc, fmt, out, num, convs>>

svars == <<sbuf, sret, typed, sread, sout>>

allvars == <<vars, fvars, call, svars, part>>

SumInit ==
    /\ part \in {"log", "format", "strtest", "shell"}
    /\ Init /\ F!Init /\ T!Init /\ Sh!Init
    \* one garbage buffer for the parts that leave the shell at its start
    /\ part # "shell" => sbuf = [i \in 1 .. LINE_BUF_SIZE |-> 0]

SumNext ==
    \/ part = "log" /\ Next /\ UNCHANGED <<fvars, call, svars, part>>
    \/ part = "format" /\ F!Next /\ UNCHANGED <<vars, call, svars, part>>
    \/ part = "strtest" /\ T!Next /\ UNCHANGED <<vars, fvars, svars, part>>
    \/ part = "shell" /\ Sh!Next /\ UNCHANGED <<vars, fvars, call, part>>

SumSpec == SumInit /\ [][SumNext]_allvars

(* Every number printk prints is its sign, its padding and the digits of  *)
(* the value print.h promises, checked against Horner's value (Format).     *)
ConversionFaithful == F!ConversionFaithful

(* The length printk hands to the ring is the number of characters it     *)
(* printed (Format).                                                        *)
CountMatchesOutput == F!CountMatchesOutput

(* strcmp and strncmp order strings as unsigned char, a prefix first, and *)
(* strncmp reads at most n bytes (StringTest).                             *)
StrcmpFaithful == T!StrcmpFaithful

(* strlen, strchr, strcpy and strncpy do what the C standard says          *)
(* (StringTest).                                                            *)
StringOpsFaithful == T!StringOpsFaithful

(* shell_main's strncmp reads no byte of its unterminated buffer past the *)
(* line read returned, and its echo is the typed text (Shell).             *)
ShellUsesOnlyLine == Sh!ShellUsesOnlyLine

(* A two-byte scratch buffer: the task's two-character line fills it and *)
(* brings the offset back to 0; the interrupt prints one character and    *)
(* leaves it at 1.  Two letters for the task tell a reordered line from   *)
(* the right one.  Lines longer than the buffer are left to the README.   *)
MCTaskTexts == {<<"a", "b">>}

MCIrqTexts == {<<"c">>}

(* uart.c:64 reads one character, uart.c:154 up to the FIFO's write length. *)
MCLengths == {1, 2}

(* Every conversion once, with and without a width and the '0' pad; two   *)
(* conversions in one format; a literal; and formats that end inside a    *)
(* directive, where PRINT breaks out of its loop.                          *)
MCFormats ==
    {<<"%", "d">>, <<"%", "u">>, <<"%", "x">>, <<"%", "o">>, <<"%", "p">>,
     <<"%", "c">>, <<"%", "s">>, <<"%", "0", "5", "x">>, <<"%", "3", "d">>,
     <<"%", "d", "%", "x">>, <<"a", "%">>, <<"%", "0">>, <<"%", "5">>}

(* 0 (one digit), 9 and 10 (a digit more), -1 (all bits set as unsigned), *)
(* the most negative int (its negation overflows) and the largest.        *)
MCInts == {0, 9, 10, -1, -32768, 32767}

MCPtrs == {0, 2 ^ 24 - 1}

MCStrs == {NULL, << >>, <<"h", "i">>}

(* CNTPCT_EL0 at 0, at 1.25 s and at 12345.75 s with 4 ticks a second: a  *)
(* padded and a full-width seconds field, zero and non-zero micro-seconds. *)
MCTimerCounts == {0, 5, 49383}

(* Strings of up to two bytes over 'a', 'b' and a byte above 127, in      *)
(* four-byte arrays: the terminator, then a 'b' that a read past it would *)
(* see.                                                                    *)
MCBufs ==
    {s \o <<0>> \o [i \in 1 .. 3 - Len(s) |-> 98] : s \in SeqOf({97, 98, 200}, 2)}

(* A destination full of 'b's, and one holding "a".                       *)
MCDests == {<<98, 98, 98, 98>>, <<97, 0, 98, 98>>}

(* The shell's lines: empty, prefixes of "help" and "man", the words      *)
(* themselves, a longer word, and a line typed ahead of a first, empty   *)
(* one ("\nh": read_stdin returns both).                                   *)
MCInputs ==
    {<< >>, <<104, 101, 108>>, <<104, 101, 108, 112>>, <<104, 101, 108, 112, 120>>,
     <<109, 97>>, <<109, 97, 110>>, <<120>>, <<10, 104>>}

=============================================================================
