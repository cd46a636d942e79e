------------------------------- MODULE Format -------------------------------
(***************************************************************************)
(* The formatting of printk: the conversions of src/include/print.h, the  *)
(* PRINT macro's loop over the format, and printk's timestamp prefix      *)
(* (printk.c:64-78, get_timestamp in misc.c).  A conversion is an         *)
(* operator returning the characters it passes to print_char and the      *)
(* count it returns; a step of the model is printk's call or one          *)
(* iteration of PRINT's for loop, whose argument is taken by va_arg from  *)
(* a small set for the conversion.                                        *)
(*                                                                         *)
(* TLC's integers are 32-bit, so the C widths are scaled: int and         *)
(* unsigned int have INT_BITS bits, void * and uint64_t PTR_BYTES bytes.  *)
(* Conversions between them keep C's rules (modulo 2^N), and -d of the    *)
(* most negative int wraps as the build's NEG does.                       *)
(***************************************************************************)
EXTENDS Integers, Sequences, SequencesExt

CONSTANTS
    INT_BITS,          \* bits of int and unsigned int
    PTR_BYTES,         \* sizeof (void * ), sizeof (uint64_t)
    CNTFRQ_EL0_VALUE,  \* timer ticks per second
    TimerCounts,       \* values CNTPCT_EL0 reads
    Cores,             \* core ids printk prints
    Formats,           \* format strings, as sequences of characters
    Ints,              \* arguments of %d %u %x %o
    Ptrs,              \* arguments of %p
    Strs,              \* arguments of %s: strings, or NULL
    CharArgs,          \* arguments of %c
    NULL

VARIABLES
    ppc,    \* "idle", or "fmt" inside printk's PRINT loop
    fmt,    \* the rest of the format, from *fmt on
    out,    \* the characters passed to print_char by this printk
    num,    \* num_ts_printed + num_printed
    convs   \* the numeric conversions made, with their arguments

vars == <<ppc, fmt, out, num, convs>>

UINT == 2 ^ INT_BITS

UINT64 == 2 ^ (8 * PTR_BYTES)

INT_MIN == -(UINT \div 2)

(* A signed value converted to an unsigned type of m values.               *)
ToUnsigned(d, m) == d % m

(* d = -d on a signed int: -INT_MIN overflows and NEG yields INT_MIN.      *)
Negate(d) == IF d = INT_MIN THEN d ELSE -d

(* static char digits[] = "0123456789ABCDEF", print.h:28, 110.             *)
DIGITS == <<"0", "1", "2", "3", "4", "5", "6", "7",
            "8", "9", "A", "B", "C", "D", "E", "F">>

(* Mutant: the digit loop as a while loop, which prints nothing for 0.     *)
RECURSIVE DigitsOfWhile(_, _)
DigitsOfWhile(d, base) ==
    IF d = 0 THEN << >>
    ELSE <<DIGITS[(d % base) + 1]>> \o DigitsOfWhile(d \div base, base)

(* The do ... while loop filling buf, least significant digit first,       *)
(* print.h:38-43 and 122-127.                                              *)
RECURSIVE DigitsOf(_, _)
DigitsOf(d, base) ==
    <<DIGITS[(d % base) + 1]>> \o
        (IF d \div base = 0 THEN << >> ELSE DigitsOf(d \div base, base))

(* Mutant: a padding loop that does not count what it prints.              *)
NumPrintedNoPad(numPad, numDigit) == numDigit

(* num_printed after the padding and digit loops.                          *)
NumPrinted(numPad, numDigit) == IF numPad > 0 THEN numPad + numDigit ELSE numDigit

(* The padding loop, for (j = 0; j < num_pad; j++), print.h:46-49.       *)
Pad(k, pad) == [j \in 1 .. Max({k, 0}) |-> pad]

(* print_unsigned_int, print.h:108-141: width - num_digit pad characters, *)
(* then the digits, most significant first.                                *)
PrintUnsignedInt(d, base, width, pad) ==
    LET buf == DigitsOf(d, base)
    IN  [chars |-> Pad(width - Len(buf), pad) \o Reverse(buf),
         n |-> NumPrinted(width - Len(buf), Len(buf))]

(* print_uint64_t, print.h:26-57: the same loops over a uint64_t.         *)
PrintUint64(d, base, width, pad) == PrintUnsignedInt(d, base, width, pad)

(* print_int, print.h:143-157: a '-', then the negated int as unsigned.    *)
PrintInt(d, base, width, pad) ==
    IF d < 0
    THEN LET r == PrintUnsignedInt(ToUnsigned(Negate(d), UINT), base, width, pad)
         IN  [chars |-> <<"-">> \o r.chars, n |-> r.n + 1]
    ELSE PrintUnsignedInt(d, base, width, pad)

(* print_int32_t, print.h:74-89: the negated int32_t goes to              *)
(* print_uint64_t, width -1.                                               *)
PrintInt32(d) ==
    IF d < 0
    THEN LET r == PrintUint64(ToUnsigned(Negate(d), UINT64), 10, -1, "?")
         IN  [chars |-> <<"-">> \o r.chars, n |-> r.n + 1]
    ELSE PrintUint64(d, 10, -1, "?")

(* print_ptr, print.h:59-72 (ARM64): 2 * sizeof (void * ) hex digits.      *)
PrintPtr(p) == PrintUint64(p, 16, 2 * PTR_BYTES, "0")

(* print_string, print.h:10-24: nothing for NULL.                          *)
PrintString(s) == IF s = NULL THEN [chars |-> << >>, n |-> 0] ELSE [chars |-> s, n |-> Len(s)]

(* PRINT, print.h:167-189, on the format after a '%': an optional '0'     *)
(* selects the pad, one digit 1-9 the width; conv is "end" when the       *)
(* format ends first, which breaks out of the loop.                        *)
ParseDirective(f) ==
    LET padded == f # << >> /\ Head(f) = "0"
        f1 == IF padded THEN Tail(f) ELSE f
        sized == f1 # << >> /\ Head(f1) \in {DIGITS[k + 1] : k \in 1 .. 9}
        f2 == IF sized THEN Tail(f1) ELSE f1
    IN  [pad |-> IF padded THEN "0" ELSE " ",
         width |-> IF sized THEN CHOOSE k \in 1 .. 9 : DIGITS[k + 1] = Head(f1) ELSE -1,
         conv |-> IF f2 = << >> THEN "end" ELSE Head(f2),
         rest |-> IF f2 = << >> THEN << >> ELSE Tail(f2)]

Numeric == {"d", "u", "x", "o", "p"}

(* PRINT's switch, print.h:191-221.  %u, %x and %o take an int and print  *)
(* it as unsigned.                                                         *)
Convert(conv, a, width, pad) ==
    CASE conv = "s" -> PrintString(a)
      [] conv = "d" -> PrintInt(a, 10, width, pad)
      [] conv = "u" -> PrintUnsignedInt(ToUnsigned(a, UINT), 10, width, pad)
      [] conv = "x" -> PrintUnsignedInt(ToUnsigned(a, UINT), 16, width, pad)
      [] conv = "o" -> PrintUnsignedInt(ToUnsigned(a, UINT), 8, width, pad)
      [] conv = "p" -> PrintPtr(a)
      [] conv = "c" -> [chars |-> <<a>>, n |-> 1]

ArgsOf(conv) ==
    CASE conv = "s" -> Strs
      [] conv = "c" -> CharArgs
      [] conv = "p" -> Ptrs
      [] OTHER -> Ints

Init ==
    /\ ppc = "idle"
    /\ fmt = << >>
    /\ out = << >>
    /\ num = 0
    /\ convs = << >>

(* get_timestamp, misc.c:73-83.                                            *)
GetTimestamp(tc) ==
    [sec |-> tc \div CNTFRQ_EL0_VALUE,
     usec |-> ((tc % CNTFRQ_EL0_VALUE) * 1000 * 1000) \div CNTFRQ_EL0_VALUE]

(* A numeric conversion as recorded for the properties.                    *)
Conv(conv, a, width, pad, r) ==
    [conv |-> conv, arg |-> a, width |-> width, pad |-> pad, chars |-> r.chars]

(* printk, printk.c:51-78: with a format, reset the offset (Printk) and   *)
(* print the prefix "[sec.usec@cpuN] "; sec and usec are unsigned long,   *)
(* passed to print_unsigned_int as unsigned int.                           *)
PrintkCall(f, tc, core) ==
    LET ts == GetTimestamp(tc)
        sec == PrintUnsignedInt(ToUnsigned(ts.sec, UINT), 10, 5, " ")
        usec == PrintUnsignedInt(ToUnsigned(ts.usec, UINT), 10, 6, "0")
        cpu == PrintInt32(core)
        parts == <<PrintString(<<"[">>), sec, PrintString(<<".">>), usec,
                   PrintString(<<"@", "c", "p", "u">>), cpu, PrintString(<<"]", " ">>)>>
    IN  /\ ppc = "idle"
        /\ ppc' = "fmt"
        /\ fmt' = f
        /\ out' = FoldLeft(LAMBDA acc, p : acc \o p.chars, << >>, parts)
        /\ num' = FoldLeft(LAMBDA acc, p : acc + p.n, 0, parts)
        /\ convs' = <<Conv("u", ts.sec, 5, " ", sec), Conv("u", ts.usec, 6, "0", usec),
                      Conv("i32", core, -1, "?", cpu)>>

(* PRINT, print.h:161-166: a character other than '%' is printed as is.   *)
PrintLiteral ==
    /\ ppc = "fmt"
    /\ fmt # << >>
    /\ Head(fmt) # "%"
    /\ out' = Append(out, Head(fmt))
    /\ num' = num + 1
    /\ fmt' = Tail(fmt)
    /\ UNCHANGED <<ppc, convs>>

(* PRINT, print.h:167-224: a directive; the loop breaks when the format   *)
(* ends inside it, and otherwise va_arg takes the argument.                *)
PrintDirective ==
    /\ ppc = "fmt"
    /\ fmt # << >>
    /\ Head(fmt) = "%"
    /\ LET d == ParseDirective(Tail(fmt))
       IN  \/ /\ d.conv = "end"
              /\ fmt' = << >>
              /\ UNCHANGED <<out, num, convs>>
           \/ /\ d.conv # "end"
              /\ \E a \in ArgsOf(d.conv) :
                    LET r == Convert(d.conv, a, d.width, d.pad)
                    IN  /\ out' = out \o r.chars
                        /\ num' = num + r.n
                        /\ convs' = IF d.conv \in Numeric
                                    THEN Append(convs, Conv(d.conv, a, d.width, d.pad, r))
                                    ELSE convs
              /\ fmt' = d.rest
    /\ UNCHANGED ppc

(* The loop ends at the format's '\0'; printk hands num bytes to the ring *)
(* (Printk) and returns.                                                   *)
PrintkEnd ==
    /\ ppc = "fmt"
    /\ fmt = << >>
    /\ ppc' = "idle"
    /\ UNCHANGED <<fmt, out, num, convs>>

Next ==
    \/ \E f \in Formats, tc \in TimerCounts, core \in Cores : PrintkCall(f, tc, core)
    \/ PrintLiteral
    \/ PrintDirective
    \/ PrintkEnd

Spec == Init /\ [][Next]_vars

-----------------------------------------------------------------------------

(* The value a digit string denotes in a base, by Horner's rule.           *)
Value(D, base) ==
    FoldLeft(LAMBDA acc, c : acc * base + (CHOOSE k \in 0 .. 15 : DIGITS[k + 1] = c), 0, D)

Base(c) == CASE c.conv \in {"d", "u", "i32"} -> 10
             [] c.conv \in {"x", "p"} -> 16
             [] c.conv = "o" -> 8

(* The number a conversion should print: the magnitude for the signed     *)
(* ones, the argument modulo 2^N for %u, %x, %o ("print as unsigned",     *)
(* print.h:206, 211), the pointer for %p.                                  *)
Expected(c) == CASE c.conv \in {"d", "i32"} -> IF c.arg < 0 THEN -c.arg ELSE c.arg
                 [] c.conv \in {"u", "x", "o"} -> c.arg % UINT
                 [] c.conv = "p" -> c.arg

(* The characters a numeric conversion printed are its sign, the pad      *)
(* characters up to the width, and the digits of the expected number with *)
(* no leading zero, in its base.  This holds for 0 (one digit), for the   *)
(* most negative int, whose negation overflows, and for negative          *)
(* arguments of %u, %x and %o, and is checked against Horner's value of   *)
(* the digits, not the division loop that produced them.  %p ignores the  *)
(* directive's width: a pointer is zero-padded to all its hex digits.      *)
ConversionFaithful ==
    \A i \in 1 .. Len(convs) :
        LET c == convs[i]
            sign == IF c.conv \in {"d", "i32"} /\ c.arg < 0 THEN <<"-">> ELSE << >>
        IN  \E D \in Suffixes(c.chars) :
                /\ D # << >>
                /\ \A j \in 1 .. Len(D) : D[j] \in {DIGITS[k + 1] : k \in 0 .. Base(c) - 1}
                /\ Len(D) = 1 \/ Head(D) # "0"
                /\ Value(D, Base(c)) = Expected(c)
                /\ IF c.conv = "p"
                   THEN c.chars = Pad(2 * PTR_BYTES - Len(D), "0") \o D
                   ELSE c.chars = sign \o Pad(c.width - Len(D), c.pad) \o D

(* The count printk hands to write_concurrent_cbuf (printk.c:83-84) is    *)
(* the number of characters passed to print_char: every conversion's      *)
(* return value counts its padding, sign and digits, and a directive cut  *)
(* short by the end of the format counts nothing.                          *)
CountMatchesOutput == num = Len(out)

=============================================================================
