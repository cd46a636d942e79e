------------------------------ MODULE StringLib ------------------------------
(***************************************************************************)
(* The functions of src/include/string.h, shared by the kernel, the user   *)
(* programs and the host unit tests.  Memory is a sequence of bytes (the  *)
(* naturals 0 .. 255); a pointer into it is a 1-based index, where C's    *)
(* index 0 is TLA+'s 1.  A loop of the code is a RECURSIVE operator that  *)
(* takes one turn per call, so the bytes it reads are the ones the code   *)
(* reads, in the same order.                                               *)
(***************************************************************************)
EXTENDS Integers, Sequences, SequencesExt

CONSTANTS
    CHAR_SIGNED     \* whether plain char is signed in the build (AArch64: no)

NUL == 0

(* Mutant: char signed, as on an x86 host build of the tests.              *)
CharSignedBuild(b) == IF b >= 128 THEN b - 256 ELSE b

(* The value a byte has as a plain char: *s1 < *s2 in strcmp.            *)
Char(b) == IF CHAR_SIGNED /\ b >= 128 THEN b - 256 ELSE b

(* memset, string.h:4-14: p[i] = c for i < n; the int c is truncated to   *)
(* its low byte by the store.                                              *)
memset(s, c, n) == [i \in DOMAIN s |-> IF i <= n THEN c % 256 ELSE s[i]]

(* memcpy, string.h:16-27.                                                 *)
memcpy(d, s, n) == [i \in DOMAIN d |-> IF i <= n THEN s[i] ELSE d[i]]

(* strchr, string.h:29-44: the index of the first s[i] equal to c before  *)
(* the terminator, or 0 (NULL); a NULL s gives NULL.  The loop stops at   *)
(* the terminator before comparing it, so strchr(s, '\0') is NULL.       *)
RECURSIVE StrchrFrom(_, _, _)
StrchrFrom(s, c, i) ==
    IF s[i] = NUL THEN 0
    ELSE IF Char(s[i]) = c THEN i
    ELSE StrchrFrom(s, c, i + 1)

strchr(s, c) == IF s = << >> THEN 0 ELSE StrchrFrom(s, c, 1)

(* One turn of the strcmp and strncmp loops, string.h:49-63 and 77-91:     *)
(* the bytes at i are equal and not the terminator, and the loop goes on; *)
(* or the result it returns.                                               *)
Same(s1, s2, i) == s1[i] # NUL /\ s2[i] # NUL /\ s1[i] = s2[i]

CmpStep(s1, s2, i) ==
    CASE s1[i] = NUL /\ s2[i] = NUL -> 0
      [] s1[i] = NUL /\ s2[i] # NUL -> -1
      [] s1[i] # NUL /\ s2[i] = NUL -> 1
      [] Char(s1[i]) < Char(s2[i])  -> -1
      [] OTHER                      -> 1

(* strcmp, string.h:46-68.                                                 *)
RECURSIVE StrcmpFrom(_, _, _)
StrcmpFrom(s1, s2, i) ==
    IF Same(s1, s2, i) THEN StrcmpFrom(s1, s2, i + 1)
    ELSE CmpStep(s1, s2, i)

strcmp(s1, s2) == StrcmpFrom(s1, s2, 1)

(* strncmp, string.h:70-94, with the number of bytes of each string it    *)
(* read: [r |-> result, read |-> k] reads s1[1..k] and s2[1..k].           *)
RECURSIVE StrncmpFrom(_, _, _, _)
StrncmpFrom(s1, s2, n, i) ==
    IF n = 0 THEN [r |-> 0, read |-> i - 1]
    ELSE IF Same(s1, s2, i) THEN StrncmpFrom(s1, s2, n - 1, i + 1)
    ELSE [r |-> CmpStep(s1, s2, i), read |-> i]

strncmp(s1, s2, n) == StrncmpFrom(s1, s2, n, 1)

(* strlen, string.h:96-104.                                                *)
RECURSIVE StrlenFrom(_, _)
StrlenFrom(s, i) == IF s[i] = NUL THEN i - 1 ELSE StrlenFrom(s, i + 1)

strlen(s) == StrlenFrom(s, 1)

(* strcpy, string.h:106-116: the bytes before src's terminator, then the *)
(* terminator.                                                             *)
strcpy(d, s) == [i \in DOMAIN d |-> IF i <= strlen(s) + 1 THEN s[i] ELSE d[i]]

(* Mutant: strncpy without its second loop, which pads with '\0'.          *)
strncpyNoPad(d, s, n) ==
    [i \in DOMAIN d |-> IF i <= n /\ i <= strlen(s) THEN s[i] ELSE d[i]]

(* strncpy, string.h:118-129: the first loop copies while i < n and the   *)
(* byte is not the terminator; the second writes '\0' up to n.            *)
strncpy(d, s, n) ==
    [i \in DOMAIN d |-> IF i > n THEN d[i]
                        ELSE IF i <= strlen(s) THEN s[i]
                        ELSE NUL]

-----------------------------------------------------------------------------
(* Reference definitions: what the C standard says of these functions.    *)

(* The string at s: the bytes before the first '\0'.                      *)
CStr(s) == SubSeq(s, 1, SelectInSeq(s, LAMBDA b : b = NUL) - 1)

(* The first n bytes of a sequence.                                        *)
Take(s, n) == SubSeq(s, 1, IF n < Len(s) THEN n ELSE Len(s))

(* Lexicographic order of two strings compared as unsigned char (C11      *)
(* 7.24.4): -1, 0 or 1.                                                     *)
LexCmp(a, b) ==
    IF a = b THEN 0
    ELSE IF IsStrictPrefix(a, b) THEN -1
    ELSE IF IsStrictPrefix(b, a) THEN 1
    ELSE LET k == CHOOSE i \in 1 .. Len(a) :
                     i <= Len(b) /\ a[i] # b[i] /\ SubSeq(a, 1, i - 1) = SubSeq(b, 1, i - 1)
         IN  IF a[k] < b[k] THEN -1 ELSE 1

Sign(x) == IF x < 0 THEN -1 ELSE IF x > 0 THEN 1 ELSE 0

=============================================================================
