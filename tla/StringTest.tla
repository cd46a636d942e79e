----------------------------- MODULE StringTest -----------------------------
(***************************************************************************)
(* The host unit tests of string.h (src/tests/StringTest.cpp): each step  *)
(* calls one function on arguments drawn from small sets and records the  *)
(* call and its result, as a test's Setup and Exercise do; the properties *)
(* are the Verify, stated for every argument against the C standard's     *)
(* definition rather than for the one input a test picks.                  *)
(***************************************************************************)
EXTENDS StringLib

CONSTANTS
    Bufs,       \* char arrays holding a '\0'-terminated string
    Dests,      \* char arrays written by the copies
    Ns,         \* the n of strncmp, strncpy, memcpy and memset
    Cs          \* the int c of strchr and memset

VARIABLE call   \* the last call: its function, arguments and result

vars == <<call>>

Call(fn, a, b, n, r, res) == [fn |-> fn, a |-> a, b |-> b, n |-> n, r |-> r, res |-> res]

Init == call = Call("none", << >>, << >>, 0, 0, << >>)

(* testStrcmp* (StringTest.cpp:65-129).                                    *)
StrcmpCall(a, b) == call' = Call("strcmp", a, b, 0, strcmp(a, b), << >>)

(* testStrncmp* (StringTest.cpp:167-231).                                  *)
StrncmpCall(a, b, n) == call' = Call("strncmp", a, b, n, strncmp(a, b, n).r, << >>)

(* testStrchr* (StringTest.cpp:20-63); << >> is the NULL pointer.          *)
StrchrCall(s, c) == call' = Call("strchr", s, << >>, c, strchr(s, c), << >>)

(* testStrlen (StringTest.cpp:131-148).                                     *)
StrlenCall(s) == call' = Call("strlen", s, << >>, 0, strlen(s), << >>)

(* testStrcpy (StringTest.cpp:150-165).                                     *)
StrcpyCall(d, s) == call' = Call("strcpy", d, s, 0, 0, strcpy(d, s))

(* testStrncpy (StringTest.cpp:233-253).                                    *)
StrncpyCall(d, s, n) == call' = Call("strncpy", d, s, n, 0, strncpy(d, s, n))

(* memcpy and memset have no test; the kernel calls them (isr.c:172,    *)
(* mm.c).                                                                   *)
MemcpyCall(d, s, n) == call' = Call("memcpy", d, s, n, 0, memcpy(d, s, n))

MemsetCall(d, c, n) == call' = Call("memset", d, << >>, n, c, memset(d, c, n))

(* CPPUNIT runs one test at a time: setUp (StringTest.cpp:9-11, empty),   *)
(* the test's calls, tearDown (15-17, empty).  A call starts from a fixture *)
(* with no call made.                                                      *)
Exercise ==
    \/ \E a, b \in Bufs : StrcmpCall(a, b)
    \/ \E a, b \in Bufs, n \in Ns : StrncmpCall(a, b, n)
    \/ \E s \in Bufs \cup {<< >>}, c \in Cs : StrchrCall(s, c)
    \/ \E s \in Bufs : StrlenCall(s)
    \/ \E d \in Dests, s \in Bufs : StrcpyCall(d, s)
    \/ \E d \in Dests, s \in Bufs, n \in Ns : StrncpyCall(d, s, n)
    \/ \E d \in Dests, s \in Bufs, n \in Ns : MemcpyCall(d, s, n)
    \/ \E d \in Dests, c \in Cs, n \in Ns : MemsetCall(d, c, n)

TearDown == call' = Call("none", << >>, << >>, 0, 0, << >>)

Next == (call.fn = "none" /\ Exercise) \/ (call.fn # "none" /\ TearDown)

Spec == Init /\ [][Next]_vars

-----------------------------------------------------------------------------

TypeOK == call.fn \in {"none", "strcmp", "strncmp", "strchr", "strlen",
                       "strcpy", "strncpy", "memcpy", "memset"}

(* strcmp and strncmp order strings as the C standard does: by the first  *)
(* differing byte read as unsigned char, a proper prefix first, and        *)
(* strncmp looking at no more than n bytes.  The code compares plain char  *)
(* (string.h:59, 87), so this rests on char being unsigned in the build.  *)
StrcmpFaithful ==
    /\ call.fn = "strcmp" =>
          Sign(call.r) = LexCmp(CStr(call.a), CStr(call.b))
    /\ call.fn = "strncmp" =>
          Sign(call.r) = LexCmp(Take(CStr(call.a), call.n), Take(CStr(call.b), call.n))

(* strlen counts the bytes before the terminator; strchr finds the first  *)
(* occurrence of a non-zero c (as char) in the string, NULL when there is *)
(* none or s is NULL; strcpy leaves a copy of the string and its          *)
(* terminator and the rest of dest untouched; strncpy fills exactly n      *)
(* bytes: the string's first n bytes and '\0' after them.                  *)
StringOpsFaithful ==
    /\ call.fn = "strlen" => call.r = Len(CStr(call.a))
    /\ call.fn = "strchr" /\ call.n % 256 # NUL =>
          LET s == IF call.a = << >> THEN << >> ELSE CStr(call.a)
              c == call.n % 256
          IN  IF call.r = 0
              THEN ~\E i \in 1 .. Len(s) : s[i] = c
              ELSE s[call.r] = c /\ \A i \in 1 .. call.r - 1 : s[i] # c
    /\ call.fn = "strcpy" =>
          /\ CStr(call.res) = CStr(call.b)
          /\ \A i \in Len(CStr(call.b)) + 2 .. Len(call.a) : call.res[i] = call.a[i]
    /\ call.fn = "strncpy" =>
          LET t == Take(CStr(call.b), call.n)
          IN  /\ SubSeq(call.res, 1, call.n) = t \o [i \in 1 .. call.n - Len(t) |-> NUL]
              /\ \A i \in call.n + 1 .. Len(call.a) : call.res[i] = call.a[i]

=============================================================================
