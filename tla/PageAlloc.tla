----------------------------- MODULE PageAlloc -----------------------------
(***************************************************************************)
(* The physical page allocator of src/mm/memory.c: the pages_usage        *)
(* bitmap, find_free_pages / get_free_pages and free_pages.               *)
(*                                                                         *)
(* Each caller is a kernel context running on its own core (a page fault  *)
(* in do_el0_sync, sys_fork, a page-table allocation).  The code takes no *)
(* lock around pages_usage, so get_free_pages is split into the two steps *)
(* the code really has: the scan loop that finds the first run of free    *)
(* pages (memory.c:88-98), and the loop that marks it used                *)
(* (memory.c:108-110).  Another core may run between them.  free_pages    *)
(* checks and clears one page at a time and halts the core (assert(0),    *)
(* an endless wfi loop) on a page that is not marked used.                *)
(***************************************************************************)
EXTENDS Integers, FiniteSets

CONSTANTS
    NumPages,   \* MAX_NUM_PAGES
    Orders,     \* the orders callers pass to get_free_pages
    Callers     \* concurrent callers, one per core (model values)

ASSUME NumPages \in Nat \ {0}
ASSUME Orders \subseteq Nat

VARIABLES
    pages_usage,  \* pages_usage[i] \in {0, 1}
    pc,           \* pc[c]: "idle", or "mark" between the scan and the marking
    cand,         \* cand[c]: the run the scan of c found, [first, num]
    owned,        \* owned[c]: the runs c holds (the callers' pointers)
    halted,       \* halted[c]: c hit assert(0) in free_pages
    ret           \* ret[c]: the first page get_free_pages last returned, or NULL

vars == <<pages_usage, pc, cand, owned, halted, ret>>

Pages == 0 .. (NumPages - 1)

Run == [first : Pages, num : 1 .. NumPages]

PagesOf(r) == r.first .. (r.first + r.num - 1)

NoRun == [first |-> 0, num |-> 1]

NULL == -1

(***************************************************************************)
(* find_free_pages, memory.c:84-98: the scan keeps free_count, the length *)
(* of the current run of clear bits, and stops at the page i where it     *)
(* reaches num.  Returns that last page, or -1.                           *)
(***************************************************************************)
(* Mutant: the scan does not restart its count at a used page.            *)
RECURSIVE ScanFreeNoReset(_, _, _, _)
ScanFreeNoReset(usage, num, i, free_count) ==
    IF i >= NumPages THEN -1
    ELSE IF usage[i] = 0
         THEN IF free_count + 1 = num THEN i
              ELSE ScanFreeNoReset(usage, num, i + 1, free_count + 1)
         ELSE ScanFreeNoReset(usage, num, i + 1, free_count)

RECURSIVE ScanFree(_, _, _, _)
ScanFree(usage, num, i, free_count) ==
    IF i >= NumPages THEN -1
    ELSE IF usage[i] = 0
         THEN IF free_count + 1 = num THEN i
              ELSE ScanFree(usage, num, i + 1, free_count + 1)
         ELSE ScanFree(usage, num, i + 1, 0)

FindLastPage(usage, num) ==
    IF num = 0 THEN -1 ELSE ScanFree(usage, num, 0, 0)

Init ==
    /\ pages_usage = [i \in Pages |-> 0]
    /\ pc = [c \in Callers |-> "idle"]
    /\ cand = [c \in Callers |-> NoRun]
    /\ owned = [c \in Callers |-> {}]
    /\ halted = [c \in Callers |-> FALSE]
    /\ ret = [c \in Callers |-> NULL]

Active(c) == ~halted[c]

(* Mutant: the first page of the run computed one too low.                *)
GetFreePagesScanOffByOne(c, order) ==
    LET num  == 2 ^ order
        last == FindLastPage(pages_usage, num)
    IN  /\ Active(c)
        /\ pc[c] = "idle"
        /\ last >= 0
        /\ pc' = [pc EXCEPT ![c] = "mark"]
        /\ cand' = [cand EXCEPT ![c] = [first |-> last - num, num |-> num]]
        /\ UNCHANGED <<pages_usage, owned, halted, ret>>

(* get_free_pages(order), the scan: num = 1 << order; no run -> NULL.      *)
GetFreePagesScan(c, order) ==
    LET num  == 2 ^ order
        last == FindLastPage(pages_usage, num)
    IN  /\ Active(c)
        /\ pc[c] = "idle"
        /\ last >= 0
        /\ pc' = [pc EXCEPT ![c] = "mark"]
        /\ cand' = [cand EXCEPT ![c] = [first |-> last - num + 1, num |-> num]]
        /\ UNCHANGED <<pages_usage, owned, halted, ret>>

(* The same scan finding no run: get_free_pages returns NULL and leaves   *)
(* the bitmap as it was.                                                   *)
GetFreePagesFail(c, order) ==
    /\ Active(c)
    /\ pc[c] = "idle"
    /\ FindLastPage(pages_usage, 2 ^ order) < 0
    /\ ret' = [ret EXCEPT ![c] = NULL]
    /\ UNCHANGED <<pages_usage, pc, cand, owned, halted>>

(* The marking loop, memory.c:108-110, and the address handed back.        *)
GetFreePagesMark(c) ==
    /\ Active(c)
    /\ pc[c] = "mark"
    /\ pages_usage' = [i \in Pages |->
                          IF i \in PagesOf(cand[c]) THEN 1 ELSE pages_usage[i]]
    /\ owned' = [owned EXCEPT ![c] = @ \cup {cand[c]}]
    /\ pc' = [pc EXCEPT ![c] = "idle"]
    /\ cand' = [cand EXCEPT ![c] = NoRun]
    /\ ret' = [ret EXCEPT ![c] = cand[c].first]
    /\ halted' = halted

(* Mutant: the clearing loop stops one page short.                         *)
FreePagesShort(c) ==
    \E r \in owned[c] :
        /\ Active(c)
        /\ pc[c] = "idle"
        /\ pages_usage' = [i \in Pages |->
                              IF i >= r.first /\ i < r.first + r.num - 1 THEN 0
                              ELSE pages_usage[i]]
        /\ owned' = [owned EXCEPT ![c] = @ \ {r}]
        /\ UNCHANGED <<pc, cand, halted, ret>>

(***************************************************************************)
(* free_pages(addr, order), memory.c:142-169, on a run the caller holds.   *)
(* The loop clears page after page; at the first page not marked used it  *)
(* halts the core, leaving the pages before it cleared.                   *)
(***************************************************************************)
FreePages(c) ==
    \E r \in owned[c] :
        LET bad == {i \in PagesOf(r) : pages_usage[i] # 1}
            stop == IF bad = {} THEN r.first + r.num
                    ELSE CHOOSE i \in bad : \A j \in bad : i <= j
        IN  /\ Active(c)
            /\ pc[c] = "idle"
            /\ pages_usage' = [i \in Pages |->
                                  IF i >= r.first /\ i < stop THEN 0
                                  ELSE pages_usage[i]]
            /\ owned' = [owned EXCEPT ![c] = @ \ {r}]
            /\ halted' = [halted EXCEPT ![c] = (bad # {})]
            /\ UNCHANGED <<pc, cand, ret>>

Next ==
    \/ \E c \in Callers, o \in Orders : GetFreePagesScan(c, o)
    \/ \E c \in Callers, o \in Orders : GetFreePagesFail(c, o)
    \/ \E c \in Callers : GetFreePagesMark(c)
    \/ \E c \in Callers : FreePages(c)

Spec == Init /\ [][Next]_vars

-----------------------------------------------------------------------------

TypeOK ==
    /\ pages_usage \in [Pages -> {0, 1}]
    /\ pc \in [Callers -> {"idle", "mark"}]
    /\ cand \in [Callers -> Run]
    /\ owned \in [Callers -> SUBSET Run]
    /\ halted \in [Callers -> BOOLEAN]
    /\ ret \in [Callers -> Pages \cup {NULL}]

(* The bitmap and the callers agree: a page is marked used exactly when it *)
(* lies in a run some caller holds, and no page lies in two held runs.    *)
(* It is broken by any marking that is off by one, any free that leaves a *)
(* page set, and two callers handed overlapping runs (section 8).         *)
UsageMatchesOwners ==
    /\ \A i \in Pages :
          (pages_usage[i] = 1) <=> (\E c \in Callers : \E r \in owned[c] : i \in PagesOf(r))
    /\ \A c, d \in Callers : \A r \in owned[c], s \in owned[d] :
          (c # d \/ r # s) => PagesOf(r) \cap PagesOf(s) = {}

(* get_free_pages and free_pages implement the abstract allocator: every  *)
(* allocation is the lowest-addressed free run of 2^order pages (first    *)
(* fit, section 4.1) and every free returns exactly that run.             *)
Abstract == INSTANCE PhysPages
                WITH used <- {i \in Pages : pages_usage[i] = 1},
                     live <- owned

AbstractSpec == Abstract!Spec

=============================================================================
