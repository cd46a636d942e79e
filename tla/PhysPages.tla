----------------------------- MODULE PhysPages -----------------------------
(***************************************************************************)
(* Abstract specification of the physical page allocator: what            *)
(* get_free_pages / free_pages promise (spec section 4.1).                 *)
(*                                                                         *)
(* The pool is NumPages pages.  A caller asks for a run of 2^order pages   *)
(* and receives the lowest-addressed run of that many free pages, or       *)
(* nothing when no such run exists.  A run is returned with free_pages     *)
(* and its pages become free again.  Every page is free or owned by        *)
(* exactly one live run.                                                   *)
(***************************************************************************)
EXTENDS Naturals, FiniteSets

CONSTANTS
    NumPages,   \* MAX_NUM_PAGES = PAGE_POOL_SIZE / PAGE_SIZE
    Orders,     \* the orders callers ask for
    Callers     \* the callers holding allocations (model values)

ASSUME NumPages \in Nat \ {0}
ASSUME Orders \subseteq Nat

VARIABLES
    used,       \* the set of page numbers that are allocated
    live        \* live[c]: the runs caller c holds, as [first, num] records

vars == <<used, live>>

Pages == 0 .. (NumPages - 1)

Run == [first : Pages, num : 1 .. NumPages]

PagesOf(r) == r.first .. (r.first + r.num - 1)

Pow2(k) == 2 ^ k

(* The runs of num pages lying inside the pool and clear of usedSet.       *)
FreeRuns(usedSet, num) ==
    {r \in [first : Pages, num : {num}] :
        /\ r.first + num <= NumPages
        /\ PagesOf(r) \cap usedSet = {}}

(* First-fit: the lowest-addressed free run, as section 4.1 requires.      *)
FirstFit(usedSet, num) ==
    CHOOSE r \in FreeRuns(usedSet, num) :
        \A s \in FreeRuns(usedSet, num) : r.first <= s.first

Init ==
    /\ used = {}
    /\ live = [c \in Callers |-> {}]

Allocate(c, order) ==
    /\ FreeRuns(used, Pow2(order)) # {}
    /\ LET r == FirstFit(used, Pow2(order))
       IN  /\ used' = used \cup PagesOf(r)
           /\ live' = [live EXCEPT ![c] = @ \cup {r}]

Free(c) ==
    \E r \in live[c] :
        /\ used' = used \ PagesOf(r)
        /\ live' = [live EXCEPT ![c] = @ \ {r}]

Next ==
    \/ \E c \in Callers, o \in Orders : Allocate(c, o)
    \/ \E c \in Callers : Free(c)

Spec == Init /\ [][Next]_vars

(* No page belongs to two live runs, and the used set is exactly the       *)
(* pages of the live runs.                                                 *)
Exclusive ==
    /\ \A c, d \in Callers : \A r \in live[c], s \in live[d] :
           (r # s \/ c # d) => PagesOf(r) \cap PagesOf(s) = {}
    /\ used = UNION {PagesOf(r) : r \in UNION {live[c] : c \in Callers}}

=============================================================================
