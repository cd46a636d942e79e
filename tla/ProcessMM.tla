----------------------------- MODULE ProcessMM -----------------------------
(***************************************************************************)
(* The address spaces of user tasks: the VMA lists and pages blocks of     *)
(* src/kernel/sched.c, the per-task page tables of src/mm/page_table.c,    *)
(* the page pool of src/mm/memory.c as the source of every page, and the  *)
(* four paths that change them: sys_fork and sys_brk and the user page    *)
(* fault (do_el0_sync) in src/kernel/isr.c, and do_exit / exit_mm.         *)
(*                                                                         *)
(* Each path runs on the core of the task it serves, with nothing else     *)
(* touching that task's mm or page tables (a task in the kernel is not     *)
(* preempted: irq_handler schedules only from user mode), so each is one  *)
(* step here.  What tasks share is the page pool; its own races are the   *)
(* subject of PageAlloc, and here get_free_pages is atomic.                *)
(*                                                                         *)
(* The page table keeps the code's shape, scaled down: the three layers   *)
(* index the address with shifts 3, 2, 1 (30, 21, 12 in the code) and one *)
(* bit each (nine in the code), so a table has two entries and PAGE_SIZE   *)
(* is 2.  Physical pages are frame numbers: the pool is 1 .. NumPages and *)
(* 0 is the null entry.  The kernel image pages that back init's text and *)
(* data lie outside the pool.  `mem[p]' is the content of pool page p     *)
(* read as a table; the data users keep in pages is not modelled.          *)
(***************************************************************************)
EXTENDS Integers, Sequences, SequencesExt, FiniteSetsExt

CONSTANTS
    NumPages,       \* pages in the pool
    Slots,          \* task slots; slot InitSlot runs init
    InitSlot,
    MAX_BRK_ADDR,   \* include/sched.h:9
    MaxVmas,        \* bound on the length of a VMA list
    UserWritesText, \* whether user code may write its read-only text
    KmallocResults, \* what kmalloc in add_pages_block may return: success
                    \* (TRUE) and failure (FALSE)
    ForkKmallocFails \* whether the kmalloc calls of sys_fork may fail

PAGE_SIZE == 2
Layers == <<3, 2, 1>>           \* layers[] = {30, 21, 12}
Ix == 0 .. 1                    \* the entries of one table
Zero == [i \in Ix |-> 0]
Pool == 1 .. NumPages
TextImg == NumPages + 1         \* __pa(_lma_user): init's text in the image
DataImg == NumPages + 2         \* init's data, after the text
Frames == 0 .. (NumPages + 2)
NOLMA == -1                     \* (unsigned long)(-1): demand-paged VMA

(* The user layout of main.c:245-346, in bytes: text [0, 2), data [2, 4), *)
(* the heap from start_brk = user_bss_end = 4.                            *)
TEXT == [start |-> 0, end |-> 2, shared |-> TRUE, write |-> FALSE,
         lma |-> TextImg, blocks |-> {}]
DATA == [start |-> 2, end |-> 4, shared |-> FALSE, write |-> TRUE,
         lma |-> DataImg, blocks |-> {}]
START_BRK == 4

VARIABLES
    free,     \* the pages of the pool with pages_usage[i] == 0
    mem,      \* mem[p]: pool page p read as a page table
    live,     \* live[t]: slot t holds a task with an address space
    vmas,     \* vmas[t]: t->mm->mmap, head first
    brk,      \* brk[t]: t->mm->brk (start_brk is START_BRK for every task)
    pgdir,    \* pgdir[t]: t->pg_dir, or 0
    halt      \* "none", or why the kernel stopped

vars == <<free, mem, live, vmas, brk, pgdir, halt>>

PageAddr(a) == a - (a % PAGE_SIZE)                  \* misc.h:33
UpperPageAddr(a) == PageAddr(a + PAGE_SIZE - 1)     \* misc.h:36

(* get_pg_entry_index, page_table.c:8-11.                                  *)
Index(addr, layer) == (addr \div (2 ^ layer)) % 2

(* get_free_pages(0): the first free page (memory.c:75-127).               *)
FirstFree(S) == Min(S)

(* An entry read from table tbl; a walk that took an empty entry reads    *)
(* at physical 0, device memory outside the pool, and finds no page there. *)
Entry(m, tbl, i) == IF tbl \in Pool THEN m[tbl][i] ELSE 0

(* free_pages(addr, 0), memory.c:142-169: an address outside the pool is  *)
(* reported and ignored; a page that is not in use is assert(0).          *)
FreePage(st, p) ==
    IF p \notin Pool THEN st
    ELSE IF p \in st.free THEN [st EXCEPT !.halt = "double_free"]
    ELSE [st EXCEPT !.free = @ \cup {p}]

RECURSIVE FreeEach(_, _)
FreeEach(st, S) ==
    IF S = {} THEN st
    ELSE LET p == CHOOSE x \in S : TRUE IN FreeEach(FreePage(st, p), S \ {p})

(* setup_pg_for_addr, page_table.c:18-67: walk the layers from table tbl; *)
(* an empty entry above the last layer gets a zeroed page from the pool,  *)
(* and assert(0) when there is none; an empty last entry gets pa; an      *)
(* entry that is already set is kept.                                      *)
RECURSIVE SetupPgForAddr(_, _, _, _, _)
SetupPgForAddr(st, tbl, i, pa, va) ==
    IF i > Len(Layers) \/ st.halt # "none" THEN st
    ELSE LET idx == Index(va, Layers[i])
             e == st.mem[tbl][idx]
         IN  IF e # 0 THEN SetupPgForAddr(st, e, i + 1, pa, va)
             ELSE IF i = Len(Layers) THEN [st EXCEPT !.mem[tbl][idx] = pa]
             ELSE IF st.free = {} THEN [st EXCEPT !.halt = "no_table_page"]
             ELSE LET new == FirstFree(st.free)
                  IN  SetupPgForAddr(
                          [st EXCEPT !.free = @ \ {new},
                                     !.mem = [@ EXCEPT ![tbl][idx] = new,
                                                       ![new] = Zero]],
                          new, i + 1, pa, va)

(* add_single_map, page_table.c:152-167: n pages from pa at va.            *)
RECURSIVE AddSingleMap(_, _, _, _, _)
AddSingleMap(st, pgd, pa, va, n) ==
    IF n = 0 THEN st
    ELSE AddSingleMap(SetupPgForAddr(st, pgd, 1, pa, va), pgd, pa + 1,
                      va + PAGE_SIZE, n - 1)

(* setup_user_page_mappings, sched.c:565-612: every VMA with a real lma,  *)
(* in list order; a demand-paged VMA is skipped (phy_addr == -1).          *)
RECURSIVE SetupUserPageMappings(_, _, _)
SetupUserPageMappings(st, pgd, vl) ==
    IF vl = << >> THEN st
    ELSE LET v == Head(vl)
             st2 == IF v.lma = NOLMA THEN st
                    ELSE AddSingleMap(st, pgd, v.lma, v.start,
                                      (v.end - v.start + PAGE_SIZE - 1) \div PAGE_SIZE)
         IN  SetupUserPageMappings(st2, pgd, Tail(vl))

(* The translation the MMU finds for va in the tree rooted at pgd, or 0.  *)
Translate(m, pgd, va) ==
    LET l1 == Entry(m, pgd, Index(va, Layers[1]))
        l2 == Entry(m, l1, Index(va, Layers[2]))
    IN  Entry(m, l2, Index(va, Layers[3]))

(* Mutant: the page freed but its entry left in place.                    *)
UnmapOneUserPageNoClear(st, pgd, va) ==
    LET l1 == Entry(st.mem, pgd, Index(va, Layers[1]))
        l2 == Entry(st.mem, l1, Index(va, Layers[2]))
        idx == Index(va, Layers[3])
    IN  IF l2 \notin Pool THEN st ELSE FreePage(st, st.mem[l2][idx])

(* unmap_one_user_page, page_table.c:109-149: walk the two upper layers   *)
(* without looking at the entries, free the page the last entry holds,    *)
(* clear the entry.                                                        *)
UnmapOneUserPage(st, pgd, va) ==
    LET l1 == Entry(st.mem, pgd, Index(va, Layers[1]))
        l2 == Entry(st.mem, l1, Index(va, Layers[2]))
        idx == Index(va, Layers[3])
    IN  IF l2 \notin Pool THEN st
        ELSE [FreePage(st, st.mem[l2][idx]) EXCEPT !.mem[l2][idx] = 0]

(* unmap_user_page_mapping, sched.c:614-644: every page of [from, to).     *)
RECURSIVE UnmapUserPageMapping(_, _, _, _)
UnmapUserPageMapping(st, pgd, from, to) ==
    IF from >= to THEN st
    ELSE UnmapUserPageMapping(UnmapOneUserPage(st, pgd, from), pgd,
                              from + PAGE_SIZE, to)

(* The table pages of the tree rooted at pgd: the root, its layer-1       *)
(* tables and their leaf tables.                                           *)
TablePages(m, pgd) ==
    LET L1 == {m[pgd][i] : i \in Ix} \ {0}
        L2 == {m[l][i] : l \in L1, i \in Ix} \ {0}
    IN  IF pgd = 0 THEN {} ELSE {pgd} \cup L1 \cup L2

(* free_page_tables, sched.c:305-349: every table page, never the leaves. *)
FreePageTables(st, pgd) == FreeEach(st, TablePages(st.mem, pgd))

(* find_vma, sched.c:508-528: the index of the first VMA containing addr, *)
(* or 0.                                                                   *)
FindVma(vl, addr) == SelectInSeq(vl, LAMBDA v : v.start <= addr /\ addr < v.end)

BlockPages(vl) == UNION {{b.pa : b \in vl[i].blocks} : i \in DOMAIN vl}

(* exit_mm, sched.c:351-394: the pages blocks of every VMA that is not    *)
(* VM_SHARED, then the page tables.                                        *)
ExitMm(st, vl, pgd) ==
    LET owned == UNION {{b.pa : b \in vl[i].blocks} :
                            i \in {j \in DOMAIN vl : ~vl[j].shared}}
    IN  FreePageTables(FreeEach(st, owned), pgd)

(***************************************************************************)
(* sys_fork, isr.c:156-298, builds the child in a record F: the pool, the *)
(* child's VMA list cv, ok (FALSE once a step has failed), the number nk  *)
(* of kmalloc calls made so far, and kf, the call that fails (0: none).    *)
(***************************************************************************)

(* The next kmalloc (setup_vma's kzalloc, add_pages_block's kmalloc)       *)
(* returns memory.                                                         *)
KmallocOk(F) == F.nk + 1 # F.kf

Kmalloc(F) == [F EXCEPT !.nk = @ + 1]

Fail(F) == [F EXCEPT !.ok = FALSE]

(* isr.c:239-265: one fresh page per pages block of a demand-paged VMA,   *)
(* attached to the child VMA that find_vma returns for vm_start.  When     *)
(* add_pages_block fails (no VMA, or its kmalloc) the page is freed again. *)
RECURSIVE CopyBlocks(_, _, _)
CopyBlocks(F, j, B) ==
    IF B = {} \/ ~F.ok THEN F
    ELSE LET b == CHOOSE x \in B : TRUE
             p == FirstFree(F.free)
         IN  IF F.free = {} THEN Fail(F)
             ELSE IF j = 0 THEN Fail(F)
             ELSE IF ~KmallocOk(F) THEN Fail(Kmalloc(F))
             ELSE CopyBlocks([Kmalloc(F) EXCEPT
                                 !.free = @ \ {p},
                                 !.cv[j].blocks = @ \cup {[va |-> b.va, pa |-> p]}],
                             j, B \ {b})

(* isr.c:203-266, one parent VMA, put at the head by setup_vma: a shared  *)
(* one with the same lma; one with a real lma gets a fresh page (the VMAs *)
(* of the layout are one page, order 0) as its lma and its pages block; a *)
(* demand-paged one gets copies of its pages blocks.  A failed setup_vma  *)
(* frees the fresh page; so does a failed add_pages_block, which leaves   *)
(* the VMA in the list.                                                    *)
CopyVma(F, v) ==
    IF ~F.ok THEN F
    ELSE IF ~KmallocOk(F) /\ (v.shared \/ v.lma = NOLMA) THEN Fail(Kmalloc(F))
    ELSE IF v.shared THEN [Kmalloc(F) EXCEPT !.cv = <<[v EXCEPT !.blocks = {}]>> \o @]
    ELSE IF v.lma # NOLMA
         THEN LET p == FirstFree(F.free)
                  F2 == [Kmalloc(F) EXCEPT
                            !.free = @ \ {p},
                            !.cv = <<[v EXCEPT !.lma = p, !.blocks = {}]>> \o @]
              IN  IF F.free = {} THEN Fail(F)
                  ELSE IF ~KmallocOk(F) THEN Fail(Kmalloc(F))
                  ELSE IF ~KmallocOk(F2)
                       THEN Fail([Kmalloc(F2) EXCEPT !.free = @ \cup {p}])
                  ELSE [Kmalloc(F2) EXCEPT !.cv[1].blocks = {[va |-> v.start, pa |-> p]}]
    ELSE LET cv1 == <<[v EXCEPT !.blocks = {}]>> \o F.cv
         IN  CopyBlocks([Kmalloc(F) EXCEPT !.cv = cv1], FindVma(cv1, v.start), v.blocks)

RECURSIVE CopyVmas(_, _)
CopyVmas(F, pl) == IF pl = << >> THEN F ELSE CopyVmas(CopyVma(F, Head(pl)), Tail(pl))

(* The user layout and page tables init sets up, main.c:252-346: the     *)
(* VMAs are put at the head in turn, brk is start_brk + PAGE_SIZE, and    *)
(* setup_user_page_mappings maps text and data.  Every other slot is free. *)
InitVmas == <<DATA, TEXT>>
InitSt == SetupUserPageMappings(
              [free |-> Pool \ {FirstFree(Pool)}, mem |-> [p \in Pool |-> Zero],
               halt |-> "none"],
              FirstFree(Pool), InitVmas)

Init ==
    /\ free = InitSt.free
    /\ mem = InitSt.mem
    /\ halt = InitSt.halt
    /\ live = [t \in Slots |-> t = InitSlot]
    /\ vmas = [t \in Slots |-> IF t = InitSlot THEN InitVmas ELSE << >>]
    /\ brk = [t \in Slots |-> IF t = InitSlot THEN START_BRK + PAGE_SIZE ELSE 0]
    /\ pgdir = [t \in Slots |-> IF t = InitSlot THEN FirstFree(Pool) ELSE 0]

Pool0 == [free |-> free, mem |-> mem, halt |-> "none"]

(* The kernel stops (assert(0) or a kernel data abort): only halt changes. *)
Stop(why) ==
    /\ halt' = why
    /\ UNCHANGED <<free, mem, live, vmas, brk, pgdir>>

(* do_exit, sched.c:396-406: exit_mm, then the task is STOPPED and its    *)
(* slot can be taken again (slot reclamation itself is modelled in Sched). *)
DoExit(t) ==
    LET st == ExitMm(Pool0, vmas[t], pgdir[t])
    IN  IF st.halt # "none" THEN Stop(st.halt)
        ELSE /\ free' = st.free
             /\ mem' = st.mem
             /\ live' = [live EXCEPT ![t] = FALSE]
             /\ vmas' = [vmas EXCEPT ![t] = << >>]
             /\ brk' = [brk EXCEPT ![t] = 0]
             /\ pgdir' = [pgdir EXCEPT ![t] = 0]
             /\ UNCHANGED halt

(* sys_fork by task t, whose kf-th kmalloc fails (0: none fails):        *)
(* get_task_slot takes the lowest free slot; the mm_struct is the first   *)
(* kmalloc, and its failure frees the slot only; the pg_dir is a zeroed   *)
(* page; the VMAs are copied, then the child's page tables are set up and *)
(* brk copied.  A later failure unwinds with exit_mm and frees the slot   *)
(* (isr.c:290-297).                                                        *)
SysFork(t, kf) ==
    /\ halt = "none"
    /\ live[t]
    /\ \E c \in Slots : ~live[c]
    /\ LET c == Min({s \in Slots : ~live[s]})
           pgd == IF free = {} THEN 0 ELSE FirstFree(free)
           F0 == [free |-> free \ {pgd},
                  mem |-> IF pgd = 0 THEN mem ELSE [mem EXCEPT ![pgd] = Zero],
                  cv |-> << >>, ok |-> pgd # 0, nk |-> 1, kf |-> kf]
           F1 == CopyVmas(F0, vmas[t])
           st == [free |-> F1.free, mem |-> F1.mem, halt |-> "none"]
           done == SetupUserPageMappings(st, pgd, F1.cv)
           undone == ExitMm(st, F1.cv, pgd)
       IN  IF kf = 1 THEN UNCHANGED vars
           ELSE IF ~F1.ok
           THEN /\ free' = undone.free
                /\ mem' = undone.mem
                /\ halt' = undone.halt
                /\ UNCHANGED <<live, vmas, brk, pgdir>>
           ELSE IF done.halt # "none" THEN Stop(done.halt)
           ELSE /\ free' = done.free
                /\ mem' = done.mem
                /\ live' = [live EXCEPT ![c] = TRUE]
                /\ vmas' = [vmas EXCEPT ![c] = F1.cv]
                /\ brk' = [brk EXCEPT ![c] = brk[t]]
                /\ pgdir' = [pgdir EXCEPT ![c] = pgd]
                /\ UNCHANGED halt

(* sys_exit, isr.c:362-367.                                                *)
SysExit(t) ==
    /\ halt = "none"
    /\ live[t]
    /\ DoExit(t)

(* The pages blocks of a VMA outside [newbrk, oldbrk) (isr.c:334-343).     *)
KeepBlocks(vl, i, newbrk, oldbrk) ==
    IF i = 0 THEN vl
    ELSE [vl EXCEPT ![i].blocks = {b \in @ : ~(newbrk <= b.va /\ b.va < oldbrk)}]

(* The `out:' tail of sys_brk, isr.c:347-356: a heap VMA [start_brk, brk) *)
(* is created when find_vma(start_brk) finds none, else its end is moved.  *)
BrkOut(vl, b) ==
    LET i == FindVma(vl, START_BRK)
    IN  IF i = 0
        THEN <<[start |-> START_BRK, end |-> b, shared |-> FALSE, write |-> TRUE,
                lma |-> NOLMA, blocks |-> {}]>> \o vl
        ELSE [vl EXCEPT ![i].end = b]

(* Mutants of sys_brk: without the test against MAX_BRK_ADDR; freeing the *)
(* pages of the dropped blocks as well, after the unmap freed them.       *)
SysBrkNoMaxCheck(t, addr) ==
    LET valid == addr # 0 /\ addr >= START_BRK
        newbrk == UpperPageAddr(addr)
        oldbrk == UpperPageAddr(brk[t])
        shrink == valid /\ newbrk < oldbrk
        st == IF shrink THEN UnmapUserPageMapping(Pool0, pgdir[t], newbrk, oldbrk)
              ELSE Pool0
        hv == FindVma(vmas[t], START_BRK)
        b == IF valid THEN addr ELSE brk[t]
        vl == BrkOut(IF shrink THEN KeepBlocks(vmas[t], hv, newbrk, oldbrk)
                     ELSE vmas[t], b)
    IN  /\ halt = "none"
        /\ live[t]
        /\ Len(vl) <= MaxVmas
        /\ IF st.halt # "none" THEN Stop(st.halt)
           ELSE IF shrink /\ hv = 0 THEN Stop("null_vma")
           ELSE /\ free' = st.free
                /\ mem' = st.mem
                /\ vmas' = [vmas EXCEPT ![t] = vl]
                /\ brk' = [brk EXCEPT ![t] = b]
                /\ UNCHANGED <<live, pgdir, halt>>

SysBrkFreeBlocks(t, addr) ==
    LET valid == addr # 0 /\ addr >= START_BRK /\ addr <= MAX_BRK_ADDR
        newbrk == UpperPageAddr(addr)
        oldbrk == UpperPageAddr(brk[t])
        shrink == valid /\ newbrk < oldbrk
        hv == FindVma(vmas[t], START_BRK)
        dropped == IF hv = 0 THEN {}
                   ELSE {x.pa : x \in {y \in vmas[t][hv].blocks :
                                          newbrk <= y.va /\ y.va < oldbrk}}
        st == IF shrink
              THEN FreeEach(UnmapUserPageMapping(Pool0, pgdir[t], newbrk, oldbrk),
                            dropped)
              ELSE Pool0
        b == IF valid THEN addr ELSE brk[t]
        vl == BrkOut(IF shrink THEN KeepBlocks(vmas[t], hv, newbrk, oldbrk)
                     ELSE vmas[t], b)
    IN  /\ halt = "none"
        /\ live[t]
        /\ Len(vl) <= MaxVmas
        /\ IF st.halt # "none" THEN Stop(st.halt)
           ELSE IF shrink /\ hv = 0 THEN Stop("null_vma")
           ELSE /\ free' = st.free
                /\ mem' = st.mem
                /\ vmas' = [vmas EXCEPT ![t] = vl]
                /\ brk' = [brk EXCEPT ![t] = b]
                /\ UNCHANGED <<live, pgdir, halt>>

(* sys_brk(addr), isr.c:300-360.  addr 0, below start_brk or above        *)
(* MAX_BRK_ADDR leaves brk alone.  Lowering the break unmaps the pages of *)
(* [newbrk, oldbrk), each freeing the page its entry held, and drops the  *)
(* pages blocks of that range from the VMA find_vma(start_brk) returns:   *)
(* a NULL VMA there is a kernel data abort.  Then brk is set and the heap *)
(* VMA created or resized.                                                 *)
SysBrk(t, addr) ==
    LET valid == addr # 0 /\ addr >= START_BRK /\ addr <= MAX_BRK_ADDR
        newbrk == UpperPageAddr(addr)
        oldbrk == UpperPageAddr(brk[t])
        shrink == valid /\ newbrk < oldbrk
        st == IF shrink THEN UnmapUserPageMapping(Pool0, pgdir[t], newbrk, oldbrk)
              ELSE Pool0
        hv == FindVma(vmas[t], START_BRK)
        b == IF valid THEN addr ELSE brk[t]
        vl == BrkOut(IF shrink THEN KeepBlocks(vmas[t], hv, newbrk, oldbrk)
                     ELSE vmas[t], b)
    IN  /\ halt = "none"
        /\ live[t]
        /\ Len(vl) <= MaxVmas
        /\ IF st.halt # "none" THEN Stop(st.halt)
           ELSE IF shrink /\ hv = 0 THEN Stop("null_vma")
           ELSE /\ free' = st.free
                /\ mem' = st.mem
                /\ vmas' = [vmas EXCEPT ![t] = vl]
                /\ brk' = [brk EXCEPT ![t] = b]
                /\ UNCHANGED <<live, pgdir, halt>>

(* The user access at addr by t traps: no translation, or a write to a    *)
(* page mapped read-only (only VMAs without VM_WRITE are mapped so).       *)
Traps(t, addr) ==
    LET i == FindVma(vmas[t], addr)
    IN  \/ Translate(mem, pgdir[t], addr) = 0
        \/ UserWritesText /\ i # 0 /\ ~vmas[t][i].write

(* do_el0_sync for an abort, isr.c:500-559.  Outside every VMA the task   *)
(* is killed with do_exit.  Inside one, a page from get_free_pages is      *)
(* mapped at PAGE_ADDR(addr) and recorded with add_pages_block, whose      *)
(* kmalloc may fail (the failure is only printed).  With no free page the  *)
(* handler returns and the access traps again: no step.                    *)
DoEl0Sync(t, addr, kmallocOk) ==
    LET i == FindVma(vmas[t], addr)
        p == FirstFree(free)
        st == SetupPgForAddr([Pool0 EXCEPT !.free = @ \ {p}], pgdir[t], 1, p,
                             PageAddr(addr))
    IN  /\ halt = "none"
        /\ live[t]
        /\ Traps(t, addr)
        /\ IF i = 0 THEN DoExit(t)
           ELSE /\ free # {}
                /\ IF st.halt # "none" THEN Stop(st.halt)
                   ELSE /\ free' = st.free
                        /\ mem' = st.mem
                        /\ vmas' = IF kmallocOk
                                   THEN [vmas EXCEPT ![t][i].blocks =
                                            @ \cup {[va |-> PageAddr(addr), pa |-> p]}]
                                   ELSE vmas
                        /\ UNCHANGED <<live, brk, pgdir, halt>>

UserVAs == 0 .. (MAX_BRK_ADDR - 1)
BrkArgs == 0 .. (MAX_BRK_ADDR + 1)

(* The kmalloc calls a fork of t makes: the mm_struct, one setup_vma per *)
(* VMA, one add_pages_block per copied VMA with an lma and per pages block *)
(* of a copied demand-paged VMA.                                          *)
ForkFailPoints(t) ==
    LET vl == vmas[t]
        copied(i) == ~vl[i].shared
        lmas == {i \in DOMAIN vl : copied(i) /\ vl[i].lma # NOLMA}
        demand == {i \in DOMAIN vl : copied(i) /\ vl[i].lma = NOLMA}
    IN  IF ForkKmallocFails
        THEN 0 .. (1 + Len(vl) + Cardinality(lmas)
                     + Cardinality(UNION {vl[i].blocks : i \in demand}))
        ELSE {0}

Next ==
    \E t \in Slots :
        \/ \E kf \in ForkFailPoints(t) : SysFork(t, kf)
        \/ SysExit(t)
        \/ \E a \in BrkArgs : SysBrk(t, a)
        \/ \E a \in UserVAs, ok \in KmallocResults : DoEl0Sync(t, a, ok)

Spec == Init /\ [][Next]_vars

-----------------------------------------------------------------------------

Vma == [start : 0 .. MAX_BRK_ADDR, end : 0 .. MAX_BRK_ADDR, shared : BOOLEAN,
        write : BOOLEAN, lma : Frames \cup {NOLMA},
        blocks : SUBSET [va : UserVAs, pa : Pool]]

TypeOK ==
    /\ free \subseteq Pool
    /\ mem \in [Pool -> [Ix -> Frames]]
    /\ live \in [Slots -> BOOLEAN]
    /\ \A t \in Slots : vmas[t] \in Seq(Vma) /\ Len(vmas[t]) <= MaxVmas
    /\ brk \in [Slots -> 0 .. MAX_BRK_ADDR]
    /\ pgdir \in [Slots -> 0 .. NumPages]
    /\ halt \in {"none", "no_table_page", "double_free", "null_vma"}

Live == {t \in Slots : live[t]}

(* The state as far as any step can tell: a pool page is read as a table  *)
(* only while it is a table page of a live task (the walks start at a     *)
(* pg_dir and follow table entries; get_zeroed_pages clears a new table), *)
(* so what other pages hold is left out.                                   *)
View ==
    LET T == UNION {TablePages(mem, pgdir[t]) : t \in Live}
    IN  <<free, [p \in Pool |-> IF p \in T THEN mem[p] ELSE Zero],
          live, vmas, brk, pgdir, halt>>

(* The pool pages task t holds: its page-table pages, the pages its       *)
(* tables map, and the pages of its pages blocks.                          *)
Tables(t) == TablePages(mem, pgdir[t])
Mapped(t) == {Translate(mem, pgdir[t], a) : a \in UserVAs} \cap Pool
Owned(t) == Tables(t) \cup Mapped(t) \cup BlockPages(vmas[t])

(* No page of the pool is used twice: what a live task holds is not free, *)
(* two live tasks never hold the same page (fork copies every page that   *)
(* is not VM_SHARED), and no page is both a page table and a user page.   *)
(* Lowering the break must clear the entry of every page it frees.         *)
PageOwnership ==
    /\ \A t \in Live : Owned(t) \cap free = {}
    /\ \A t, u \in Live : t # u => Owned(t) \cap Owned(u) = {}
    /\ \A t \in Live : Tables(t) \cap (Mapped(t) \cup BlockPages(vmas[t])) = {}

(* free_pages never meets a page that is already free (its assert(0)):    *)
(* the pages sys_brk unmaps leave their VMA's pages blocks, so exit_mm    *)
(* does not free them again.                                               *)
NoDoubleFree == halt # "double_free"

(* Every page taken from the pool is held by a live task: exit_mm and the *)
(* unmapping of sys_brk give back every page a task was given.            *)
NoPageLeak == \A p \in Pool \ free : \E t \in Live : p \in Owned(t)


(* Spec section 7: running out of pages is recoverable and a user's bad   *)
(* argument or fault is not a kernel error; only a memory-corruption      *)
(* invariant (free_pages's assert on a free page) may halt the kernel.    *)
(* The kernel stops instead when setup_pg_for_addr finds no page for a    *)
(* table (page_table.c:42) or sys_brk shrinks a heap no brk has created   *)
(* (isr.c:333).                                                            *)
HaltsOnlyOnCorruption == halt \in {"none", "double_free"}

=============================================================================
