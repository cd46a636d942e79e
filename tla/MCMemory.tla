----------------------------- MODULE MCMemory -----------------------------
(***************************************************************************)
(* The two allocators of src/mm in one model-checking run: the page       *)
(* allocator of MCPageAlloc with one caller, and the heap of MCHeap.  They *)
(* share no state (the heap's pool comes from kernel_mock_sbrk, not from  *)
(* get_free_pages), so a behaviour of this module is a behaviour of one of *)
(* them, chosen by part in the initial state, with the other standing      *)
(* still.  Both are safety specifications, so the sum checks exactly what *)
(* the two runs would.                                                     *)
(***************************************************************************)
EXTENDS Naturals

CONSTANTS NumPages, Orders, Callers, HDR, TAIL, PoolMax, Requests

VARIABLES pages_usage, pc, cand, owned, halted, ret,   \* PageAlloc
          blks, total_length, hret,                     \* Heap
          part

P == INSTANCE PageAlloc
H == INSTANCE Heap WITH ret <- hret

pvars == <<pages_usage, pc, cand, owned, halted, ret>>
hvars == <<blks, total_length, hret>>
vars == <<pvars, hvars, part>>

MCNumPages == 8
MCOrders == {0, 1, 2, 3}
MCHDR == 32
MCTAIL == 8
MCPoolMax == 320
MCRequests == {8, 20, 64}

Init == P!Init /\ H!Init /\ part \in {"pages", "heap"}

Next ==
    \/ part = "pages" /\ P!Next /\ UNCHANGED <<blks, total_length, hret, part>>
    \/ part = "heap" /\ H!Next
       /\ UNCHANGED <<pages_usage, pc, cand, owned, halted, ret, part>>

Spec == Init /\ [][Next]_vars

-----------------------------------------------------------------------------
(* The properties of the two modules, stated there.                       *)

(* PageAlloc: the types of its variables.                                 *)
PageTypeOK == P!TypeOK

(* PageAlloc: the bitmap marks exactly the pages the callers hold.        *)
UsageMatchesOwners == P!UsageMatchesOwners

(* PageAlloc: get_free_pages and free_pages implement PhysPages.           *)
AbstractSpec == P!AbstractSpec

(* Heap: the types of its variables.                                      *)
HeapTypeOK == H!TypeOK

(* Heap: free_mem and enlarge_mem_pool leave no two free neighbours.      *)
NoAdjacentFree == H!NoAdjacentFree

(* Heap: alloc_mem then free_mem of its pointer gives the pool back.      *)
AllocFreeRoundTrip == H!AllocFreeRoundTrip
=============================================================================
