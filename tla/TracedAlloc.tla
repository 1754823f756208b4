----------------------------- MODULE TracedAlloc -----------------------------
(***************************************************************************)
(* LinearAlloc in a debug build with tracing, which is what a build        *)
(* without NDEBUG is.  vmem_unix.c traces the size of every region under   *)
(* the address of its struct w_vmem, mem.c the size and the alignment of   *)
(* every block under its address; both compare what they are told with     *)
(* what was traced, and a comparison that fails ends the program.          *)
(*                                                                         *)
(* Each action is one of LinearAlloc with the tracing around it.  The      *)
(* pools hold what this allocator traces; they are in use by one thread,   *)
(* for Tracer is about several.  Asserts says whether the assertions of    *)
(* LinearAlloc are compiled in, those about the pools always are.          *)
(***************************************************************************)
EXTENDS LinearAlloc, TracePool, FiniteSets

CONSTANTS
    AllocMem,       \* &alloc->mem
    Locals,         \* where &mem_buf may be when wp_mem_realloc() runs
    VmemCapacity,   \* the capacity of wp_vmem_tracer
    PtrCapacity     \* the capacity of a ptr_pool

ASSUME TracedAllocAssumption ==
    /\ AllocMem \notin Locals
    /\ VmemCapacity \in Nat \ {0, 1}
    /\ PtrCapacity \in Nat

VARIABLES
    regions,    \* wp_vmem_tracer
    ptrs,       \* the ptr_pool of the allocator
    local,      \* &mem_buf of the call in progress
    moved,      \* history: did a call replace the reservation?
    resized     \* history: the blocks resized where they were

traceVars == <<regions, ptrs, local, moved, resized>>

tracedVars == <<vars, traceVars>>

TracedInit ==
    /\ Init
    /\ regions = EmptyPool(VmemCapacity)
    /\ ptrs = EmptyPool(PtrCapacity)
    /\ local = AllocMem
    /\ moved = FALSE
    /\ resized = {}

\* The program ends: at an assertion ("abort") or at a null pointer ("fault").
StopAt(label) ==
    /\ pc' = label
    /\ UNCHANGED <<vmemVars, allocVars, buf, call, status, blk, traceVars>>

-----------------------------------------------------------------------------
(* The regions (vmem_unix.c).                                              *)

TraceRegion(key, size) ==
    \E i \in Vacant(regions) : regions' = Inserted(regions, i, key, size)

RegionSize(key) == {regions[i].data : i \in Found(regions, key)}

\* W_TRACER_FIND_DATA gives NULL for what is not traced, and the assertion
\* after it reads through it.
StopForRegion(key) == StopAt(IF RegionSize(key) = {} THEN "fault" ELSE "abort")

\* The assertions of w_vmem_commit() (170-175).
CommitChecked(key, size) == \E s \in RegionSize(key) : size <= s

CommitRefused(key, size) == ~CommitChecked(key, size) /\ StopForRegion(key)

\* The one of w_vmem_destroy() (133), and W_TRACER_DETACH_DATA.
DestroyChecked(key, size) ==
    \E i \in Found(regions, key) :
        /\ regions[i].data = size
        /\ regions' = Removed(regions, i)

DestroyRefused(key, size) == size \notin RegionSize(key) /\ StopForRegion(key)

-----------------------------------------------------------------------------
(* Creation and destruction.                                               *)

TracedCreate(size) ==
    /\ w_linear_alloc_create(size)
    /\ \/ /\ pc' = "idle"
          /\ TraceRegion(AllocMem, reserved')
          /\ ptrs' = EmptyPool(PtrCapacity)
       \/ pc' = "absent" /\ UNCHANGED <<regions, ptrs>>
    /\ UNCHANGED <<local, moved, resized>>

TracedDestroy ==
    \/ /\ w_linear_alloc_destroy
       /\ DestroyChecked(AllocMem, reserved)
       /\ ptrs' = EmptyPool(PtrCapacity)
       /\ moved' = FALSE
       /\ resized' = {}
       /\ UNCHANGED local
    \/ pc = "idle" /\ DestroyRefused(AllocMem, reserved)

-----------------------------------------------------------------------------
(* wp_mem_realloc(): the new region is traced under the address of a local *)
(* variable, whose value is then copied to alloc->mem.                     *)

TracedReserve ==
    /\ Reserve
    /\ \/ /\ pc' = "commit_buffer"
          /\ local' \in Locals
          /\ TraceRegion(local', NewReserved)
       \/ pc' = "idle" /\ UNCHANGED <<regions, local>>
    /\ UNCHANGED <<ptrs, moved, resized>>

TracedCommitBuffer ==
    /\ pc = "commit_buffer"
    /\ \/ /\ CommitChecked(local, NewCommitted)
          /\ CommitBuffer
          /\ UNCHANGED traceVars
       \/ CommitRefused(local, NewCommitted)

\* What is traced under the address of mem_buf is its region: two of them under
\* one address do not come past the commit.
TracedUndoReserve ==
    /\ UndoReserve
    /\ DestroyChecked(local, NewReserved)
    /\ UNCHANGED <<ptrs, local, moved, resized>>

TracedReleaseOld ==
    \/ /\ ReleaseOld
       /\ DestroyChecked(AllocMem, reserved)
       /\ moved' = TRUE
       /\ UNCHANGED <<ptrs, local, resized>>
    \/ pc = "release" /\ DestroyRefused(AllocMem, reserved)

TracedCommitMore ==
    /\ pc = "commit"
    /\ \/ /\ CommitChecked(AllocMem, NewCommitted)
          /\ CommitMore
          /\ UNCHANGED traceVars
       \/ CommitRefused(AllocMem, NewCommitted)

-----------------------------------------------------------------------------
(* The blocks (mem.c).                                                     *)

Label(size, align) == [size |-> size, align |-> align]

\* The entry of a block says what its client says (344-347).
Traced(b) ==
    \E i \in Found(ptrs, blk[b].ptr) :
        ptrs[i].data = Label(blk[b].size, blk[b].align)

TracedAllocate(b, size, alignment) ==
    w_linear_alloc_allocate(b, size, alignment) /\ UNCHANGED traceVars

TracedAllocateReturn ==
    /\ pc = "return" /\ call.op = "allocate"
    /\ \/ /\ AllocateReturn
          /\ \E i \in Vacant(ptrs) :
               ptrs' = Inserted(ptrs, i, mem + NewOffset,
                                Label(call.size, call.align))
          /\ UNCHANGED <<regions, local, moved, resized>>
       \/ Vacant(ptrs) = {} /\ StopAt("abort")

TracedFree(b) ==
    \/ /\ w_linear_alloc_free(b)
       /\ \E i \in Found(ptrs, blk[b].ptr) : ptrs' = Removed(ptrs, i)
       /\ resized' = resized \ {b}
       /\ UNCHANGED <<regions, local, moved>>
    \/ /\ pc = "idle" /\ b \in Held
       /\ Found(ptrs, blk[b].ptr) = {}
       /\ StopAt("abort")

\* What was allocated with a size of zero: the key of an entry is never NULL.
FreeNull(b) ==
    /\ pc = "idle"
    /\ b \notin Held
    /\ StopAt("abort")

\* The free that it makes is given ptr in place of *ptr, which no entry has for
\* key (374).
TracedReallocateToZero(b) ==
    /\ pc = "idle"
    /\ b \in Held /\ Fresh(b)
    /\ StopAt("abort")

TracedReallocate(b, size) ==
    \/ /\ Traced(b)
       /\ w_linear_alloc_reallocate(b, size)
       /\ UNCHANGED traceVars
    \/ /\ pc = "idle" /\ size > 0
       /\ b \in Held /\ Fresh(b)
       /\ ~Traced(b)
       /\ StopAt("abort")

\* Mutant: the block is traced at its new place as well.
Mutant_TracedReallocateReturn ==
    /\ ReallocateReturn
    /\ \/ /\ blk[call.b].ptr # mem + NewOffset
          /\ \E i \in Vacant(ptrs) :
               ptrs' = Inserted(ptrs, i, mem + NewOffset,
                                Label(call.size, call.align))
          /\ resized' = resized \ {call.b}
       \/ /\ blk[call.b].ptr = mem + NewOffset
          /\ resized' = IF call.size = call.old THEN resized
                                                ELSE resized \union {call.b}
          /\ UNCHANGED ptrs
    /\ UNCHANGED <<regions, local, moved>>

\* A block that comes to another address is traced anew; one that stays where
\* it is keeps its entry, with its former size (419).
TracedReallocateReturn ==
    /\ ReallocateReturn
    /\ \/ /\ blk[call.b].ptr # mem + NewOffset
          /\ \E i \in Found(ptrs, blk[call.b].ptr) :
               LET rest == Removed(ptrs, i)
               IN  \E j \in Vacant(rest) :
                     ptrs' = Inserted(rest, j, mem + NewOffset,
                                      Label(call.size, call.align))
          /\ resized' = resized \ {call.b}
       \/ /\ blk[call.b].ptr = mem + NewOffset
          /\ resized' = IF call.size = call.old THEN resized
                                                ELSE resized \union {call.b}
          /\ UNCHANGED ptrs
    /\ UNCHANGED <<regions, local, moved>>

-----------------------------------------------------------------------------

TracedNext ==
    \/ \E size \in InitialSizes : TracedCreate(size)
    \/ TracedDestroy
    \/ \E b \in Blocks, size \in Sizes, alignment \in Alignments :
         TracedAllocate(b, size, alignment)
    \/ \E b \in Blocks : TracedFree(b) \/ FreeNull(b) \/ TracedReallocateToZero(b)
    \/ \E b \in Blocks, size \in Sizes : TracedReallocate(b, size)
    \/ TracedReserve \/ TracedCommitBuffer \/ TracedUndoReserve
    \/ TracedReleaseOld \/ TracedCommitMore
    \/ TracedAllocateReturn \/ TracedReallocateReturn
    \/ /\ \/ MoveContents
          \/ ReallocateFault
          \/ \E b \in Blocks : ClientWrite(b) \/ ClientRefresh(b)
       /\ UNCHANGED traceVars

TracedSpec == TracedInit /\ [][TracedNext]_tracedVars

-----------------------------------------------------------------------------
(* Properties.                                                             *)

Entries(pool) == {i \in DOMAIN pool : pool[i].valid}

(* Up to the first move, at every step of every call, what is traced is    *)
(* what there is: the region or the two of them with their sizes, and each *)
(* block with its size and alignment, unless it was resized where it was.  *)
(* After moves as well, an entry found under the address of a block is not *)
(* that of another, and none is lost or left (vmem_unix.c:105-155,         *)
(* mem.c:281-296, 418-436).                                                *)
TraceFollowsClients ==
    Created =>
        /\ ~moved =>
             /\ RegionSize(AllocMem) = {reserved}
             /\ Cardinality(Entries(regions)) = IF buf = Null THEN 1 ELSE 2
             /\ \A b \in Held : Found(ptrs, blk[b].ptr) # {}
        /\ buf # Null /\ pc # "commit_buffer" =>
             RegionSize(local) = {NewReserved}
        /\ \A b \in Held \ resized : Found(ptrs, blk[b].ptr) # {} => Traced(b)
        /\ Cardinality(Entries(ptrs)) = Cardinality(Held)

\* "size == trace_data->size" (vmem_unix.c:133): between calls, the region of
\* the allocator is traced with its size.
RegionIsTraced == pc = "idle" => RegionSize(AllocMem) = {reserved}

=============================================================================
