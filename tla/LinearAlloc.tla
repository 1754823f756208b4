---------------------------- MODULE LinearAlloc ----------------------------
(***************************************************************************)
(* The linear allocator of mem.c on top of Vmem, and the client that calls *)
(* it.  The allocator appends blocks to one reservation, commits pages on  *)
(* demand and, once the reservation is too small, moves everything to a    *)
(* larger one.                                                             *)
(*                                                                         *)
(* A call that needs memory is a sequence of steps, one per system call,   *)
(* because each of them can fail and has its own way out:                  *)
(*                                                                         *)
(*   Reserve -> CommitBuffer -> MoveContents -> ReleaseOld -> Return       *)
(*        \-> failed    \-> UndoReserve -> failed                          *)
(*   CommitMore -> Return         (or failed)                              *)
(*                                                                         *)
(* Modelled build: W_TRACING disabled; W_DEBUGGING as Asserts says.        *)
(***************************************************************************)
EXTENDS Vmem

CONSTANTS
    Blocks,         \* the clients' pointer variables
    InitialSizes,   \* arguments of w_linear_alloc_create()
    Sizes,          \* arguments of allocate and reallocate
    Alignments,     \* alignments requested
    MayShrink,      \* does a client reallocate a block to a smaller size?
    Asserts,        \* is W_ASSERT compiled in?
    WordSize        \* SIZE_MAX + 1

ASSUME LinearAllocAssumption ==
    /\ InitialSizes \subseteq Nat \ {0}
    /\ Sizes \subseteq Nat
    /\ Alignments \subseteq Nat \ {0}
    /\ MayShrink \in BOOLEAN
    /\ Asserts \in BOOLEAN
    /\ WordSize \in Nat
    /\ WordSize > 2 * AddressEnd

VARIABLES
    pc,         \* where the call in progress is
    mem,        \* alloc->mem.addr
    reserved, committed, used,  \* the fields of struct w_linear_alloc
    buf,        \* mem_buf.addr of wp_mem_realloc(), Null outside of it
    call,       \* the locals of the call in progress
    status,     \* what the last call returned
    blk         \* per pointer variable, what its client knows of the block

vars == <<vmemVars, pc, mem, reserved, committed, used, buf, call, status, blk>>

allocVars == <<mem, reserved, committed, used>>

NoCall == [op |-> "none", b |-> Null, off |-> 0, old |-> 0, size |-> 0,
           align |-> 1, last |-> FALSE, used |-> 0]

(* ptr is the pointer the client holds; off is ptr - mem.addr at the time  *)
(* it was handed out; the first init bytes have been written.              *)
NoBlock == [ptr |-> Null, off |-> 0, size |-> 0, align |-> 1, init |-> 0]

Created == pc \notin {"absent", "abort", "fault"}

\* The blocks a client holds a pointer to.
Held == {b \in Blocks : blk[b].ptr # Null}

\* The allocator has not moved since the client computed the pointer.
Fresh(b) == blk[b].ptr = mem + blk[b].off

\* The value a client stores in byte i of block b.
Datum(b, i) == <<b, i>>

Init ==
    /\ VmemInit
    /\ pc = "absent"
    /\ mem = Null /\ buf = Null
    /\ reserved = 0 /\ committed = 0 /\ used = 0
    /\ call = NoCall
    /\ status = "W_SUCCESS"
    /\ blk = [b \in Blocks |-> NoBlock]

-----------------------------------------------------------------------------
(* Size computations.                                                      *)

Larger(a, b) == IF a > b THEN a ELSE b

\* Mutant: doubling is taken to be always enough.
Mutant_wp_mem_grow_reserved_size(size, requested) == size * 2

Smaller(a, b) == IF a < b THEN a ELSE b

wp_mem_grow_reserved_size(size, requested) == Larger(size * 2, requested)

\* Mutant: the remainder instead of what is missing.
Mutant_Padding(end, alignment) == end % alignment

\* W_MEM_ALIGN_UP(end, alignment) - end
Padding(end, alignment) == RoundUp(end, alignment) - end

\* The sizes of the new reservation and of its committed part.
NewReserved ==
    w_round_up_alloc_size(wp_mem_grow_reserved_size(reserved, call.used))

NewCommitted == w_round_up_commit_size(call.used)

(* The condition asserted before used + (new - old) is computed in an      *)
(* unsigned word (mem.c:385-387).                                          *)
SumFits(old, new) == used + ((new - old) % WordSize) < WordSize

-----------------------------------------------------------------------------
(* Entering and leaving a call.                                            *)

(* wp_mem_linear_alloc_ensure_has_enough_space(): which way a call that    *)
(* brings the used size to c.used has to go.                               *)
Enter(c) ==
    /\ call' = c
    /\ pc' = CASE c.used > reserved -> "reserve"
               [] c.used <= reserved /\ c.used > committed -> "commit"
               [] OTHER -> "return"

Fail ==
    /\ status' = "W_ERROR_ALLOC_FAILED"
    /\ pc' = "idle"
    /\ call' = NoCall

Succeed ==
    /\ status' = "W_SUCCESS"
    /\ pc' = "idle"
    /\ call' = NoCall

-----------------------------------------------------------------------------
(* The allocator's functions up to their first system call.                *)

w_linear_alloc_create(size) ==
    /\ pc = "absent"
    /\ \/ \E a \in Reservable(w_round_up_alloc_size(size)) :
            /\ w_vmem_create(a, w_round_up_alloc_size(size))
            /\ mem' = a
            /\ reserved' = w_round_up_alloc_size(size)
            /\ committed' = 0
            /\ used' = 0
            /\ pc' = "idle"
            /\ status' = "W_SUCCESS"
       \/ /\ status' = "W_ERROR_ALLOC_FAILED"
          /\ UNCHANGED <<vmemVars, allocVars, pc>>
    /\ UNCHANGED <<buf, call, blk>>

(* Its clients must not use their pointers any more: they forget them.     *)
w_linear_alloc_destroy ==
    /\ pc = "idle"
    /\ w_vmem_destroy(mem, reserved)
    /\ pc' = "absent"
    /\ blk' = [b \in Blocks |-> NoBlock]
    /\ UNCHANGED <<allocVars, buf, call, status>>

(* The body of w_linear_alloc_allocate(), also reached from reallocate     *)
(* with a NULL pointer.                                                    *)
w_linear_alloc_allocate(b, size, alignment) ==
    /\ pc = "idle"
    /\ blk[b].ptr = Null
    /\ \/ /\ size = 0       \* *ptr = NULL
          /\ status' = "W_SUCCESS"
          /\ UNCHANGED <<pc, call>>
       \/ /\ size > 0
          /\ Enter([op |-> "allocate", b |-> b, off |-> 0, old |-> 0,
                    size |-> size, align |-> alignment, last |-> FALSE,
                    used |-> used + Padding(mem + used, alignment) + size])
          /\ UNCHANGED status
    /\ UNCHANGED <<vmemVars, allocVars, buf, blk>>

(* Nothing is given back: the client forgets its pointer and the content.  *)
w_linear_alloc_free(b) ==
    /\ pc = "idle"
    /\ b \in Held
    /\ cell' = Forgotten(cell, mem + blk[b].off, blk[b].size)
    /\ blk' = [blk EXCEPT ![b] = NoBlock]
    /\ UNCHANGED <<mapped, rw, allocVars, pc, buf, call, status>>

(* new_size = 0: the block is freed, yet success is returned with *ptr     *)
(* left as it was.                                                         *)
ReallocateToZero(b) ==
    /\ pc = "idle"
    /\ b \in Held /\ Fresh(b)
    /\ status' = "W_SUCCESS"
    /\ cell' = Forgotten(cell, blk[b].ptr, blk[b].size)
    /\ blk' = [blk EXCEPT ![b].size = 0, ![b].init = 0]
    /\ UNCHANGED <<mapped, rw, allocVars, pc, buf, call>>

(* w_linear_alloc_reallocate() of a non-NULL pointer to size > 0 bytes.    *)
(* A debug build stops at the failing assertion; otherwise the unsigned    *)
(* sum wraps back to the difference.                                       *)
w_linear_alloc_reallocate(b, size) ==
    LET old    == blk[b].size
        off    == blk[b].ptr - mem
        end    == mem + used
        last   == blk[b].ptr + old = end
        total  == IF last
                    THEN used + (size - old)
                    ELSE used + Padding(end, blk[b].align) + size
    IN  /\ pc = "idle"
        /\ b \in Held /\ Fresh(b)
        /\ size > 0
        /\ MayShrink \/ size >= old
        /\ IF Asserts /\ last /\ ~SumFits(old, size)
             THEN pc' = "abort" /\ UNCHANGED call
             ELSE Enter([op |-> "reallocate", b |-> b, off |-> off,
                         old |-> old, size |-> size,
                         align |-> blk[b].align, last |-> last,
                         used |-> total])
        /\ UNCHANGED <<vmemVars, allocVars, buf, status, blk>>

-----------------------------------------------------------------------------
(* wp_mem_realloc(): a larger reservation replaces the current one.        *)

Reserve ==
    /\ pc = "reserve"
    /\ \/ \E a \in Reservable(NewReserved) :
            /\ w_vmem_create(a, NewReserved)
            /\ buf' = a
            /\ pc' = "commit_buffer"
            /\ UNCHANGED <<call, status>>
       \/ Fail /\ UNCHANGED <<vmemVars, buf>>
    /\ UNCHANGED <<allocVars, blk>>

CommitBuffer ==
    /\ pc = "commit_buffer"
    /\ \/ w_vmem_commit(buf, NewCommitted) /\ pc' = "move"
       \/ UNCHANGED vmemVars /\ pc' = "undo"
    /\ UNCHANGED <<allocVars, buf, call, status, blk>>

\* Mutant: the new reservation is not given back.
Mutant_UndoReserve_Leak ==
    /\ pc = "undo"
    /\ buf' = Null
    /\ Fail
    /\ UNCHANGED <<vmemVars, allocVars, blk>>

\* Mutant: the wrong one of the two reservations is given back.
Mutant_UndoReserve_Wrong ==
    /\ pc = "undo"
    /\ w_vmem_destroy(mem, reserved)
    /\ buf' = Null
    /\ Fail
    /\ UNCHANGED <<allocVars, blk>>

UndoReserve ==
    /\ pc = "undo"
    /\ w_vmem_destroy(buf, NewReserved)
    /\ buf' = Null
    /\ Fail
    /\ UNCHANGED <<allocVars, blk>>

\* Mutant: one byte less is moved.
Mutant_MoveContents ==
    /\ pc = "move"
    /\ w_copy_mem(buf, mem, used - 1)
    /\ pc' = "release"
    /\ UNCHANGED <<allocVars, buf, call, status, blk>>

MoveContents ==
    /\ pc = "move"
    /\ w_copy_mem(buf, mem, used)
    /\ pc' = "release"
    /\ UNCHANGED <<allocVars, buf, call, status, blk>>

\* Mutant: the size of the committed part is not stored back.
Mutant_ReleaseOld_Committed ==
    /\ pc = "release"
    /\ w_vmem_destroy(mem, reserved)
    /\ mem' = buf
    /\ reserved' = NewReserved
    /\ buf' = Null
    /\ pc' = "return"
    /\ UNCHANGED <<used, committed, call, status, blk>>

ReleaseOld ==
    /\ pc = "release"
    /\ w_vmem_destroy(mem, reserved)
    /\ mem' = buf
    /\ reserved' = NewReserved
    /\ committed' = NewCommitted
    /\ buf' = Null
    /\ pc' = "return"
    /\ UNCHANGED <<used, call, status, blk>>

(* The reservation is large enough, its committed part is not.             *)
CommitMore ==
    /\ pc = "commit"
    /\ \/ /\ w_vmem_commit(mem, NewCommitted)
          /\ committed' = NewCommitted
          /\ pc' = "return"
          /\ UNCHANGED <<call, status>>
       \/ Fail /\ UNCHANGED <<vmemVars, committed>>
    /\ UNCHANGED <<mem, reserved, used, buf, blk>>

-----------------------------------------------------------------------------
(* The end of a call that has the space it needs.                          *)

\* Mutant: the end of the block instead of its beginning.
Mutant_NewOffset == call.used

NewOffset == call.used - call.size

\* Mutant: alloc->used is not updated.
Mutant_AllocateReturn ==
    /\ pc = "return" /\ call.op = "allocate"
    /\ blk' = [blk EXCEPT ![call.b] =
                 [ptr |-> mem + NewOffset, off |-> NewOffset,
                  size |-> call.size, align |-> call.align, init |-> 0]]
    /\ Succeed
    /\ UNCHANGED <<vmemVars, allocVars, buf>>

AllocateReturn ==
    /\ pc = "return" /\ call.op = "allocate"
    /\ used' = call.used
    /\ blk' = [blk EXCEPT ![call.b] =
                 [ptr |-> mem + NewOffset, off |-> NewOffset,
                  size |-> call.size, align |-> call.align, init |-> 0]]
    /\ Succeed
    /\ UNCHANGED <<vmemVars, mem, reserved, committed, buf>>

\* What w_copy_mem(new_ptr, old_ptr, old_size) reads and writes.
Touched ==
    IF call.last THEN {}
    ELSE Span(mem + call.off, call.old) \union Span(mem + NewOffset, call.old)

\* Mutant: nothing is copied.
Mutant_ReallocateReturn ==
    /\ pc = "return" /\ call.op = "reallocate"
    /\ used' = call.used
    /\ blk' = [blk EXCEPT ![call.b] =
                 [ptr |-> mem + NewOffset, off |-> NewOffset,
                  size |-> call.size, align |-> call.align,
                  init |-> Smaller(@.init, call.size)]]
    /\ Succeed
    /\ UNCHANGED <<vmemVars, mem, reserved, committed, buf>>

(* The last block stays where it is; the others are copied to the end,     *)
(* old_size bytes whatever the new size is, and leave their old place.     *)
ReallocateReturn ==
    /\ pc = "return" /\ call.op = "reallocate"
    /\ Touched \subseteq rw
    /\ cell' = IF call.last
                 THEN Forgotten(cell, mem + call.used, call.old - call.size)
                 ELSE Forgotten(
                        Copied(cell, mem + NewOffset, mem + call.off, call.old),
                        mem + call.off, call.old)
    /\ used' = call.used
    /\ blk' = [blk EXCEPT ![call.b] =
                 [ptr |-> mem + NewOffset, off |-> NewOffset,
                  size |-> call.size, align |-> call.align,
                  init |-> Smaller(@.init, call.size)]]
    /\ Succeed
    /\ UNCHANGED <<mapped, rw, mem, reserved, committed, buf>>

(* The copy touches a page that is not committed.                          *)
ReallocateFault ==
    /\ pc = "return" /\ call.op = "reallocate"
    /\ ~(Touched \subseteq rw)
    /\ pc' = "fault"
    /\ UNCHANGED <<vmemVars, allocVars, buf, call, status, blk>>

-----------------------------------------------------------------------------
(* The client between its calls.                                           *)

\* It fills a block it can still address.
ClientWrite(b) ==
    /\ pc = "idle"
    /\ b \in Held /\ Fresh(b)
    /\ blk[b].init < blk[b].size
    /\ cell' = [a \in Addresses |->
                  IF a \in Span(blk[b].ptr, blk[b].size)
                    THEN Datum(b, a - blk[b].ptr) ELSE cell[a]]
    /\ blk' = [blk EXCEPT ![b].init = blk[b].size]
    /\ UNCHANGED <<mapped, rw, allocVars, pc, buf, call, status>>

(* After the allocator moved, a pointer is computed again from mem.addr,   *)
(* the way the tests do.                                                   *)
ClientRefresh(b) ==
    /\ pc = "idle"
    /\ b \in Held /\ ~Fresh(b)
    /\ blk' = [blk EXCEPT ![b].ptr = mem + blk[b].off]
    /\ UNCHANGED <<vmemVars, allocVars, pc, buf, call, status>>

-----------------------------------------------------------------------------

Next ==
    \/ \E size \in InitialSizes : w_linear_alloc_create(size)
    \/ w_linear_alloc_destroy
    \/ \E b \in Blocks, size \in Sizes, alignment \in Alignments :
         w_linear_alloc_allocate(b, size, alignment)
    \/ \E b \in Blocks : w_linear_alloc_free(b)
    \/ \E b \in Blocks : ReallocateToZero(b)
    \/ \E b \in Blocks, size \in Sizes : w_linear_alloc_reallocate(b, size)
    \/ Reserve
    \/ CommitBuffer
    \/ UndoReserve
    \/ MoveContents
    \/ ReleaseOld
    \/ CommitMore
    \/ AllocateReturn
    \/ ReallocateReturn
    \/ ReallocateFault
    \/ \E b \in Blocks : ClientWrite(b)
    \/ \E b \in Blocks : ClientRefresh(b)

Spec == Init /\ [][Next]_vars

-----------------------------------------------------------------------------
(* Properties.                                                             *)

\* The bytes that belong to a held block; a block reallocated to zero bytes
\* keeps the address it designates.
Extent(b) == Larger(blk[b].size, 1)

\* The calls that may be in progress; NoCall between calls.
Calls == [op : {"none", "allocate", "reallocate"}, b : Blocks \union {Null},
          off : Nat, old : Nat, size : Nat, align : Nat \ {0},
          last : BOOLEAN, used : Nat]

FieldsTypeOK ==
    /\ pc \in {"absent", "idle", "reserve", "commit_buffer", "undo", "move",
               "release", "commit", "return", "fault", "abort"}
    /\ mem \in Nat /\ buf \in Nat
    /\ reserved \in Nat /\ committed \in Nat /\ used \in Nat
    /\ call \in Calls
    /\ status \in {"W_SUCCESS", "W_ERROR_ALLOC_FAILED"}
    /\ blk \in [Blocks -> [ptr : Nat, off : Nat, size : Nat,
                           align : Nat \ {0}, init : Nat]]

MemoryTypeOK ==
    /\ mapped \subseteq Addresses
    /\ rw \subseteq mapped
    /\ cell \in [Addresses -> {Blank} \union (Blocks \X Nat)]

\* The variables have the shape the code gives them.
TypeOK == FieldsTypeOK /\ MemoryTypeOK

(* At every step of every call, failed ones included, the used bytes are   *)
(* committed, the committed ones reserved, and both are whole numbers of   *)
(* the system's granules (the three fields kept by mem.c:119-170).         *)
SizesNested ==
    Created =>
        /\ used <= committed
        /\ committed <= reserved
        /\ committed % CommitGranularity = 0
        /\ reserved % AllocGranularity = 0
        /\ mem % AllocGranularity = 0

(* The requests made to the virtual memory layer meet what it asserts      *)
(* (vmem_unix.c:65-66, 171-183): never empty, whole granules, and the      *)
(* committed range inside the reservation although it is rounded up with   *)
(* the other granularity.  The reservation at least doubles.               *)
VmemRequestsValid ==
    /\ pc \in {"reserve", "commit_buffer", "undo", "move", "release"} =>
        /\ NewReserved >= 2 * reserved
        /\ NewReserved > 0
        /\ NewReserved % AllocGranularity = 0
        /\ call.used <= NewCommitted
        /\ NewCommitted <= NewReserved
        /\ NewCommitted % CommitGranularity = 0
    /\ pc = "commit" =>
        /\ committed < NewCommitted
        /\ NewCommitted <= reserved

(* The allocator holds its reservation and, during a move, the new one;    *)
(* with releases that do not fail it holds nothing else, so neither a      *)
(* failed growth (mem.c:88-90) nor a move leaks or returns too much.       *)
OwnsItsRegions ==
    LET live   == IF Created THEN Span(mem, reserved) ELSE {}
        buffer == IF Created /\ buf # Null THEN Span(buf, NewReserved) ELSE {}
    IN  Created =>
          /\ live \union buffer \subseteq mapped
          /\ live \intersect buffer = {}
          /\ ReleaseMayFail \/ mapped = live \union buffer
          /\ Span(mem, committed) \subseteq rw
          /\ pc \in {"move", "release"} => Span(buf, NewCommitted) \subseteq rw
          /\ ReleaseMayFail
               \/ rw = Span(mem, committed) \union
                        (IF pc \in {"move", "release"}
                           THEN Span(buf, NewCommitted) ELSE {})

\* A call c was computed from the fields and blocks as they still are: a block
\* that is not the last goes past the used part, at an aligned offset.
Consistent(c) ==
    /\ c.op # "none"
    /\ c.b \in Blocks
    /\ 0 < c.size /\ c.size <= c.used
    /\ ~c.last =>
         /\ used <= c.used - c.size
         /\ AllocGranularity % c.align = 0 => (c.used - c.size) % c.align = 0
    /\ c.op = "allocate" =>
         c.b \notin Held /\ ~c.last /\ c.old = 0
    /\ c.op = "reallocate" =>
         /\ c.b \in Held
         /\ c.off = blk[c.b].off /\ c.old = blk[c.b].size
         /\ c.align = blk[c.b].align
         /\ MayShrink \/ c.old <= c.size
         /\ c.last => c.off + c.old = used /\ c.used = c.off + c.size

(* Between the first step of a call and its last, whatever was moved or    *)
(* committed on the way, its locals describe the allocator it started on   *)
(* (the values mem.c:378-402 computes before the calls of 404 and uses     *)
(* after them), and it is on the way that leads to enough space.           *)
CallConsistent ==
    /\ pc \in {"reserve", "commit_buffer", "undo", "move", "release"} =>
         Consistent(call) /\ reserved < call.used
    /\ pc = "commit" =>
         Consistent(call) /\ committed < call.used /\ call.used <= reserved
    /\ pc = "return" => Consistent(call) /\ call.used <= committed
    /\ pc \in {"commit_buffer", "undo", "move", "release"} <=> buf # Null
    /\ buf % AllocGranularity = 0

\* The copy of a move reads and writes committed memory (mem.c:81).
MoveTouchesCommitted ==
    pc = "move" => Span(mem, used) \union Span(buf, used) \subseteq rw

(* No two blocks share a byte, and the address of a block reallocated to   *)
(* zero bytes is not handed out again.                                     *)
BlocksDisjoint ==
    Created =>
        \A b, c \in Held :
            \/ b = c
            \/ blk[b].off + Extent(b) <= blk[c].off
            \/ blk[c].off + Extent(c) <= blk[b].off

\* Every block lies inside the used, hence committed, part.
BlocksWithinUsed ==
    Created => \A b \in Held : blk[b].off + Extent(b) <= used

(* What a client wrote to a block is at the block's place, whatever was    *)
(* allocated, grown, shrunk, freed or moved since, and at every step of a  *)
(* call in progress.                                                       *)
DataIntact ==
    Created =>
        \A b \in Held : \A i \in 0 .. (blk[b].init - 1) :
            cell[mem + blk[b].off + i] = Datum(b, i)

(* A pointer has the alignment it was requested with, even after a move,   *)
(* when the alignment divides the granularity of reservations.             *)
PointersAligned ==
    Created =>
        \A b \in Held :
            AllocGranularity % blk[b].align = 0
                => (mem + blk[b].off) % blk[b].align = 0

\* A copy never leaves the committed memory (mem.c:413-416).
NeverFaults == pc # "fault"

-----------------------------------------------------------------------------
(* The allocator implements Arena: its moves, failures and undo steps are  *)
(* invisible in the contents of the blocks.                                *)

BlockContents(b) ==
    IF Created /\ b \in Held
      THEN [held |-> TRUE, size |-> blk[b].size,
            bytes |-> [i \in 1 .. blk[b].init |->
                         cell[mem + blk[b].off + (i - 1)]]]
      ELSE [held |-> FALSE, size |-> 0, bytes |-> <<>>]

Abstract == INSTANCE Arena WITH
    open   <- Created,
    block  <- [b \in Blocks |-> BlockContents(b)],
    result <- status

\* Every behaviour is one of the abstract arena.
ImplementsArena == Abstract!Spec

=============================================================================
