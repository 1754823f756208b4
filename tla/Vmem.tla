-------------------------------- MODULE Vmem --------------------------------
(***************************************************************************)
(* The virtual memory layer (vmem.c, vmem_unix.c, vmem_windows.c): an      *)
(* address space out of which regions are reserved, committed and          *)
(* released.  An address is one cell; a cell holds one value.              *)
(*                                                                         *)
(* What the operating system decides is left open: which free range a      *)
(* reservation gets, whether a call fails, and (ReleaseMayFail) whether a  *)
(* release that only logs its failure really gave the range back.  A       *)
(* failing call is the caller's alternative to the operator below: it      *)
(* leaves every variable here alone.                                       *)
(***************************************************************************)
EXTENDS Integers

CONSTANTS
    CommitGranularity,  \* w_get_commit_granularity(): the page size
    AllocGranularity,   \* w_get_alloc_granularity(): unit of reservations
    AddressEnd,         \* first address past the user address space
    ReleaseMayFail      \* may munmap()/VirtualFree() fail?

(* On Unix both granularities are the page size (vmem_unix.c:30-52), on    *)
(* Windows the page size divides the allocation granularity.               *)
ASSUME GranularityAssumption ==
    /\ CommitGranularity \in Nat \ {0}
    /\ AllocGranularity \in Nat \ {0}
    /\ AllocGranularity % CommitGranularity = 0
    /\ AddressEnd \in Nat
    /\ ReleaseMayFail \in BOOLEAN

VARIABLES
    mapped, \* addresses that belong to some reservation
    rw,     \* the mapped addresses that are committed (readable, writable)
    cell    \* what each address holds

vmemVars == <<mapped, rw, cell>>

Null == 0   \* the NULL pointer; the range below AllocGranularity is never mapped

Addresses == AllocGranularity .. (AddressEnd - 1)

Span(addr, size) == addr .. (addr + size - 1)

Blank == <<>>   \* the content of a zeroed or unmapped cell

VmemInit ==
    /\ mapped = {}
    /\ rw = {}
    /\ cell = [a \in Addresses |-> Blank]

-----------------------------------------------------------------------------

\* (size + (g - 1)) & -g for a power of two g.
RoundUp(size, g) == ((size + (g - 1)) \div g) * g

w_round_up_alloc_size(size) == RoundUp(size, AllocGranularity)

\* Mutant: rounds down.
Mutant_w_round_up_commit_size(size) ==
    (size \div CommitGranularity) * CommitGranularity

w_round_up_commit_size(size) == RoundUp(size, CommitGranularity)

\* Where the system may place a reservation of size bytes.
Reservable(size) ==
    {a \in Addresses : /\ a % AllocGranularity = 0
                       /\ Span(a, size) \subseteq Addresses \ mapped}

w_vmem_create(addr, size) ==
    /\ addr \in Reservable(size)
    /\ mapped' = mapped \union Span(addr, size)
    /\ UNCHANGED <<rw, cell>>

w_vmem_commit(addr, size) ==
    /\ Span(addr, size) \subseteq mapped
    /\ rw' = rw \union Span(addr, size)
    /\ UNCHANGED <<mapped, cell>>

\* The memory c once nobody may read Span(addr, size) any more: what those
\* cells hold is indeterminate, written Blank.
Forgotten(c, addr, size) ==
    [a \in Addresses |-> IF a \in Span(addr, size) THEN Blank ELSE c[a]]

\* The memory c after memcpy(dst, src, size).
Copied(c, dst, src, size) ==
    [a \in Addresses |-> IF a \in Span(dst, size) THEN c[src + (a - dst)]
                                                  ELSE c[a]]

\* Mutant: the pages of a released region stay committed.
Mutant_w_vmem_destroy(addr, size) ==
    /\ cell' = Forgotten(cell, addr, size)
    /\ mapped' = mapped \ Span(addr, size)
    /\ rw' = rw

(* The status of munmap() is logged and dropped: the caller goes on either *)
(* way.                                                                    *)
w_vmem_destroy(addr, size) ==
    /\ cell' = Forgotten(cell, addr, size)
    /\ \/ /\ mapped' = mapped \ Span(addr, size)
          /\ rw' = rw \ Span(addr, size)
       \/ ReleaseMayFail /\ UNCHANGED <<mapped, rw>>

w_copy_mem(dst, src, size) ==
    /\ cell' = Copied(cell, dst, src, size)
    /\ UNCHANGED <<mapped, rw>>

=============================================================================
