------------------------- MODULE LinearAllocProofs -------------------------
(***************************************************************************)
(* Theorems about LinearAlloc for every address space, granularities, set  *)
(* of clients, sizes and alignments, and about TracedAlloc, which extends  *)
(* it, for every capacity of the pools as well.  The invariants are proved *)
(* in layers, each one inductive relative to those before it.              *)
(***************************************************************************)
EXTENDS TracedAlloc, SequenceTheorems, FiniteSetTheorems,
        WellFoundedInduction, TLAPS

-----------------------------------------------------------------------------
(* What rounding to a granularity returns, for every size and granularity. *)
(* The rest rests on these facts only: it expands neither RoundUp nor a    *)
(* division.                                                               *)

\* Euclidean division, as the solver knows it.
LEMMA DivMod ==
    ASSUME NEW x \in Int, NEW g \in Nat \ {0}
    PROVE  /\ x \div g \in Int
           /\ x % g \in 0 .. (g - 1)
           /\ x = (g * (x \div g)) + (x % g)
  BY SMT

\* A product is a multiple of its factors.
LEMMA MulMod ==
    ASSUME NEW k \in Int, NEW g \in Nat \ {0}
    PROVE  (k * g) % g = 0
  BY SMT

\* A multiple is a product.
LEMMA ModMul ==
    ASSUME NEW x \in Int, NEW g \in Nat \ {0}, x % g = 0
    PROVE  \E k \in Int : x = k * g
  <1>1. x = (x \div g) * g
    BY DivMod, SMT
  <1>. QED
    BY <1>1, DivMod

\* Sums of multiples are multiples.
LEMMA ModSum ==
    ASSUME NEW x \in Int, NEW y \in Int, NEW g \in Nat \ {0},
           x % g = 0, y % g = 0
    PROVE  (x + y) % g = 0
  <1>1. PICK k \in Int : x = k * g
    BY ModMul
  <1>2. PICK j \in Int : y = j * g
    BY ModMul
  <1>3. x + y = (k + j) * g
    BY <1>1, <1>2, SMT
  <1>. QED
    BY <1>3, MulMod

\* So are their differences.
LEMMA ModDifference ==
    ASSUME NEW x \in Int, NEW y \in Int, NEW g \in Nat \ {0},
           x % g = 0, y % g = 0
    PROVE  (x - y) % g = 0
  <1>1. PICK k \in Int : x = k * g
    BY ModMul
  <1>2. PICK j \in Int : y = j * g
    BY ModMul
  <1>3. x - y = (k - j) * g
    BY <1>1, <1>2, SMT
  <1>. QED
    BY <1>3, MulMod

\* Divisibility is transitive: a whole number of reservation units is a
\* whole number of pages.
LEMMA ModTransitive ==
    ASSUME NEW x \in Int, NEW a \in Nat \ {0}, NEW c \in Nat \ {0},
           x % a = 0, a % c = 0
    PROVE  x % c = 0
  <1>1. PICK k \in Int : x = k * a
    BY ModMul
  <1>2. PICK j \in Int : a = j * c
    BY ModMul
  <1>3. x = (k * j) * c
    BY <1>1, <1>2, SMT
  <1>. QED
    BY <1>3, MulMod

\* Rounding up (vmem.c:33-34, 47-48) gives a multiple, not below the size and
\* less than one granule above it.
LEMMA RoundUpBounds ==
    ASSUME NEW x \in Nat, NEW g \in Nat \ {0}
    PROVE  /\ RoundUp(x, g) \in Nat
           /\ RoundUp(x, g) >= x
           /\ RoundUp(x, g) < x + g
           /\ RoundUp(x, g) % g = 0
  <1> DEFINE y == x + (g - 1)
             q == y \div g
  <1>1. y \in Int
    OBVIOUS
  <1>2. RoundUp(x, g) = q * g
    BY DEF RoundUp
  <1>3. y = x + (g - 1)
    OBVIOUS
  <1> HIDE DEF y
  <1>4. /\ q \in Int
        /\ y % g \in 0 .. (g - 1)
        /\ y = (g * q) + (y % g)
    BY <1>1, DivMod
  <1> HIDE DEF q
  <1>5. q * g = g * q /\ q * g \in Int
    BY <1>4, SMT
  <1>6. (q * g) % g = 0
    BY <1>4, MulMod
  <1>. QED
    BY <1>2, <1>3, <1>4, <1>5, <1>6, SMT

\* Rounding up does not pass a multiple that is large enough.
LEMMA RoundUpLeast ==
    ASSUME NEW x \in Nat, NEW g \in Nat \ {0}, NEW r \in Nat,
           x <= r, r % g = 0
    PROVE  RoundUp(x, g) <= r
  <1>1. PICK k \in Int : r = k * g
    BY ModMul
  <1>2. RoundUp(x, g) \in Int /\ RoundUp(x, g) % g = 0
    BY RoundUpBounds
  <1>3. RoundUp(x, g) < r + g
    BY RoundUpBounds
  <1>4. PICK j \in Int : RoundUp(x, g) = j * g
    BY <1>2, ModMul
  <1>5. j * g < (k + 1) * g
    BY <1>1, <1>3, <1>4, SMT
  <1>6. j < k + 1
    BY <1>5, SMT
  <1>. QED
    BY <1>1, <1>4, <1>6, SMT

-----------------------------------------------------------------------------
(* Size computations.                                                      *)

\* The sizes wp_mem_realloc() is called with fit the request and each other,
\* although they are rounded with two different granularities.
LEMMA GrowBounds ==
    ASSUME NEW r \in Nat, NEW u \in Nat
    PROVE  LET R == w_round_up_alloc_size(wp_mem_grow_reserved_size(r, u))
               C == w_round_up_commit_size(u)
           IN  /\ R \in Nat /\ R >= 2 * r /\ R >= u
               /\ R % AllocGranularity = 0
               /\ C \in Nat /\ u <= C /\ C <= R
               /\ C % CommitGranularity = 0
  <1> DEFINE G == wp_mem_grow_reserved_size(r, u)
             R == w_round_up_alloc_size(G)
             C == w_round_up_commit_size(u)
  <1>1. G \in Nat /\ G >= 2 * r /\ G >= u
    BY DEF wp_mem_grow_reserved_size, Larger
  <1> HIDE DEF G
  <1>2. R \in Nat /\ R >= G /\ R % AllocGranularity = 0
    BY <1>1, RoundUpBounds, GranularityAssumption DEF w_round_up_alloc_size
  <1>3. C \in Nat /\ C >= u /\ C % CommitGranularity = 0
    BY RoundUpBounds, GranularityAssumption DEF w_round_up_commit_size
  <1>4. R % CommitGranularity = 0
    BY <1>2, ModTransitive, GranularityAssumption
  <1> HIDE DEF R
  <1>5. C <= R
    BY <1>1, <1>2, <1>4, RoundUpLeast, GranularityAssumption
       DEF w_round_up_commit_size
  <1> HIDE DEF C
  <1>6. R \in Nat /\ R >= 2 * r /\ R >= u /\ R % AllocGranularity = 0
    BY <1>1, <1>2
  <1>. QED
    BY <1>3, <1>5, <1>6 DEF R, C, G

\* Committing within the reservation stays within it.
LEMMA CommitBounds ==
    ASSUME NEW r \in Nat, NEW u \in Nat, u <= r, r % AllocGranularity = 0
    PROVE  /\ w_round_up_commit_size(u) \in Nat
           /\ u <= w_round_up_commit_size(u)
           /\ w_round_up_commit_size(u) <= r
           /\ w_round_up_commit_size(u) % CommitGranularity = 0
  <1>1. r \in Int /\ AllocGranularity % CommitGranularity = 0
    BY GranularityAssumption
  <1>2. r % CommitGranularity = 0
    BY <1>1, ModTransitive, GranularityAssumption
  <1>. QED
    BY <1>2, RoundUpBounds, RoundUpLeast, GranularityAssumption
       DEF w_round_up_commit_size

\* The padding is not negative and aligns the end of the used part.
LEMMA PaddingBounds ==
    ASSUME NEW end \in Nat, NEW a \in Nat \ {0}
    PROVE  /\ Padding(end, a) \in Nat
           /\ (end + Padding(end, a)) % a = 0
  <1>1. RoundUp(end, a) \in Nat /\ RoundUp(end, a) >= end
        /\ RoundUp(end, a) % a = 0
    BY RoundUpBounds
  <1>2. end + Padding(end, a) = RoundUp(end, a)
    BY <1>1 DEF Padding
  <1>. QED
    BY <1>1, <1>2 DEF Padding

\* The offset after the padding is aligned whenever every base address is.
LEMMA PaddedOffsetAligned ==
    ASSUME NEW base \in Nat, NEW u \in Nat, NEW a \in Nat \ {0},
           base % AllocGranularity = 0, AllocGranularity % a = 0
    PROVE  (u + Padding(base + u, a)) % a = 0
  <1> DEFINE p == Padding(base + u, a)
  <1>1. base \in Int /\ base + u \in Nat
    OBVIOUS
  <1>2. base % a = 0
    BY <1>1, ModTransitive, GranularityAssumption
  <1>3. p \in Nat /\ ((base + u) + p) % a = 0
    BY <1>1, PaddingBounds
  <1> HIDE DEF p
  <1>4. (base + u) + p \in Int
    BY <1>1, <1>3
  <1>5. (((base + u) + p) - base) % a = 0
    BY <1>1, <1>2, <1>3, <1>4, ModDifference
  <1>6. ((base + u) + p) - base = u + p
    BY <1>3
  <1>7. (u + p) % a = 0
    BY <1>5, <1>6
  <1>. QED
    BY <1>7 DEF p

-----------------------------------------------------------------------------
(* First layer: the fields of the allocator and the call in progress.      *)

SizesInv ==
    /\ FieldsTypeOK
    /\ SizesNested
    /\ VmemRequestsValid
    /\ CallConsistent

\* Between calls a call may be entered with any consistent locals.
LEMMA EnterPreserves ==
    ASSUME SizesInv, pc = "idle",
           NEW c \in Calls, Consistent(c), Enter(c),
           UNCHANGED <<allocVars, buf, blk, status>>
    PROVE  SizesInv'
  <1> USE DEF allocVars
  <1>1. call' = c /\ c.used \in Nat /\ c.used > 0
    BY DEF Enter, Consistent, Calls
  <1>2. pc' \in {"reserve", "commit", "return"}
    BY DEF Enter
  <1>3. FieldsTypeOK'
    BY <1>1, <1>2 DEF SizesInv, FieldsTypeOK
  <1>4. SizesNested'
    BY <1>2 DEF SizesInv, SizesNested, Created
  <1>5. /\ pc' = "reserve" => c.used > reserved
        /\ pc' = "commit" => c.used <= reserved /\ c.used > committed
        /\ pc' = "return" => c.used <= committed
    BY <1>1 DEF Enter, SizesInv, FieldsTypeOK, SizesNested, Created
  <1>6. Consistent(call)'
    BY <1>1 DEF Consistent, Held
  <1>7. CallConsistent'
    BY <1>2, <1>5, <1>6, <1>1 DEF SizesInv, CallConsistent
  <1>8. VmemRequestsValid'
    <2>1. CASE pc' = "reserve"
      <3> DEFINE R == w_round_up_alloc_size(
                        wp_mem_grow_reserved_size(reserved, c.used))
                 C == w_round_up_commit_size(c.used)
      <3>1. reserved \in Nat /\ reserved' = reserved
        BY DEF SizesInv, FieldsTypeOK
      <3>2. /\ R \in Nat /\ R >= 2 * reserved /\ R >= c.used
            /\ R % AllocGranularity = 0
            /\ C \in Nat /\ c.used <= C /\ C <= R
            /\ C % CommitGranularity = 0
        BY <1>1, <3>1, GrowBounds
      <3>3. NewReserved' = R /\ NewCommitted' = C
        BY <1>1, <3>1 DEF NewReserved, NewCommitted
      <3> HIDE DEF R, C
      <3>. QED
        BY <1>1, <2>1, <3>1, <3>2, <3>3 DEF VmemRequestsValid
    <2>2. CASE pc' = "commit"
      BY <2>2, <1>1, <1>5, CommitBounds
         DEF VmemRequestsValid, NewReserved, NewCommitted, SizesInv,
             FieldsTypeOK, SizesNested, Created
    <2>3. CASE pc' = "return"
      BY <2>3 DEF VmemRequestsValid
    <2>. QED
      BY <1>2, <2>1, <2>2, <2>3
  <1>. QED
    BY <1>3, <1>4, <1>7, <1>8 DEF SizesInv

\* The sizes start consistent: there is no allocator yet.
LEMMA SizesInit == Init => SizesInv
  BY GranularityAssumption
     DEF Init, SizesInv, FieldsTypeOK, SizesNested, VmemRequestsValid,
         CallConsistent, Created, Calls, NoCall, NoBlock, Null

\* Leaving a call without space touches nothing but the status.
LEMMA FailPreserves ==
    ASSUME SizesInv, Created, Fail, buf' = Null, UNCHANGED <<allocVars, blk>>
    PROVE  SizesInv'
  <1>1. 0 % AllocGranularity = 0
    BY MulMod, GranularityAssumption
  <1>. QED
    BY <1>1
       DEF allocVars, Fail, SizesInv, FieldsTypeOK, SizesNested, Created,
           VmemRequestsValid, CallConsistent, Calls, NoCall, Null

\* The sizes computed for a call do not change while it is in progress.
LEMMA SizesStable ==
    ASSUME UNCHANGED <<reserved, call>>
    PROVE  NewReserved' = NewReserved /\ NewCommitted' = NewCommitted
  BY DEF NewReserved, NewCommitted

\* A consistent call stays so while its locals, the used size and the blocks
\* are left alone.
LEMMA ConsistentStable ==
    ASSUME UNCHANGED <<used, call, blk>>, Consistent(call)
    PROVE  Consistent(call)'
  BY DEF Consistent, Held

\* Every step of every call, failed ones included, keeps the sizes and the
\* locals of the call consistent (mem.c:119-170 and its callers).
LEMMA SizesNext ==
    ASSUME SizesInv, [Next]_vars
    PROVE  SizesInv'
  <1> USE DEF allocVars
  <1>1. ASSUME NEW size \in InitialSizes, w_linear_alloc_create(size)
        PROVE  SizesInv'
    <2>1. CASE pc' = "absent"
      BY <1>1, <2>1
         DEF w_linear_alloc_create, SizesInv, FieldsTypeOK, SizesNested,
             Created, VmemRequestsValid, CallConsistent
    <2>2. CASE pc' = "idle"
      <3>1. /\ size \in Nat
            /\ w_round_up_alloc_size(size) \in Nat
            /\ w_round_up_alloc_size(size) % AllocGranularity = 0
        BY RoundUpBounds, GranularityAssumption, LinearAllocAssumption
           DEF w_round_up_alloc_size
      <3>2. PICK a \in Reservable(w_round_up_alloc_size(size)) :
              /\ mem' = a
              /\ reserved' = w_round_up_alloc_size(size)
              /\ committed' = 0 /\ used' = 0
              /\ status' = "W_SUCCESS"
        BY <1>1, <2>2 DEF w_linear_alloc_create
      <3>3. a \in Nat /\ a % AllocGranularity = 0
        BY GranularityAssumption DEF Reservable, Addresses
      <3>4. 0 % CommitGranularity = 0
        BY MulMod, GranularityAssumption
      <3>. QED
        BY <1>1, <2>2, <3>1, <3>2, <3>3, <3>4
           DEF w_linear_alloc_create, SizesInv, FieldsTypeOK, SizesNested,
               Created, VmemRequestsValid, CallConsistent
    <2>. QED
      BY <1>1, <2>1, <2>2 DEF w_linear_alloc_create
  <1>2. CASE w_linear_alloc_destroy
    BY <1>2 DEF w_linear_alloc_destroy, SizesInv, FieldsTypeOK, SizesNested,
                Created, VmemRequestsValid, CallConsistent, NoBlock, Null
  <1>3. ASSUME NEW b \in Blocks, NEW size \in Sizes,
               NEW alignment \in Alignments,
               w_linear_alloc_allocate(b, size, alignment)
        PROVE  SizesInv'
    <2>1. CASE size = 0
      BY <1>3, <2>1
         DEF w_linear_alloc_allocate, SizesInv, FieldsTypeOK, SizesNested,
             Created, VmemRequestsValid, CallConsistent
    <2>2. CASE size > 0
      <3> DEFINE pad == Padding(mem + used, alignment)
                 c == [op |-> "allocate", b |-> b, off |-> 0, old |-> 0,
                       size |-> size, align |-> alignment, last |-> FALSE,
                       used |-> used + pad + size]
      <3>1. /\ size \in Nat /\ alignment \in Nat \ {0}
            /\ mem \in Nat /\ used \in Nat
        BY LinearAllocAssumption DEF SizesInv, FieldsTypeOK
      <3>2. pad \in Nat
        <4>1. mem + used \in Nat
          BY <3>1
        <4>. QED
          BY <3>1, <4>1, PaddingBounds
      <3>3. AllocGranularity % alignment = 0 => (used + pad) % alignment = 0
        <4>1. mem % AllocGranularity = 0
          BY <1>3 DEF w_linear_alloc_allocate, SizesInv, SizesNested, Created
        <4>. QED
          BY <3>1, <4>1, PaddedOffsetAligned
      <3>4. /\ pc = "idle" /\ blk[b].ptr = Null /\ Enter(c)
            /\ UNCHANGED <<allocVars, buf, blk, status>>
        BY <1>3, <2>2 DEF w_linear_alloc_allocate
      <3> HIDE DEF pad
      <3>5. c \in Calls
        BY <3>1, <3>2 DEF Calls
      <3>6. /\ c.used - c.size = used + pad
            /\ 0 < c.size /\ c.size <= c.used
        BY <2>2, <3>1, <3>2
      <3>7. Consistent(c)
        BY <3>1, <3>2, <3>3, <3>4, <3>6 DEF Consistent, Held
      <3> HIDE DEF c
      <3>. QED
        BY <3>4, <3>5, <3>7, EnterPreserves
    <2>. QED
      BY <1>3, <2>1, <2>2 DEF w_linear_alloc_allocate
  <1>4. ASSUME NEW b \in Blocks, w_linear_alloc_free(b)
        PROVE  SizesInv'
    BY <1>4 DEF w_linear_alloc_free, SizesInv, FieldsTypeOK, SizesNested,
                Created, VmemRequestsValid, CallConsistent, NoBlock, Null
  <1>5. ASSUME NEW b \in Blocks, ReallocateToZero(b)
        PROVE  SizesInv'
    BY <1>5 DEF ReallocateToZero, SizesInv, FieldsTypeOK, SizesNested,
                Created, VmemRequestsValid, CallConsistent
  <1>6. ASSUME NEW b \in Blocks, NEW size \in Sizes,
               w_linear_alloc_reallocate(b, size)
        PROVE  SizesInv'
    <2> DEFINE old   == blk[b].size
               off   == blk[b].ptr - mem
               last  == blk[b].ptr + old = mem + used
               pad   == Padding(mem + used, blk[b].align)
               total == IF last THEN used + (size - old)
                                ELSE used + pad + size
               c == [op |-> "reallocate", b |-> b, off |-> off, old |-> old,
                     size |-> size, align |-> blk[b].align, last |-> last,
                     used |-> total]
    <2>1. CASE pc' = "abort"
      BY <1>6, <2>1
         DEF w_linear_alloc_reallocate, SizesInv, FieldsTypeOK, SizesNested,
             Created, VmemRequestsValid, CallConsistent, Enter
    <2>2. CASE pc' # "abort"
      <3>1. /\ pc = "idle" /\ b \in Held /\ Fresh(b) /\ size > 0
            /\ MayShrink \/ size >= old
            /\ Enter(c)
            /\ UNCHANGED <<allocVars, buf, blk, status>>
        BY <1>6, <2>2 DEF w_linear_alloc_reallocate
      <3>2. /\ size \in Nat /\ mem \in Nat /\ used \in Nat
            /\ blk[b].ptr \in Nat /\ old \in Nat
            /\ blk[b].align \in Nat \ {0} /\ blk[b].off \in Nat
        BY LinearAllocAssumption DEF SizesInv, FieldsTypeOK
      <3>3. off = blk[b].off /\ (last <=> off + old = used)
        <4>1. blk[b].ptr = mem + blk[b].off
          BY <3>1 DEF Fresh
        <4>2. (blk[b].ptr + old = mem + used) <=> (blk[b].off + old = used)
          BY <3>2, <4>1
        <4>. QED
          BY <3>2, <4>1, <4>2
      <3>4. pad \in Nat
        <4>1. mem + used \in Nat
          BY <3>2
        <4>. QED
          BY <3>2, <4>1, PaddingBounds
      <3>5. AllocGranularity % blk[b].align = 0
              => (used + pad) % blk[b].align = 0
        <4>1. mem % AllocGranularity = 0
          BY <3>1 DEF SizesInv, SizesNested, Created
        <4>. QED
          BY <3>2, <4>1, PaddedOffsetAligned
      <3> HIDE DEF pad
      <3>6. /\ total \in Nat
            /\ last => total = off + size
            /\ ~last => total - size = used + pad
            /\ size <= total
        BY <3>2, <3>3, <3>4
      <3> HIDE DEF total, last, off, old
      <3>7. c \in Calls
        BY <3>2, <3>3, <3>6 DEF Calls, last
      <3>8. /\ c.op = "reallocate" /\ c.b = b /\ c.off = off /\ c.old = old
            /\ c.size = size /\ c.align = blk[b].align /\ c.last = last
            /\ c.used = total
        OBVIOUS
      <3> HIDE DEF c
      <3>9. Consistent(c)
        <4>1. /\ c.op # "none" /\ c.b \in Blocks
              /\ 0 < c.size /\ c.size <= c.used
          BY <3>1, <3>2, <3>6, <3>8
        <4>2. ~c.last =>
                /\ used <= c.used - c.size
                /\ AllocGranularity % c.align = 0
                     => (c.used - c.size) % c.align = 0
          BY <3>2, <3>4, <3>5, <3>6, <3>8
        <4>3. /\ c.b \in Held
              /\ c.off = blk[c.b].off /\ c.old = blk[c.b].size
              /\ c.align = blk[c.b].align
              /\ MayShrink \/ c.old <= c.size
          BY <3>1, <3>2, <3>3, <3>8 DEF old
        <4>4. c.last => c.off + c.old = used /\ c.used = c.off + c.size
          BY <3>3, <3>6, <3>8
        <4>. QED
          BY <3>8, <4>1, <4>2, <4>3, <4>4 DEF Consistent
      <3>. QED
        BY <3>1, <3>7, <3>9, EnterPreserves
    <2>. QED
      BY <2>1, <2>2
  <1>7. CASE Reserve
    <2>1. CASE pc' = "commit_buffer"
      <3>1. PICK a \in Reservable(NewReserved) : buf' = a
        BY <1>7, <2>1 DEF Reserve, Fail
      <3>2. a \in Nat \ {0} /\ a % AllocGranularity = 0
        BY GranularityAssumption DEF Reservable, Addresses
      <3>3. UNCHANGED <<allocVars, blk, call, status>> /\ pc = "reserve"
        BY <1>7, <2>1 DEF Reserve, Fail
      <3>4. Consistent(call)'
        BY <3>3, ConsistentStable DEF SizesInv, CallConsistent
      <3>5. NewReserved' = NewReserved /\ NewCommitted' = NewCommitted
        BY <3>3, SizesStable
      <3>. QED
        BY <2>1, <3>1, <3>2, <3>3, <3>4, <3>5
           DEF SizesInv, FieldsTypeOK, SizesNested, Created,
               VmemRequestsValid, CallConsistent, Null
    <2>2. CASE pc' # "commit_buffer"
      <3>1. Fail /\ UNCHANGED <<buf, allocVars, blk>> /\ pc = "reserve"
        BY <1>7, <2>2 DEF Reserve
      <3>2. buf = Null
        BY <3>1 DEF SizesInv, CallConsistent
      <3>. QED
        BY <3>1, <3>2, FailPreserves DEF Created
    <2>. QED
      BY <2>1, <2>2
  <1>8. CASE CommitBuffer
    <2>1. /\ UNCHANGED <<allocVars, buf, call, status, blk>>
          /\ pc = "commit_buffer" /\ pc' \in {"move", "undo"}
      BY <1>8 DEF CommitBuffer
    <2>. QED
      BY <2>1, ConsistentStable, SizesStable
         DEF SizesInv, FieldsTypeOK, SizesNested, Created,
             VmemRequestsValid, CallConsistent
  <1>9. CASE UndoReserve
    <2>1. Fail /\ buf' = Null /\ UNCHANGED <<allocVars, blk>> /\ pc = "undo"
      BY <1>9 DEF UndoReserve
    <2>. QED
      BY <2>1, FailPreserves DEF Created
  <1>10. CASE MoveContents
    <2>1. /\ UNCHANGED <<allocVars, buf, call, status, blk>>
          /\ pc = "move" /\ pc' = "release"
      BY <1>10 DEF MoveContents
    <2>. QED
      BY <2>1, ConsistentStable, SizesStable
         DEF SizesInv, FieldsTypeOK, SizesNested, Created,
             VmemRequestsValid, CallConsistent
  <1>11. CASE ReleaseOld
    <2>1. /\ mem' = buf /\ reserved' = NewReserved
          /\ committed' = NewCommitted /\ buf' = Null
          /\ pc = "release" /\ pc' = "return"
          /\ UNCHANGED <<used, call, status, blk>>
      BY <1>11 DEF ReleaseOld
    <2>2. /\ reserved \in Nat /\ call.used \in Nat /\ used \in Nat
          /\ reserved < call.used /\ used <= reserved
      BY <2>1 DEF SizesInv, FieldsTypeOK, Calls, SizesNested, Created,
                  CallConsistent
    <2>3. /\ NewReserved \in Nat /\ NewReserved >= 2 * reserved
          /\ NewReserved >= call.used
          /\ NewReserved % AllocGranularity = 0
          /\ NewCommitted \in Nat /\ call.used <= NewCommitted
          /\ NewCommitted <= NewReserved
          /\ NewCommitted % CommitGranularity = 0
      BY <2>2, GrowBounds DEF NewReserved, NewCommitted
    <2>4. Consistent(call)'
      BY <2>1, ConsistentStable DEF SizesInv, CallConsistent
    <2>5. 0 % AllocGranularity = 0
      BY MulMod, GranularityAssumption
    <2>6. SizesNested'
      BY <2>1, <2>2, <2>3 DEF SizesInv, SizesNested, CallConsistent,
                              FieldsTypeOK
    <2>7. FieldsTypeOK'
      BY <2>1, <2>3 DEF SizesInv, FieldsTypeOK, Null
    <2>8. VmemRequestsValid'
      BY <2>1 DEF VmemRequestsValid
    <2>9. CallConsistent'
      BY <2>1, <2>3, <2>4, <2>5 DEF CallConsistent, Null
    <2>. QED
      BY <2>6, <2>7, <2>8, <2>9 DEF SizesInv
  <1>12. CASE CommitMore
    <2>1. CASE pc' = "return"
      <3>1. /\ committed' = NewCommitted /\ pc = "commit"
            /\ UNCHANGED <<mem, reserved, used, buf, blk, call, status>>
        BY <1>12, <2>1 DEF CommitMore, Fail
      <3>2. /\ reserved \in Nat /\ call.used \in Nat
            /\ call.used <= reserved /\ reserved % AllocGranularity = 0
        BY <3>1 DEF SizesInv, FieldsTypeOK, Calls, SizesNested, Created,
                    CallConsistent
      <3>3. /\ NewCommitted \in Nat /\ call.used <= NewCommitted
            /\ NewCommitted <= reserved
            /\ NewCommitted % CommitGranularity = 0
            /\ committed < NewCommitted
        <4>1. committed < NewCommitted
          BY <3>1 DEF SizesInv, VmemRequestsValid
        <4>. QED
          BY <3>2, <4>1, CommitBounds DEF NewCommitted
      <3>4. Consistent(call)'
        BY <3>1, ConsistentStable DEF SizesInv, CallConsistent
      <3>. QED
        BY <2>1, <3>1, <3>2, <3>3, <3>4
           DEF SizesInv, FieldsTypeOK, SizesNested, Created,
               VmemRequestsValid, CallConsistent
    <2>2. CASE pc' # "return"
      <3>1. Fail /\ UNCHANGED <<buf, allocVars, blk>> /\ pc = "commit"
        BY <1>12, <2>2 DEF CommitMore
      <3>2. buf = Null
        BY <3>1 DEF SizesInv, CallConsistent
      <3>. QED
        BY <3>1, <3>2, FailPreserves DEF Created
    <2>. QED
      BY <2>1, <2>2
  <1>13. CASE AllocateReturn
    <2>1. /\ pc = "return" /\ pc' = "idle" /\ call' = NoCall
          /\ used' = call.used /\ status' = "W_SUCCESS"
          /\ blk' = [blk EXCEPT ![call.b] =
                       [ptr |-> mem + NewOffset, off |-> NewOffset,
                        size |-> call.size, align |-> call.align, init |-> 0]]
          /\ UNCHANGED <<mem, reserved, committed, buf>>
      BY <1>13 DEF AllocateReturn, Succeed
    <2>2. /\ call.size \in Nat /\ call.used \in Nat /\ call.align \in Nat \ {0}
          /\ call.size <= call.used /\ call.used <= committed
          /\ call.b \in Blocks /\ mem \in Nat
      BY <2>1 DEF SizesInv, FieldsTypeOK, Calls, CallConsistent, Consistent
    <2>3. NewOffset \in Nat
      BY <2>2 DEF NewOffset
    <2>4. FieldsTypeOK'
      BY <2>1, <2>2, <2>3 DEF SizesInv, FieldsTypeOK, NoCall, Calls, Null
    <2>5. SizesNested'
      BY <2>1, <2>2 DEF SizesInv, SizesNested, Created
    <2>. QED
      BY <2>1, <2>4, <2>5 DEF SizesInv, VmemRequestsValid, CallConsistent
  <1>14. CASE ReallocateReturn
    <2>1. /\ pc = "return" /\ pc' = "idle" /\ call' = NoCall
          /\ used' = call.used /\ status' = "W_SUCCESS"
          /\ blk' = [blk EXCEPT ![call.b] =
                       [ptr |-> mem + NewOffset, off |-> NewOffset,
                        size |-> call.size, align |-> call.align,
                        init |-> Smaller(@.init, call.size)]]
          /\ UNCHANGED <<mem, reserved, committed, buf>>
      BY <1>14 DEF ReallocateReturn, Succeed
    <2>2. /\ call.size \in Nat /\ call.used \in Nat /\ call.align \in Nat \ {0}
          /\ call.size <= call.used /\ call.used <= committed
          /\ call.b \in Blocks /\ mem \in Nat
      BY <2>1 DEF SizesInv, FieldsTypeOK, Calls, CallConsistent, Consistent
    <2>3. /\ NewOffset \in Nat
          /\ Smaller(blk[call.b].init, call.size) \in Nat
      BY <2>2 DEF NewOffset, Smaller, SizesInv, FieldsTypeOK
    <2>4. FieldsTypeOK'
      BY <2>1, <2>2, <2>3 DEF SizesInv, FieldsTypeOK, NoCall, Calls, Null
    <2>5. SizesNested'
      BY <2>1, <2>2 DEF SizesInv, SizesNested, Created
    <2>. QED
      BY <2>1, <2>4, <2>5 DEF SizesInv, VmemRequestsValid, CallConsistent
  <1>15. CASE ReallocateFault
    BY <1>15 DEF ReallocateFault, SizesInv, FieldsTypeOK, SizesNested,
                 Created, VmemRequestsValid, CallConsistent
  <1>16. ASSUME NEW b \in Blocks, ClientWrite(b)
         PROVE  SizesInv'
    BY <1>16 DEF ClientWrite, SizesInv, FieldsTypeOK, SizesNested,
                 Created, VmemRequestsValid, CallConsistent
  <1>17. ASSUME NEW b \in Blocks, ClientRefresh(b)
         PROVE  SizesInv'
    BY <1>17 DEF ClientRefresh, SizesInv, FieldsTypeOK, SizesNested,
                 Created, VmemRequestsValid, CallConsistent
  <1>18. CASE UNCHANGED vars
    <2>1. UNCHANGED <<pc, mem, reserved, committed, used, buf, call, status, blk>>
      BY <1>18 DEF vars
    <2>. QED
      BY <2>1, SizesStable, ConsistentStable
         DEF SizesInv, FieldsTypeOK, SizesNested, Created,
             VmemRequestsValid, CallConsistent
  <1>. QED
    BY <1>1, <1>2, <1>3, <1>4, <1>5, <1>6, <1>7, <1>8, <1>9, <1>10, <1>11,
       <1>12, <1>13, <1>14, <1>15, <1>16, <1>17, <1>18
       DEF Next

\* The fields always describe a valid allocation state, and every request to
\* the system is one it accepts (mem.c:119-170 with vmem.c:26-52).
THEOREM SizesAlways == Spec => []SizesInv
  BY SizesInit, SizesNext, PTL DEF Spec

\* The fields of the allocator and the locals of its calls have their types.
THEOREM FieldsTypeAlways == Spec => []FieldsTypeOK
  <1>1. SizesInv => FieldsTypeOK
    BY DEF SizesInv
  <1>. QED
    BY <1>1, SizesAlways, PTL

\* The used bytes are always committed and the committed ones reserved
\* (struct w_linear_alloc, mem.c:119-170).
THEOREM SizesNestedAlways == Spec => []SizesNested
  <1>1. SizesInv => SizesNested
    BY DEF SizesInv
  <1>. QED
    BY <1>1, SizesAlways, PTL

\* Every request to the virtual memory layer meets what it asserts
\* (mem.c:131-134, vmem_unix.c:65-66, 171-183).
THEOREM VmemRequestsValidAlways == Spec => []VmemRequestsValid
  <1>1. SizesInv => VmemRequestsValid
    BY DEF SizesInv
  <1>. QED
    BY <1>1, SizesAlways, PTL

\* The locals of a call describe the allocator it started on until the call
\* returns (mem.c:264-281, 378-423).
THEOREM CallConsistentAlways == Spec => []CallConsistent
  <1>1. SizesInv => CallConsistent
    BY DEF SizesInv
  <1>. QED
    BY <1>1, SizesAlways, PTL

-----------------------------------------------------------------------------
(* Second layer: where the blocks are.                                     *)

\* What makes a pointer aligned after any move.
OffsetsAligned ==
    \A b \in Held : AllocGranularity % blk[b].align = 0
                      => blk[b].off % blk[b].align = 0

PlacementInv ==
    /\ BlocksDisjoint
    /\ BlocksWithinUsed
    /\ Created => OffsetsAligned
    /\ pc = "absent" => Held = {}

\* No block is held before the allocator exists.
LEMMA PlacementInit == Init => PlacementInv
  BY DEF Init, PlacementInv, BlocksDisjoint, BlocksWithinUsed, OffsetsAligned,
         Created, Held, NoBlock

\* A step that moves no block and enlarges none.
LEMMA PlacementStable ==
    ASSUME SizesInv, PlacementInv, Created, pc' # "absent",
           used' = used,
           \A b \in Blocks :
             \/ blk'[b].ptr = Null
             \/ /\ blk[b].ptr # Null
                /\ blk'[b].off = blk[b].off /\ blk'[b].align = blk[b].align
                /\ blk'[b].size = blk[b].size \/ blk'[b].size = 0
    PROVE  PlacementInv'
  <1>1. \A b \in Held' :
          /\ b \in Blocks /\ b \in Held
          /\ blk'[b].off = blk[b].off /\ blk'[b].align = blk[b].align
    BY DEF Held
  <1>2. \A b \in Blocks : blk[b].size \in Nat /\ blk[b].off \in Nat
    BY DEF SizesInv, FieldsTypeOK
  <1>3. \A b \in Held' :
          Extent(b) \in Nat /\ Extent(b)' \in Nat /\ Extent(b)' <= Extent(b)
    BY <1>1, <1>2 DEF Extent, Larger, Held
  <1>4. used \in Nat
    BY DEF SizesInv, FieldsTypeOK
  <1>5. BlocksWithinUsed'
    BY <1>1, <1>2, <1>3, <1>4 DEF PlacementInv, BlocksWithinUsed
  <1>6. BlocksDisjoint'
    <2> SUFFICES ASSUME NEW b \in Held', NEW c \in Held', b # c
                 PROVE  \/ blk'[b].off + Extent(b)' <= blk'[c].off
                        \/ blk'[c].off + Extent(c)' <= blk'[b].off
      BY DEF BlocksDisjoint
    <2>1. \/ blk[b].off + Extent(b) <= blk[c].off
          \/ blk[c].off + Extent(c) <= blk[b].off
      BY <1>1 DEF PlacementInv, BlocksDisjoint
    <2>. QED
      BY <1>1, <1>2, <1>3, <2>1
  <1>7. OffsetsAligned'
    BY <1>1 DEF PlacementInv, OffsetsAligned
  <1>. QED
    BY <1>5, <1>6, <1>7 DEF PlacementInv

\* The block a returning call places: after all the others, up to the new end.
LEMMA PlacementReturn ==
    ASSUME SizesInv, PlacementInv, pc = "return", pc' = "idle",
           used' = call.used,
           NEW n \in Nat,
           blk' = [blk EXCEPT ![call.b] =
                     [ptr |-> mem + NewOffset, off |-> NewOffset,
                      size |-> call.size, align |-> call.align, init |-> n]]
    PROVE  PlacementInv'
  <1>0. PICK b : b = call.b
    OBVIOUS
  <1>1. Consistent(call) /\ Created
    BY DEF SizesInv, CallConsistent, Created
  <1>2. /\ b \in Blocks /\ used \in Nat
        /\ call.size \in Nat /\ call.used \in Nat
        /\ call.off \in Nat /\ call.old \in Nat /\ call.last \in BOOLEAN
        /\ call.op \in {"allocate", "reallocate"}
        /\ 0 < call.size /\ call.size <= call.used
    BY <1>0, <1>1 DEF SizesInv, FieldsTypeOK, Calls, Consistent
  <1>3. /\ NewOffset \in Nat
        /\ NewOffset + call.size = call.used
    BY <1>2 DEF NewOffset
  <1>4. \A c \in Blocks : /\ blk[c].size \in Nat /\ blk[c].off \in Nat
                          /\ Extent(c) \in Nat /\ Extent(c) >= 1
    BY DEF SizesInv, FieldsTypeOK, Extent, Larger
  <1>5. /\ blk'[b].off = NewOffset /\ blk'[b].size = call.size
        /\ blk'[b].align = call.align
        /\ Extent(b)' = call.size
    BY <1>0, <1>2 DEF SizesInv, FieldsTypeOK, Extent, Larger
  <1>6. \A c \in Blocks : c # b => blk'[c] = blk[c] /\ Extent(c)' = Extent(c)
    BY <1>0 DEF SizesInv, FieldsTypeOK, Extent
  <1>7. \A c \in Held' : c # b => c \in Held /\ c \in Blocks
    BY <1>6 DEF Held
  <1>8. \A c \in Held' : c # b => blk[c].off + Extent(c) <= NewOffset
    <2> SUFFICES ASSUME NEW c \in Held', c # b
                 PROVE  blk[c].off + Extent(c) <= NewOffset
      OBVIOUS
    <2>1. c \in Held /\ c \in Blocks
      BY <1>7
    <2>2. blk[c].off + Extent(c) <= used
      BY <1>1, <2>1 DEF PlacementInv, BlocksWithinUsed
    <2>3. CASE ~call.last
      <3>1. used <= NewOffset
        BY <1>1, <2>3 DEF Consistent, NewOffset
      <3>. QED
        BY <1>2, <1>3, <1>4, <2>1, <2>2, <3>1
    <2>4. CASE call.last
      <3>1. /\ b \in Held
            /\ blk[b].off = call.off /\ blk[b].size = call.old
            /\ call.off + call.old = used /\ call.used = call.off + call.size
        BY <1>0, <1>1, <1>2, <2>4 DEF Consistent
      <3>2. NewOffset = blk[b].off
        BY <1>2, <3>1 DEF NewOffset
      <3>3. blk[b].off + Extent(b) <= used
        BY <1>1, <3>1 DEF PlacementInv, BlocksWithinUsed
      <3>4. call.old >= 1 /\ Extent(b) = call.old
        BY <1>2, <3>1, <3>3 DEF Extent, Larger
      <3>5. \/ blk[b].off + Extent(b) <= blk[c].off
            \/ blk[c].off + Extent(c) <= blk[b].off
        BY <1>1, <2>1, <3>1 DEF PlacementInv, BlocksDisjoint
      <3>. QED
        BY <1>2, <1>4, <2>1, <2>2, <3>1, <3>2, <3>4, <3>5
    <2>. QED
      BY <1>2, <2>3, <2>4
  <1>9. BlocksWithinUsed'
    <2> SUFFICES ASSUME NEW c \in Held'
                 PROVE  blk'[c].off + Extent(c)' <= used'
      BY DEF BlocksWithinUsed
    <2>1. CASE c = b
      BY <2>1, <1>2, <1>3, <1>5
    <2>2. CASE c # b
      <3>1. c \in Blocks /\ blk[c].off + Extent(c) <= NewOffset
        BY <1>7, <1>8, <2>2
      <3>. QED
        BY <1>2, <1>3, <1>4, <1>6, <2>2, <3>1
    <2>. QED
      BY <2>1, <2>2
  <1>10. BlocksDisjoint'
    <2> SUFFICES ASSUME NEW c \in Held', NEW d \in Held', c # d
                 PROVE  \/ blk'[c].off + Extent(c)' <= blk'[d].off
                        \/ blk'[d].off + Extent(d)' <= blk'[c].off
      BY DEF BlocksDisjoint
    <2>1. CASE c = b
      <3>1. d # b /\ d \in Blocks /\ blk[d].off + Extent(d) <= NewOffset
        BY <1>7, <1>8, <2>1
      <3>. QED
        BY <1>5, <1>6, <2>1, <3>1
    <2>2. CASE d = b
      <3>1. c # b /\ c \in Blocks /\ blk[c].off + Extent(c) <= NewOffset
        BY <1>7, <1>8, <2>2
      <3>. QED
        BY <1>5, <1>6, <2>2, <3>1
    <2>3. CASE c # b /\ d # b
      <3>1. /\ c \in Held /\ d \in Held /\ c \in Blocks /\ d \in Blocks
        BY <1>7, <2>3
      <3>2. \/ blk[c].off + Extent(c) <= blk[d].off
            \/ blk[d].off + Extent(d) <= blk[c].off
        BY <1>1, <3>1 DEF PlacementInv, BlocksDisjoint
      <3>. QED
        BY <1>6, <2>3, <3>1, <3>2
    <2>. QED
      BY <2>1, <2>2, <2>3
  <1>11. OffsetsAligned'
    <2> SUFFICES ASSUME NEW c \in Held',
                        AllocGranularity % blk'[c].align = 0
                 PROVE  blk'[c].off % blk'[c].align = 0
      BY DEF OffsetsAligned
    <2>1. CASE c # b
      <3>1. c \in Held /\ c \in Blocks
        BY <1>7, <2>1
      <3>. QED
        BY <1>1, <1>6, <2>1, <3>1 DEF PlacementInv, OffsetsAligned
    <2>2. CASE c = b /\ ~call.last
      BY <1>1, <1>5, <2>2 DEF Consistent, NewOffset
    <2>3. CASE c = b /\ call.last
      <3>1. /\ b \in Held /\ blk[b].align = call.align
            /\ blk[b].off = call.off /\ call.used = call.off + call.size
        BY <1>0, <1>1, <1>2, <2>3 DEF Consistent
      <3>2. NewOffset = blk[b].off
        BY <1>2, <3>1 DEF NewOffset
      <3>. QED
        BY <1>1, <1>5, <2>3, <3>1, <3>2 DEF PlacementInv, OffsetsAligned
    <2>. QED
      BY <1>2, <2>1, <2>2, <2>3
  <1>. QED
    BY <1>9, <1>10, <1>11 DEF PlacementInv

\* Every step keeps the blocks apart, in the used part and aligned.
LEMMA PlacementNext ==
    ASSUME SizesInv, PlacementInv, [Next]_vars
    PROVE  PlacementInv'
  <1> USE DEF allocVars
  <1>1. CASE UNCHANGED <<blk, used>> /\ Created /\ pc' # "absent"
    BY <1>1, PlacementStable DEF Held
  <1>2. CASE UNCHANGED vars
    BY <1>2 DEF vars, PlacementInv, BlocksDisjoint, BlocksWithinUsed,
                OffsetsAligned, Created, Held, Extent
  <1>3. ASSUME NEW size \in InitialSizes, w_linear_alloc_create(size)
        PROVE  PlacementInv'
    <2>1. Held' = {}
      BY <1>3 DEF w_linear_alloc_create, PlacementInv, Held
    <2>. QED
      BY <2>1 DEF PlacementInv, BlocksDisjoint, BlocksWithinUsed, OffsetsAligned
  <1>4. CASE w_linear_alloc_destroy
    <2>1. Held' = {}
      BY <1>4 DEF w_linear_alloc_destroy, Held, NoBlock
    <2>. QED
      BY <2>1 DEF PlacementInv, BlocksDisjoint, BlocksWithinUsed, OffsetsAligned
  <1>5. ASSUME NEW b \in Blocks, NEW size \in Sizes,
               NEW alignment \in Alignments,
               w_linear_alloc_allocate(b, size, alignment)
        PROVE  PlacementInv'
    <2>1. UNCHANGED <<blk, used>> /\ Created /\ pc' # "absent"
      BY <1>5 DEF w_linear_alloc_allocate, Enter, Created
    <2>. QED
      BY <2>1, <1>1
  <1>6. ASSUME NEW b \in Blocks,
               w_linear_alloc_free(b) \/ ReallocateToZero(b) \/ ClientWrite(b)
                 \/ ClientRefresh(b)
        PROVE  PlacementInv'
    <2>1. UNCHANGED used /\ Created /\ pc' # "absent"
      BY <1>6 DEF w_linear_alloc_free, ReallocateToZero, ClientWrite,
                  ClientRefresh, Created
    <2>2. \A c \in Blocks :
             \/ blk'[c].ptr = Null
             \/ /\ blk[c].ptr # Null
                /\ blk'[c].off = blk[c].off /\ blk'[c].align = blk[c].align
                /\ blk'[c].size = blk[c].size \/ blk'[c].size = 0
      BY <1>6 DEF w_linear_alloc_free, ReallocateToZero, ClientWrite,
                  ClientRefresh, Held, NoBlock, SizesInv, FieldsTypeOK
    <2>. QED
      BY <2>1, <2>2, PlacementStable
  <1>7. ASSUME NEW b \in Blocks, NEW size \in Sizes,
               w_linear_alloc_reallocate(b, size)
        PROVE  PlacementInv'
    <2>1. UNCHANGED <<blk, used>> /\ Created /\ pc' # "absent"
      BY <1>7 DEF w_linear_alloc_reallocate, Enter, Created
    <2>. QED
      BY <2>1, <1>1
  <1>8. CASE \/ Reserve \/ CommitBuffer \/ UndoReserve \/ MoveContents
             \/ ReleaseOld \/ CommitMore \/ ReallocateFault
    <2>1. UNCHANGED <<blk, used>> /\ Created /\ pc' # "absent"
      BY <1>8 DEF Reserve, CommitBuffer, UndoReserve, MoveContents, ReleaseOld,
                  CommitMore, ReallocateFault, Fail, Created
    <2>. QED
      BY <2>1, <1>1
  <1>9. CASE AllocateReturn
    BY <1>9, PlacementReturn DEF AllocateReturn, Succeed
  <1>10. CASE ReallocateReturn
    <2>1. Smaller(blk[call.b].init, call.size) \in Nat
      BY <1>10 DEF ReallocateReturn, SizesInv, FieldsTypeOK, Calls,
                   CallConsistent, Consistent, Smaller
    <2>2. /\ pc = "return" /\ pc' = "idle" /\ used' = call.used
          /\ blk' = [blk EXCEPT ![call.b] =
                       [ptr |-> mem + NewOffset, off |-> NewOffset,
                        size |-> call.size, align |-> call.align,
                        init |-> Smaller(blk[call.b].init, call.size)]]
      BY <1>10 DEF ReallocateReturn, Succeed
    <2>. QED
      BY <2>1, <2>2, PlacementReturn
  <1>. QED
    BY <1>2, <1>3, <1>4, <1>5, <1>6, <1>7, <1>8, <1>9, <1>10 DEF Next

\* The blocks are always apart, in the used part and aligned.
THEOREM PlacementAlways == Spec => []PlacementInv
  <1>1. SizesInv /\ PlacementInv /\ [Next]_vars => PlacementInv'
    BY PlacementNext
  <1>. QED
    BY <1>1, PlacementInit, SizesAlways, PTL DEF Spec

\* No two blocks ever share a byte (mem.c:266-279, 378-411).
THEOREM BlocksDisjointAlways == Spec => []BlocksDisjoint
  <1>1. PlacementInv => BlocksDisjoint
    BY DEF PlacementInv
  <1>. QED
    BY <1>1, PlacementAlways, PTL

\* Every block stays inside the used, hence committed, part.
THEOREM BlocksWithinUsedAlways == Spec => []BlocksWithinUsed
  <1>1. PlacementInv => BlocksWithinUsed
    BY DEF PlacementInv
  <1>. QED
    BY <1>1, PlacementAlways, PTL

\* A pointer is as aligned as its offset is, when the alignment divides the
\* granularity of reservations.
LEMMA PointersAreAligned == SizesInv /\ PlacementInv => PointersAligned
  <1> SUFFICES ASSUME SizesInv, PlacementInv, Created, NEW b \in Held,
                      AllocGranularity % blk[b].align = 0
               PROVE  (mem + blk[b].off) % blk[b].align = 0
    BY DEF PointersAligned
  <1>1. /\ mem \in Int /\ blk[b].off \in Int /\ blk[b].align \in Nat \ {0}
        /\ mem % AllocGranularity = 0
    BY DEF SizesInv, FieldsTypeOK, SizesNested, Held
  <1>2. blk[b].off % blk[b].align = 0
    BY DEF PlacementInv, OffsetsAligned
  <1>3. mem % blk[b].align = 0
    BY <1>1, ModTransitive, GranularityAssumption
  <1>. QED
    BY <1>1, <1>2, <1>3, ModSum

\* It keeps its alignment through every move.
THEOREM PointersAlignedAlways == Spec => []PointersAligned
  BY PointersAreAligned, SizesAlways, PlacementAlways, PTL

-----------------------------------------------------------------------------
(* Third layer: the address space.                                         *)

Contents == {Blank} \union (Blocks \X Nat)

\* A part of a range from its beginning.
LEMMA SpanPrefix ==
    ASSUME NEW a \in Int, NEW n \in Int, NEW m \in Int, m <= n
    PROVE  Span(a, m) \subseteq Span(a, n)
  BY DEF Span

\* Forgetting bytes keeps the type of the memory.
LEMMA ForgottenType ==
    ASSUME NEW c \in [Addresses -> Contents], NEW a, NEW n
    PROVE  Forgotten(c, a, n) \in [Addresses -> Contents]
  BY DEF Forgotten, Contents

\* Copying bytes keeps the type of the memory.
LEMMA CopiedType ==
    ASSUME NEW c \in [Addresses -> Contents],
           NEW dst \in Int, NEW src \in Int, NEW n \in Int,
           Span(src, n) \subseteq Addresses
    PROVE  Copied(c, dst, src, n) \in [Addresses -> Contents]
  <1> SUFFICES ASSUME NEW x \in Addresses, x \in Span(dst, n)
               PROVE  src + (x - dst) \in Addresses
    BY DEF Copied
  <1>1. x \in Int /\ dst <= x /\ x <= dst + n - 1
    BY DEF Span
  <1>2. src + (x - dst) \in Span(src, n)
    BY <1>1 DEF Span
  <1>. QED
    BY <1>2

Live == Span(mem, reserved)

Buffer == Span(buf, NewReserved)

\* What the allocator owns, without the bytes; see OwnsItsRegions.
RegionsInv ==
    /\ mapped \subseteq Addresses
    /\ rw \subseteq mapped
    /\ OwnsItsRegions
    /\ pc = "absent" /\ ~ReleaseMayFail => mapped = {} /\ rw = {}

\* Nothing is mapped before the allocator exists.
LEMMA RegionsInit == Init => RegionsInv
  BY DEF Init, VmemInit, RegionsInv, OwnsItsRegions, Created

\* A step of the client or the allocator that makes no system call.
LEMMA RegionsStable ==
    ASSUME RegionsInv, Created, pc' # "absent",
           UNCHANGED <<mapped, rw, mem, reserved, committed, buf>>,
           buf = Null \/ (/\ UNCHANGED call
                          /\ pc \in {"move", "release"}
                               <=> pc' \in {"move", "release"}),
           buf = Null => pc' \notin {"move", "release"} /\ pc \notin {"move", "release"}
    PROVE  RegionsInv'
  <1>1. CASE buf = Null
    BY <1>1 DEF RegionsInv, OwnsItsRegions, Created
  <1>2. CASE buf # Null
    <2>1. NewReserved' = NewReserved /\ NewCommitted' = NewCommitted
      BY <1>2, SizesStable
    <2>. QED
      BY <1>2, <2>1 DEF RegionsInv, OwnsItsRegions, Created
  <1>. QED
    BY <1>1, <1>2

\* Every step maps, commits and releases just the regions it is responsible
\* for, whichever of the system calls fail (mem.c:55-91).
LEMMA RegionsNext ==
    ASSUME SizesInv, RegionsInv, [Next]_vars
    PROVE  RegionsInv'
  <1> USE DEF allocVars, vmemVars
  <1>0. /\ mem \in Nat /\ buf \in Nat /\ reserved \in Nat /\ committed \in Nat
        /\ used \in Nat
        /\ buf # Null <=> pc \in {"commit_buffer", "undo", "move", "release"}
    BY DEF SizesInv, FieldsTypeOK, CallConsistent
  <1>1. Created => /\ used <= committed /\ committed <= reserved
                   /\ Span(mem, committed) \subseteq Live
    BY <1>0, SpanPrefix DEF SizesInv, SizesNested, Live
  <1>2. pc \in {"commit_buffer", "undo", "move", "release"} =>
          /\ NewCommitted \in Nat /\ NewReserved \in Nat
          /\ NewCommitted <= NewReserved
          /\ Span(buf, NewCommitted) \subseteq Buffer
    <2> SUFFICES ASSUME pc \in {"commit_buffer", "undo", "move", "release"}
                 PROVE  /\ NewCommitted \in Nat /\ NewReserved \in Nat
                        /\ NewCommitted <= NewReserved
                        /\ Span(buf, NewCommitted) \subseteq Buffer
      OBVIOUS
    <2>1. call.used \in Nat
      BY DEF SizesInv, FieldsTypeOK, Calls
    <2>2. NewCommitted \in Nat /\ NewReserved \in Nat /\ NewCommitted <= NewReserved
      BY <1>0, <2>1, GrowBounds DEF NewCommitted, NewReserved
    <2>. QED
      BY <1>0, <2>2, SpanPrefix DEF Buffer
  <1>3. ASSUME NEW size \in InitialSizes, w_linear_alloc_create(size)
        PROVE  RegionsInv'
    <2>1. CASE pc' = "absent"
      BY <1>3, <2>1
         DEF w_linear_alloc_create, RegionsInv, OwnsItsRegions, Created
    <2>2. CASE pc' = "idle"
      <3>1. PICK a \in Reservable(w_round_up_alloc_size(size)) :
              /\ w_vmem_create(a, w_round_up_alloc_size(size))
              /\ mem' = a
              /\ reserved' = w_round_up_alloc_size(size)
              /\ committed' = 0
        BY <1>3, <2>2 DEF w_linear_alloc_create
      <3>2. a \in Int
        BY GranularityAssumption DEF Reservable, Addresses
      <3>3. Span(a, 0) = {}
        BY <3>2 DEF Span
      <3>4. /\ Live' = Span(a, w_round_up_alloc_size(size))
            /\ Live' \subseteq Addresses \ mapped
            /\ mapped' = mapped \union Live'
            /\ rw' = rw
        BY <3>1 DEF w_vmem_create, Live, Reservable
      <3>5. buf' = Null /\ pc = "absent"
        BY <1>0, <1>3 DEF w_linear_alloc_create
      <3>6. OwnsItsRegions'
        BY <2>2, <3>1, <3>3, <3>4, <3>5
           DEF RegionsInv, OwnsItsRegions, Created, Live
      <3>. QED
        BY <2>2, <3>4, <3>6 DEF RegionsInv
    <2>. QED
      BY <1>3, <2>1, <2>2 DEF w_linear_alloc_create
  <1>4. CASE w_linear_alloc_destroy
    <2>1. pc = "idle" /\ pc' = "absent" /\ w_vmem_destroy(mem, reserved)
      BY <1>4 DEF w_linear_alloc_destroy
    <2>2. ~ReleaseMayFail => mapped = Live /\ rw = Span(mem, committed)
      BY <1>0, <2>1 DEF RegionsInv, OwnsItsRegions, Created, Live
    <2>3. ~ReleaseMayFail => mapped' = {} /\ rw' = {}
      BY <1>1, <2>1, <2>2 DEF w_vmem_destroy, Live, Created
    <2>. QED
      BY <2>1, <2>3 DEF w_vmem_destroy, RegionsInv, OwnsItsRegions, Created
  <1>5. ASSUME NEW b \in Blocks, NEW size \in Sizes,
               NEW alignment \in Alignments,
               w_linear_alloc_allocate(b, size, alignment)
        PROVE  RegionsInv'
    <2>1. /\ pc = "idle" /\ pc' \in {"idle", "reserve", "commit", "return"}
          /\ UNCHANGED <<mapped, rw, mem, reserved, committed, buf>>
      BY <1>5 DEF w_linear_alloc_allocate, Enter
    <2>. QED
      BY <1>0, <2>1, RegionsStable DEF Created
  <1>6. ASSUME NEW b \in Blocks,
               w_linear_alloc_free(b) \/ ReallocateToZero(b) \/ ClientWrite(b)
                 \/ ClientRefresh(b)
        PROVE  RegionsInv'
    <2>1. /\ pc = "idle" /\ pc' = "idle"
          /\ UNCHANGED <<mapped, rw, mem, reserved, committed, buf>>
      BY <1>6 DEF w_linear_alloc_free, ReallocateToZero, ClientWrite,
                  ClientRefresh
    <2>. QED
      BY <1>0, <2>1, RegionsStable DEF Created
  <1>7. ASSUME NEW b \in Blocks, NEW size \in Sizes,
               w_linear_alloc_reallocate(b, size)
        PROVE  RegionsInv'
    <2>1. /\ pc = "idle" /\ pc' \in {"abort", "reserve", "commit", "return"}
          /\ UNCHANGED <<mapped, rw, mem, reserved, committed, buf>>
      BY <1>7 DEF w_linear_alloc_reallocate, Enter
    <2>. QED
      BY <1>0, <2>1, RegionsStable DEF Created
  <1>8. CASE Reserve
    <2>1. CASE pc' = "commit_buffer"
      <3>1. PICK a \in Reservable(NewReserved) :
              w_vmem_create(a, NewReserved) /\ buf' = a
        BY <1>8, <2>1 DEF Reserve, Fail
      <3>2. UNCHANGED <<mem, reserved, committed, call>> /\ pc = "reserve"
        BY <1>8, <2>1 DEF Reserve, Fail
      <3>3. Buffer' = Span(a, NewReserved)
        BY <3>1, <3>2, SizesStable DEF Buffer
      <3>4. /\ Buffer' \subseteq Addresses \ mapped
            /\ mapped' = mapped \union Buffer'
            /\ rw' = rw
        BY <3>1, <3>3 DEF w_vmem_create, Reservable
      <3>5. /\ Live \subseteq mapped
            /\ Span(mem, committed) \subseteq rw
            /\ ReleaseMayFail \/ (mapped = Live /\ rw = Span(mem, committed))
        BY <1>0, <3>2 DEF RegionsInv, OwnsItsRegions, Created, Live
      <3>6. a # Null
        BY GranularityAssumption DEF Reservable, Addresses, Null
      <3>7. OwnsItsRegions'
        BY <2>1, <3>1, <3>2, <3>4, <3>5, <3>6
           DEF OwnsItsRegions, Created, Live, Buffer
      <3>. QED
        BY <2>1, <3>4, <3>7 DEF RegionsInv
    <2>2. CASE pc' # "commit_buffer"
      <3>1. /\ pc = "reserve" /\ pc' = "idle"
            /\ UNCHANGED <<mapped, rw, mem, reserved, committed, buf>>
        BY <1>8, <2>2 DEF Reserve, Fail
      <3>. QED
        BY <1>0, <3>1, RegionsStable DEF Created
    <2>. QED
      BY <2>1, <2>2
  <1>9. ASSUME pc \in {"commit_buffer", "undo", "move", "release"}
        PROVE  /\ Live \subseteq mapped /\ Buffer \subseteq mapped
               /\ Live \intersect Buffer = {}
               /\ ReleaseMayFail \/ mapped = Live \union Buffer
               /\ Span(mem, committed) \subseteq rw
               /\ Span(mem, committed) \subseteq Live
               /\ Span(buf, NewCommitted) \subseteq Buffer
               /\ pc \in {"move", "release"}
                    => Span(buf, NewCommitted) \subseteq rw
               /\ ReleaseMayFail \/ pc \notin {"move", "release"}
                    \/ rw = Span(mem, committed) \union Span(buf, NewCommitted)
               /\ ReleaseMayFail \/ pc \in {"move", "release"}
                    \/ rw = Span(mem, committed)
    BY <1>0, <1>1, <1>2, <1>9
       DEF RegionsInv, OwnsItsRegions, Created, Live, Buffer
  <1>10. CASE CommitBuffer
    <2>1. /\ pc = "commit_buffer" /\ buf # Null
          /\ UNCHANGED <<mem, reserved, committed, buf, call>>
      BY <1>0, <1>10 DEF CommitBuffer
    <2>2. NewReserved' = NewReserved /\ NewCommitted' = NewCommitted
      BY <2>1, SizesStable
    <2>3. CASE pc' = "move"
      <3>1. w_vmem_commit(buf, NewCommitted)
        BY <1>10, <2>3 DEF CommitBuffer
      <3>2. mapped' = mapped /\ rw' = rw \union Span(buf, NewCommitted)
        BY <3>1 DEF w_vmem_commit
      <3>3. OwnsItsRegions'
        BY <1>9, <2>1, <2>2, <2>3, <3>2
           DEF OwnsItsRegions, Created, Live, Buffer
      <3>. QED
        BY <1>9, <2>1, <2>3, <3>2, <3>3 DEF RegionsInv
    <2>4. CASE pc' # "move"
      <3>1. pc' = "undo" /\ UNCHANGED <<mapped, rw>>
        BY <1>10, <2>4 DEF CommitBuffer
      <3>. QED
        BY <2>1, <3>1, RegionsStable DEF Created
    <2>. QED
      BY <2>3, <2>4
  <1>11. CASE UndoReserve
    <2>1. /\ pc = "undo" /\ pc' = "idle" /\ buf' = Null
          /\ w_vmem_destroy(buf, NewReserved)
          /\ UNCHANGED <<mem, reserved, committed>>
      BY <1>11 DEF UndoReserve, Fail
    <2>2. \/ mapped' = mapped \ Buffer /\ rw' = rw \ Buffer
          \/ ReleaseMayFail /\ UNCHANGED <<mapped, rw>>
      BY <2>1 DEF w_vmem_destroy, Buffer
    <2>3. OwnsItsRegions'
      BY <1>9, <2>1, <2>2 DEF OwnsItsRegions, Created, Live
    <2>. QED
      BY <2>1, <2>2, <2>3 DEF RegionsInv
  <1>12. CASE MoveContents
    <2>1. /\ pc = "move" /\ pc' = "release"
          /\ UNCHANGED <<mapped, rw, mem, reserved, committed, buf, call>>
      BY <1>12 DEF MoveContents, w_copy_mem
    <2>. QED
      BY <1>0, <2>1, RegionsStable DEF Created
  <1>13. CASE ReleaseOld
    <2>1. /\ pc = "release" /\ pc' = "return" /\ buf' = Null
          /\ mem' = buf /\ reserved' = NewReserved
          /\ committed' = NewCommitted
          /\ w_vmem_destroy(mem, reserved)
      BY <1>13 DEF ReleaseOld
    <2>2. \/ mapped' = mapped \ Live /\ rw' = rw \ Live
          \/ ReleaseMayFail /\ UNCHANGED <<mapped, rw>>
      BY <2>1 DEF w_vmem_destroy, Live
    <2>3. Live' = Buffer /\ Span(mem', committed') = Span(buf, NewCommitted)
      BY <2>1 DEF Live, Buffer
    <2>4. OwnsItsRegions'
      BY <1>9, <2>1, <2>2, <2>3 DEF OwnsItsRegions, Created, Live
    <2>. QED
      BY <2>1, <2>2, <2>4 DEF RegionsInv
  <1>14. CASE CommitMore
    <2>1. CASE pc' = "return"
      <3>1. /\ pc = "commit" /\ w_vmem_commit(mem, NewCommitted)
            /\ committed' = NewCommitted
            /\ UNCHANGED <<mem, reserved, buf>>
        BY <1>14, <2>1 DEF CommitMore, Fail
      <3>2. call.used \in Nat /\ call.used <= reserved
            /\ reserved % AllocGranularity = 0
        BY <3>1 DEF SizesInv, FieldsTypeOK, Calls, CallConsistent, SizesNested,
                    Created
      <3>3. NewCommitted \in Nat /\ committed < NewCommitted
        BY <1>0, <3>1, <3>2, CommitBounds
           DEF NewCommitted, SizesInv, VmemRequestsValid
      <3>4. Span(mem, committed) \subseteq Span(mem, NewCommitted)
        BY <1>0, <3>3, SpanPrefix
      <3>5. mapped' = mapped /\ rw' = rw \union Span(mem, NewCommitted)
            /\ Span(mem, NewCommitted) \subseteq mapped
        BY <3>1 DEF w_vmem_commit
      <3>6. OwnsItsRegions'
        BY <1>0, <2>1, <3>1, <3>4, <3>5
           DEF RegionsInv, OwnsItsRegions, Created
      <3>. QED
        BY <2>1, <3>5, <3>6 DEF RegionsInv
    <2>2. CASE pc' # "return"
      <3>1. /\ pc = "commit" /\ pc' = "idle"
            /\ UNCHANGED <<mapped, rw, mem, reserved, committed, buf>>
        BY <1>14, <2>2 DEF CommitMore, Fail
      <3>. QED
        BY <1>0, <3>1, RegionsStable DEF Created
    <2>. QED
      BY <2>1, <2>2
  <1>15. CASE AllocateReturn \/ ReallocateReturn \/ ReallocateFault
    <2>1. /\ pc = "return" /\ pc' \in {"idle", "fault"}
          /\ UNCHANGED <<mapped, rw, mem, reserved, committed, buf>>
      BY <1>15 DEF AllocateReturn, ReallocateReturn, ReallocateFault, Succeed
    <2>. QED
      BY <1>0, <2>1, RegionsStable DEF Created
  <1>16. CASE UNCHANGED vars
    BY <1>16 DEF vars, RegionsInv, OwnsItsRegions, Created, NewReserved,
                 NewCommitted
  <1>. QED
    BY <1>3, <1>4, <1>5, <1>6, <1>7, <1>8, <1>10, <1>11, <1>12, <1>13, <1>14,
       <1>15, <1>16 DEF Next

\* The allocator owns its reservation, during a move both, and nothing else.
THEOREM RegionsAlways == Spec => []RegionsInv
  <1>1. SizesInv /\ RegionsInv /\ [Next]_vars => RegionsInv'
    BY RegionsNext
  <1>. QED
    BY <1>1, RegionsInit, SizesAlways, PTL DEF Spec

\* Failed growths, moves and undo steps neither leak nor return too much
\* (mem.c:55-91).
THEOREM OwnsItsRegionsAlways == Spec => []OwnsItsRegions
  <1>1. RegionsInv => OwnsItsRegions
    BY DEF RegionsInv
  <1>. QED
    BY <1>1, RegionsAlways, PTL

\* The copy of a move touches committed memory only (mem.c:81).
LEMMA MoveTouches == SizesInv /\ RegionsInv => MoveTouchesCommitted
  <1> SUFFICES ASSUME SizesInv, RegionsInv, pc = "move"
               PROVE  Span(mem, used) \union Span(buf, used) \subseteq rw
    BY DEF MoveTouchesCommitted
  <1>1. /\ mem \in Nat /\ buf \in Nat /\ used \in Nat /\ committed \in Nat
        /\ reserved \in Nat /\ call.used \in Nat /\ buf # Null
    BY DEF SizesInv, FieldsTypeOK, Calls, CallConsistent
  <1>2. used <= committed /\ committed <= reserved /\ reserved < call.used
    BY DEF SizesInv, SizesNested, Created, CallConsistent
  <1>3. NewCommitted \in Nat /\ call.used <= NewCommitted
    BY <1>1, GrowBounds DEF NewCommitted
  <1>4. Span(mem, used) \subseteq Span(mem, committed)
    BY <1>1, <1>2, SpanPrefix
  <1>5. Span(buf, used) \subseteq Span(buf, NewCommitted)
    BY <1>1, <1>2, <1>3, SpanPrefix
  <1>6. Span(mem, committed) \subseteq rw /\ Span(buf, NewCommitted) \subseteq rw
    BY DEF RegionsInv, OwnsItsRegions, Created
  <1>. QED
    BY <1>4, <1>5, <1>6

\* The copy of a move touches committed memory only, always (mem.c:81).
THEOREM MoveTouchesCommittedAlways == Spec => []MoveTouchesCommitted
  BY MoveTouches, SizesAlways, RegionsAlways, PTL

\* As long as no client shrinks a block, the copy of a reallocation stays in
\* the committed memory (mem.c:413-416).
LEMMA TouchedCommitted ==
    ASSUME SizesInv, PlacementInv, RegionsInv, ~MayShrink,
           pc = "return", call.op = "reallocate"
    PROVE  Touched \subseteq rw
  <1>1. Consistent(call) /\ Created
    BY DEF SizesInv, CallConsistent, Created
  <1>2. /\ mem \in Nat /\ used \in Nat /\ committed \in Nat
        /\ call.used \in Nat /\ call.size \in Nat /\ call.old \in Nat
        /\ call.off \in Nat /\ used <= committed /\ call.used <= committed
        /\ call.size <= call.used /\ call.old <= call.size
    BY <1>1 DEF SizesInv, FieldsTypeOK, Calls, CallConsistent, Consistent,
                SizesNested
  <1>3. call.off + call.old <= used
    <2>1. call.b \in Held /\ call.off = blk[call.b].off
          /\ call.old = blk[call.b].size
      BY <1>1 DEF Consistent
    <2>2. blk[call.b].off + Extent(call.b) <= used
      BY <1>1, <2>1 DEF PlacementInv, BlocksWithinUsed
    <2>. QED
      BY <1>2, <2>1, <2>2 DEF Extent, Larger
  <1>4. NewOffset \in Nat /\ NewOffset + call.old <= committed
    BY <1>2 DEF NewOffset
  <1>5. Span(mem + call.off, call.old) \subseteq Span(mem, committed)
    BY <1>2, <1>3 DEF Span
  <1>6. Span(mem + NewOffset, call.old) \subseteq Span(mem, committed)
    BY <1>2, <1>4 DEF Span
  <1>7. Span(mem, committed) \subseteq rw
    BY <1>1 DEF RegionsInv, OwnsItsRegions
  <1>. QED
    BY <1>5, <1>6, <1>7 DEF Touched

\* When clients only grow their blocks, no copy of w_linear_alloc_reallocate()
\* leaves the committed memory (mem.c:413-416).
THEOREM GrowingNeverFaults == ~MayShrink => (Spec => []NeverFaults)
  <1> SUFFICES ASSUME ~MayShrink PROVE Spec => []NeverFaults
    OBVIOUS
  <1>1. Init => NeverFaults
    BY DEF Init, NeverFaults
  <1>2. ASSUME SizesInv, PlacementInv, RegionsInv, NeverFaults, [Next]_vars
        PROVE  NeverFaults'
    <2>1. ~ReallocateFault
      BY <1>2, TouchedCommitted DEF ReallocateFault
    <2>2. CASE UNCHANGED vars
      BY <1>2, <2>2 DEF vars, NeverFaults
    <2>3. ASSUME NEW size \in InitialSizes, w_linear_alloc_create(size)
          PROVE  NeverFaults'
      BY <1>2, <2>3 DEF w_linear_alloc_create, NeverFaults
    <2>4. ASSUME NEW b \in Blocks,
                 \/ w_linear_alloc_free(b) \/ ReallocateToZero(b)
                 \/ ClientWrite(b) \/ ClientRefresh(b)
          PROVE  NeverFaults'
      BY <1>2, <2>4 DEF NeverFaults, w_linear_alloc_free, ReallocateToZero,
                        ClientWrite, ClientRefresh
    <2>5. ASSUME NEW b \in Blocks, NEW size \in Sizes,
                 \/ w_linear_alloc_reallocate(b, size)
                 \/ \E alignment \in Alignments :
                      w_linear_alloc_allocate(b, size, alignment)
          PROVE  NeverFaults'
      BY <1>2, <2>5 DEF NeverFaults, w_linear_alloc_reallocate,
                        w_linear_alloc_allocate, Enter
    <2>6. CASE \/ w_linear_alloc_destroy \/ Reserve \/ CommitBuffer
               \/ UndoReserve \/ MoveContents \/ ReleaseOld \/ CommitMore
               \/ AllocateReturn \/ ReallocateReturn
      BY <2>6 DEF NeverFaults, w_linear_alloc_destroy, Reserve, CommitBuffer,
                  UndoReserve, MoveContents, ReleaseOld, CommitMore, Fail,
                  AllocateReturn, ReallocateReturn, Succeed
    <2>. QED
      BY <1>2, <2>1, <2>2, <2>3, <2>4, <2>5, <2>6 DEF Next
  <1>. QED
    BY <1>1, <1>2, SizesAlways, PlacementAlways, RegionsAlways, PTL DEF Spec

-----------------------------------------------------------------------------
(* Fourth layer: what the memory holds.                                    *)

CellsInv == cell \in [Addresses -> Contents]

\* The memory starts out blank.
LEMMA CellsInit == Init => CellsInv
  BY DEF Init, VmemInit, Contents, CellsInv

\* Every step stores bytes of blocks, or nothing defined.
LEMMA CellsNext ==
    ASSUME SizesInv, PlacementInv, RegionsInv, CellsInv, [Next]_vars
    PROVE  CellsInv'
  <1> SUFFICES cell' \in [Addresses -> Contents]
    BY DEF CellsInv
  <1>0. cell \in [Addresses -> Contents]
    BY DEF CellsInv
  <1> USE DEF vmemVars
  <1>1. CASE cell' = cell
    BY <1>0, <1>1
  <1>2. ASSUME NEW a, NEW n, cell' = Forgotten(cell, a, n)
        PROVE  cell' \in [Addresses -> Contents]
    BY <1>2, <1>0, ForgottenType
  <1>3. CASE w_linear_alloc_destroy \/ UndoReserve \/ ReleaseOld
    BY <1>2, <1>3 DEF w_linear_alloc_destroy, UndoReserve, ReleaseOld,
                      w_vmem_destroy
  <1>4. ASSUME NEW b \in Blocks, w_linear_alloc_free(b) \/ ReallocateToZero(b)
        PROVE  cell' \in [Addresses -> Contents]
    BY <1>2, <1>4 DEF w_linear_alloc_free, ReallocateToZero
  <1>5. CASE MoveContents
    <2>1. pc = "move" /\ cell' = Copied(cell, buf, mem, used)
      BY <1>5 DEF MoveContents, w_copy_mem
    <2>2. Span(mem, used) \subseteq Addresses
      BY <2>1, MoveTouches DEF MoveTouchesCommitted, RegionsInv
    <2>3. buf \in Int /\ mem \in Int /\ used \in Int
      BY DEF SizesInv, FieldsTypeOK
    <2>. QED
      BY <2>1, <2>2, <2>3, <1>0, CopiedType
  <1>6. CASE ReallocateReturn
    <2>1. CASE call.last
      BY <1>2, <1>6, <2>1 DEF ReallocateReturn
    <2>2. CASE ~call.last
      <3>1. /\ Touched \subseteq rw
            /\ cell' = Forgotten(
                         Copied(cell, mem + NewOffset, mem + call.off, call.old),
                         mem + call.off, call.old)
        BY <1>6, <2>2 DEF ReallocateReturn
      <3>2. Span(mem + call.off, call.old) \subseteq Addresses
        BY <2>2, <3>1 DEF Touched, RegionsInv
      <3>3. mem + NewOffset \in Int /\ mem + call.off \in Int /\ call.old \in Int
        BY DEF SizesInv, FieldsTypeOK, Calls, NewOffset
      <3>. QED
        BY <3>1, <3>2, <3>3, CopiedType, <1>0, ForgottenType
    <2>. QED
      BY <2>1, <2>2
  <1>7. ASSUME NEW b \in Blocks, ClientWrite(b)
        PROVE  cell' \in [Addresses -> Contents]
    <2>1. blk[b].ptr \in Nat
      BY DEF SizesInv, FieldsTypeOK
    <2>2. \A a \in Span(blk[b].ptr, blk[b].size) : a - blk[b].ptr \in Nat
      BY <2>1 DEF Span
    <2>3. \A a \in Span(blk[b].ptr, blk[b].size) :
            Datum(b, a - blk[b].ptr) \in Contents
      BY <2>2 DEF Datum, Contents
    <2>. QED
      BY <1>0, <1>7, <2>3 DEF ClientWrite
  <1>8. ASSUME NEW size \in InitialSizes, w_linear_alloc_create(size)
        PROVE  cell' = cell
    BY <1>8 DEF w_linear_alloc_create, w_vmem_create
  <1>9. CASE \/ Reserve \/ CommitBuffer \/ CommitMore \/ AllocateReturn
             \/ ReallocateFault
    <2>1. cell' = cell
      BY <1>9 DEF Reserve, CommitBuffer, CommitMore, AllocateReturn,
                  ReallocateFault, w_vmem_create, w_vmem_commit
    <2>. QED
      BY <1>0, <2>1
  <1>10. ASSUME NEW b \in Blocks, NEW size \in Sizes,
                \/ w_linear_alloc_reallocate(b, size)
                \/ \E alignment \in Alignments :
                     w_linear_alloc_allocate(b, size, alignment)
                \/ ClientRefresh(b)
         PROVE  cell' = cell
    BY <1>10 DEF w_linear_alloc_reallocate, w_linear_alloc_allocate,
                 ClientRefresh
  <1>11. ASSUME NEW b \in Blocks, ClientRefresh(b)
         PROVE  cell' = cell
    BY <1>11 DEF ClientRefresh
  <1>12. CASE UNCHANGED vars
    BY <1>0, <1>12 DEF vars
  <1>. QED
    BY <1>0, <1>1, <1>3, <1>4, <1>5, <1>6, <1>7, <1>8, <1>9, <1>10, <1>11, <1>12
       DEF Next

\* The memory always holds bytes of blocks, or nothing defined.
THEOREM CellsAlways == Spec => []CellsInv
  <1>1. SizesInv /\ PlacementInv /\ RegionsInv /\ CellsInv /\ [Next]_vars
          => CellsInv'
    BY CellsNext
  <1>. QED
    BY <1>1, CellsInit, SizesAlways, PlacementAlways, RegionsAlways, PTL DEF Spec

\* Type correctness of the whole specification.
THEOREM TypeCorrect == Spec => []TypeOK
  <1>1. SizesInv /\ RegionsInv /\ CellsInv => TypeOK
    BY DEF CellsInv, SizesInv, RegionsInv, TypeOK, MemoryTypeOK, Contents
  <1>. QED
    BY <1>1, SizesAlways, RegionsAlways, CellsAlways, PTL

-----------------------------------------------------------------------------
(* Fifth layer: what the clients wrote is where they find it.              *)

Intact(b) ==
    /\ blk[b].init <= blk[b].size
    /\ \A i \in 0 .. blk[b].init - 1 : cell[mem + blk[b].off + i] = Datum(b, i)

\* DataIntact, and that a move has copied everything before the old reservation
\* is released.
DataInv ==
    /\ Created => \A b \in Held : Intact(b)
    /\ pc = "release" =>
         \A b \in Held : \A i \in 0 .. blk[b].init - 1 :
            cell[buf + blk[b].off + i] = Datum(b, i)

\* The locals and fields that the bytes of a block depend on.
LEMMA BlockType ==
    ASSUME SizesInv
    PROVE  /\ mem \in Nat /\ buf \in Nat /\ used \in Nat
           /\ reserved \in Nat /\ committed \in Nat
           /\ \A b \in Blocks : /\ blk[b].off \in Nat /\ blk[b].size \in Nat
                                /\ blk[b].init \in Nat /\ blk[b].ptr \in Nat
  BY DEF SizesInv, FieldsTypeOK

\* The used part lies in the reservation, which is a part of the address space.
LEMMA UsedIsLive ==
    ASSUME SizesInv, RegionsInv, Created
    PROVE  Span(mem, used) \subseteq Live /\ Live \subseteq Addresses
  <1>1. used <= committed /\ committed <= reserved
    BY DEF SizesInv, SizesNested
  <1>2. Span(mem, used) \subseteq Span(mem, reserved)
    BY <1>1, BlockType, SpanPrefix
  <1>. QED
    BY <1>2 DEF RegionsInv, OwnsItsRegions, Live

\* During a move so does its copy, in the new reservation.
LEMMA CopyIsBuffer ==
    ASSUME SizesInv, RegionsInv, pc \in {"undo", "move", "release"}
    PROVE  /\ Span(buf, used) \subseteq Buffer /\ Buffer \subseteq Addresses
           /\ Live \intersect Buffer = {}
  <1>1. /\ buf # Null /\ reserved < call.used /\ call.used \in Nat /\ Created
        /\ used <= committed /\ committed <= reserved
    BY DEF SizesInv, FieldsTypeOK, Calls, CallConsistent, SizesNested, Created
  <1>2. NewReserved \in Nat /\ call.used <= NewReserved
    BY <1>1, BlockType, GrowBounds DEF NewReserved
  <1>3. Span(buf, used) \subseteq Span(buf, NewReserved)
    BY <1>1, <1>2, BlockType, SpanPrefix
  <1>. QED
    BY <1>1, <1>3 DEF RegionsInv, OwnsItsRegions, Live, Buffer

\* The bytes that were written to a block are bytes of it, of the used part and
\* of no other block.
LEMMA BytesOf ==
    ASSUME SizesInv, PlacementInv, Created,
           NEW b \in Held, Intact(b), NEW i \in 0 .. blk[b].init - 1
    PROVE  /\ i \in Nat /\ i < blk[b].size /\ blk[b].off + i < used
           /\ mem + blk[b].off + i \in Span(mem, used)
           /\ buf + blk[b].off + i \in Span(buf, used)
  <1>1. b \in Blocks
    BY DEF Held
  <1>2. i \in Nat /\ i < blk[b].size
    BY <1>1, BlockType DEF Intact
  <1>3. blk[b].off + blk[b].size <= used
    <2>1. blk[b].off + Extent(b) <= used
      BY DEF PlacementInv, BlocksWithinUsed
    <2>. QED
      BY <1>1, <2>1, BlockType DEF Extent, Larger
  <1>4. blk[b].off + i < used
    BY <1>1, <1>2, <1>3, BlockType
  <1>. QED
    BY <1>1, <1>2, <1>4, BlockType DEF Span

LEMMA BytesApart ==
    ASSUME SizesInv, PlacementInv, Created,
           NEW b \in Held, Intact(b), NEW i \in 0 .. blk[b].init - 1,
           NEW c \in Held, c # b
    PROVE  mem + blk[b].off + i \notin Span(mem + blk[c].off, blk[c].size)
  <1>1. b \in Blocks /\ c \in Blocks
    BY DEF Held
  <1>2. i \in Nat /\ i < blk[b].size
    BY BytesOf
  <1>3. \/ blk[b].off + Extent(b) <= blk[c].off
        \/ blk[c].off + Extent(c) <= blk[b].off
    BY DEF PlacementInv, BlocksDisjoint
  <1>4. \/ blk[b].off + blk[b].size <= blk[c].off
        \/ blk[c].off + blk[c].size <= blk[b].off
    BY <1>1, <1>3, BlockType DEF Extent, Larger
  <1>. QED
    BY <1>1, <1>2, <1>4, BlockType DEF Span

\* A block that a step does not change, where the memory of its bytes is not
\* changed either.
LEMMA IntactKept ==
    ASSUME NEW b \in Blocks, Intact(b), mem' = mem,
           blk'[b].off = blk[b].off, blk'[b].size = blk[b].size,
           blk'[b].init = blk[b].init,
           \A i \in 0 .. blk[b].init - 1 :
             cell'[mem + blk[b].off + i] = cell[mem + blk[b].off + i]
    PROVE  Intact(b)'
  BY DEF Intact, Datum

\* Forgetting what is not of the block leaves it alone.
LEMMA ForgottenElsewhere ==
    ASSUME SizesInv, PlacementInv, RegionsInv, Created,
           NEW b \in Held, Intact(b), NEW a, NEW n,
           cell' = Forgotten(cell, a, n),
           \A i \in 0 .. blk[b].init - 1 : mem + blk[b].off + i \notin Span(a, n)
    PROVE  \A i \in 0 .. blk[b].init - 1 :
             cell'[mem + blk[b].off + i] = cell[mem + blk[b].off + i]
  <1> SUFFICES ASSUME NEW i \in 0 .. blk[b].init - 1
               PROVE  cell'[mem + blk[b].off + i] = cell[mem + blk[b].off + i]
    OBVIOUS
  <1>1. mem + blk[b].off + i \in Addresses
    BY BytesOf, UsedIsLive
  <1>. QED
    BY <1>1 DEF Forgotten

\* The block that a client frees, or reallocates to nothing, is the only one
\* that loses its bytes.
LEMMA DataFreed ==
    ASSUME SizesInv, PlacementInv, RegionsInv, DataInv,
           NEW b \in Blocks, w_linear_alloc_free(b) \/ ReallocateToZero(b)
    PROVE  DataInv'
  <1>1. /\ pc = "idle" /\ pc' = "idle" /\ b \in Held /\ mem' = mem
        /\ cell' = Forgotten(cell, mem + blk[b].off, blk[b].size)
    BY DEF w_linear_alloc_free, ReallocateToZero, Fresh, allocVars
  <1>2. \A c \in Held' : c = b \/ (c \in Held /\ c \in Blocks /\ blk'[c] = blk[c])
    <2>1. \A c \in Blocks : c # b => blk'[c] = blk[c]
      BY DEF w_linear_alloc_free, ReallocateToZero, SizesInv, FieldsTypeOK
    <2>. QED
      BY <2>1 DEF Held
  <1>3. b \in Held' => blk'[b].size = 0 /\ blk'[b].init = 0
    BY BlockType DEF w_linear_alloc_free, ReallocateToZero, Held, NoBlock,
                     SizesInv, FieldsTypeOK
  <1> SUFFICES ASSUME NEW c \in Held'
               PROVE  Intact(c)'
    BY <1>1 DEF DataInv
  <1>4. CASE c = b
    BY <1>3, <1>4 DEF Intact
  <1>5. CASE c # b
    <2>1. /\ c \in Held /\ c \in Blocks /\ blk'[c] = blk[c] /\ Intact(c)
          /\ Created
      BY <1>1, <1>2, <1>5 DEF DataInv, Created
    <2>2. \A i \in 0 .. blk[c].init - 1 :
            mem + blk[c].off + i \notin Span(mem + blk[b].off, blk[b].size)
      BY <1>1, <1>5, <2>1, BytesApart
    <2>3. \A i \in 0 .. blk[c].init - 1 :
            cell'[mem + blk[c].off + i] = cell[mem + blk[c].off + i]
      BY <1>1, <2>1, <2>2, ForgottenElsewhere
    <2>4. /\ blk'[c].off = blk[c].off /\ blk'[c].size = blk[c].size
          /\ blk'[c].init = blk[c].init
      BY <2>1
    <2>. QED
      BY <1>1, <2>1, <2>3, <2>4, IntactKept
  <1>. QED
    BY <1>4, <1>5

\* A client writes to its own block.
LEMMA DataWritten ==
    ASSUME SizesInv, PlacementInv, RegionsInv, DataInv,
           NEW b \in Blocks, ClientWrite(b)
    PROVE  DataInv'
  <1>1. /\ pc = "idle" /\ pc' = "idle" /\ b \in Held /\ mem' = mem
        /\ blk[b].ptr = mem + blk[b].off /\ Created
        /\ cell' = [a \in Addresses |->
                      IF a \in Span(blk[b].ptr, blk[b].size)
                        THEN Datum(b, a - blk[b].ptr) ELSE cell[a]]
        /\ blk' = [blk EXCEPT ![b].init = blk[b].size]
    BY DEF ClientWrite, Fresh, allocVars, Created
  <1>2. \A c \in Held' : c \in Held /\ c \in Blocks
    BY <1>1, BlockType DEF Held, SizesInv, FieldsTypeOK
  <1>3. /\ blk'[b].init = blk[b].size /\ blk'[b].size = blk[b].size
        /\ blk'[b].off = blk[b].off
    BY <1>1 DEF SizesInv, FieldsTypeOK
  <1> SUFFICES ASSUME NEW c \in Held'
               PROVE  Intact(c)'
    BY <1>1 DEF DataInv
  <1>4. CASE c = b
    <2>1. ASSUME NEW i \in 0 .. blk[b].size - 1
          PROVE  cell'[mem + blk[b].off + i] = Datum(b, i)
      <3> DEFINE a == mem + blk[b].off + i
      <3>1. /\ i \in Nat /\ a \in Span(blk[b].ptr, blk[b].size)
            /\ a - blk[b].ptr = i
        BY <1>1, BlockType DEF Span
      <3>2. a \in Addresses
        <4>1. blk[b].off + blk[b].size <= used
          <5>1. blk[b].off + Extent(b) <= used
            BY <1>1 DEF PlacementInv, BlocksWithinUsed
          <5>. QED
            BY <5>1, BlockType DEF Extent, Larger
        <4>2. a \in Span(mem, used)
          BY <4>1, BlockType DEF Span
        <4>. QED
          BY <1>1, <4>2, UsedIsLive
      <3> HIDE DEF a
      <3>3. cell'[a] = Datum(b, a - blk[b].ptr)
        BY <1>1, <3>1, <3>2
      <3>. QED
        BY <3>1, <3>3 DEF a
    <2>2. \A i \in 0 .. blk'[b].init - 1 :
            cell'[mem' + blk'[b].off + i] = Datum(b, i)
      BY <1>1, <1>3, <2>1
    <2>3. blk'[b].init <= blk'[b].size
      BY <1>3, BlockType
    <2>. QED
      BY <1>4, <2>2, <2>3 DEF Intact, Datum
  <1>5. CASE c # b
    <2>1. /\ c \in Held /\ c \in Blocks /\ blk'[c] = blk[c] /\ Intact(c)
      BY <1>1, <1>2, <1>5 DEF DataInv, SizesInv, FieldsTypeOK
    <2>2. ASSUME NEW i \in 0 .. blk[c].init - 1
          PROVE  cell'[mem + blk[c].off + i] = cell[mem + blk[c].off + i]
      <3>1. mem + blk[c].off + i \notin Span(blk[b].ptr, blk[b].size)
        BY <1>1, <1>5, <2>1, BytesApart
      <3>2. mem + blk[c].off + i \in Addresses
        BY <1>1, <2>1, BytesOf, UsedIsLive
      <3>. QED
        BY <1>1, <3>1, <3>2
    <2>. QED
      BY <1>1, <2>1, <2>2, IntactKept
  <1>. QED
    BY <1>4, <1>5

\* A step after which no block has bytes, or that touches neither the memory
\* nor a block that does.
LEMMA DataStable ==
    ASSUME SizesInv, DataInv, pc' # "release",
           \/ ~Created' \/ Held' = {}
           \/ /\ Created /\ UNCHANGED <<cell, mem>>
              /\ \A b \in Held' :
                   \/ /\ b \in Held
                      /\ blk'[b].off = blk[b].off /\ blk'[b].size = blk[b].size
                      /\ blk'[b].init = blk[b].init
                   \/ blk'[b].init = 0 /\ blk'[b].size \in Nat
    PROVE  DataInv'
  <1>1. CASE ~Created' \/ Held' = {}
    BY <1>1 DEF DataInv
  <1>2. CASE /\ Created /\ UNCHANGED <<cell, mem>>
             /\ \A b \in Held' :
                  \/ /\ b \in Held
                     /\ blk'[b].off = blk[b].off /\ blk'[b].size = blk[b].size
                     /\ blk'[b].init = blk[b].init
                  \/ blk'[b].init = 0 /\ blk'[b].size \in Nat
    <2> SUFFICES ASSUME NEW b \in Held'
                 PROVE  Intact(b)'
      BY DEF DataInv
    <2>1. CASE /\ b \in Held
               /\ blk'[b].off = blk[b].off /\ blk'[b].size = blk[b].size
               /\ blk'[b].init = blk[b].init
      <3>1. Intact(b) /\ b \in Blocks
        BY <1>2, <2>1 DEF DataInv, Held
      <3>. QED
        BY <1>2, <2>1, <3>1, IntactKept
    <2>2. CASE blk'[b].init = 0 /\ blk'[b].size \in Nat
      BY <2>2 DEF Intact
    <2>. QED
      BY <1>2, <2>1, <2>2
  <1>. QED
    BY <1>1, <1>2

\* Giving the new reservation back after a failure loses nothing.
LEMMA DataUndone ==
    ASSUME SizesInv, PlacementInv, RegionsInv, DataInv, UndoReserve
    PROVE  DataInv'
  <1>1. /\ pc = "undo" /\ pc' = "idle" /\ mem' = mem /\ blk' = blk /\ Created
        /\ cell' = Forgotten(cell, buf, NewReserved)
    BY DEF UndoReserve, w_vmem_destroy, Fail, allocVars, Created
  <1> SUFFICES ASSUME NEW b \in Held'
               PROVE  Intact(b)'
    BY <1>1 DEF DataInv
  <1>2. b \in Held /\ b \in Blocks /\ Intact(b)
    BY <1>1 DEF DataInv, Held
  <1>3. \A i \in 0 .. blk[b].init - 1 :
          mem + blk[b].off + i \notin Span(buf, NewReserved)
    BY <1>1, <1>2, BytesOf, UsedIsLive, CopyIsBuffer DEF Buffer
  <1>4. \A i \in 0 .. blk[b].init - 1 :
          cell'[mem + blk[b].off + i] = cell[mem + blk[b].off + i]
    BY <1>1, <1>2, <1>3, ForgottenElsewhere
  <1>. QED
    BY <1>1, <1>2, <1>4, IntactKept

\* After the move every byte of a block is in both reservations.
LEMMA DataMoved ==
    ASSUME SizesInv, PlacementInv, RegionsInv, DataInv, MoveContents
    PROVE  DataInv'
  <1>1. /\ pc = "move" /\ pc' = "release" /\ mem' = mem /\ buf' = buf
        /\ blk' = blk /\ Created
        /\ cell' = Copied(cell, buf, mem, used)
    BY DEF MoveContents, w_copy_mem, allocVars, Created
  <1>2. /\ Span(mem, used) \subseteq Live /\ Live \subseteq Addresses
        /\ Span(buf, used) \subseteq Buffer /\ Buffer \subseteq Addresses
        /\ Live \intersect Buffer = {}
    BY <1>1, UsedIsLive, CopyIsBuffer
  <1>3. ASSUME NEW b \in Held, NEW i \in 0 .. blk[b].init - 1
        PROVE  /\ cell'[mem + blk[b].off + i] = cell[mem + blk[b].off + i]
               /\ cell'[buf + blk[b].off + i] = cell[mem + blk[b].off + i]
    <2>1. b \in Blocks /\ Intact(b)
      BY <1>1 DEF DataInv, Held
    <2>2. /\ mem + blk[b].off + i \in Span(mem, used)
          /\ buf + blk[b].off + i \in Span(buf, used)
          /\ i \in Nat
      BY <1>1, <2>1, BytesOf
    <2>3. /\ mem + blk[b].off + i \in Addresses \ Span(buf, used)
          /\ buf + blk[b].off + i \in Addresses
      BY <1>2, <2>2
    <2>4. mem + ((buf + blk[b].off + i) - buf) = mem + blk[b].off + i
      BY <2>1, <2>2, BlockType
    <2>. QED
      BY <1>1, <2>2, <2>3, <2>4 DEF Copied
  <1>4. ASSUME NEW b \in Held PROVE Intact(b)'
    <2>1. b \in Blocks /\ Intact(b)
      BY <1>1 DEF DataInv, Held
    <2>. QED
      BY <1>1, <1>3, <2>1, IntactKept
  <1>5. ASSUME NEW b \in Held, NEW i \in 0 .. blk[b].init - 1
        PROVE  cell'[buf + blk[b].off + i] = Datum(b, i)
    BY <1>1, <1>3, <1>5 DEF DataInv, Intact
  <1>6. Held' = Held
    BY <1>1 DEF Held
  <1>7. \A b \in Held' : \A i \in 0 .. blk'[b].init - 1 :
          cell'[buf' + blk'[b].off + i] = Datum(b, i)
    BY <1>1, <1>5, <1>6
  <1>. QED
    BY <1>4, <1>6, <1>7 DEF DataInv, Datum

\* The old reservation is released with nothing but a copy in it.
LEMMA DataReleased ==
    ASSUME SizesInv, PlacementInv, RegionsInv, DataInv, ReleaseOld
    PROVE  DataInv'
  <1>1. /\ pc = "release" /\ pc' = "return" /\ mem' = buf /\ blk' = blk
        /\ Created /\ cell' = Forgotten(cell, mem, reserved)
    BY DEF ReleaseOld, w_vmem_destroy, Created
  <1>2. /\ Span(buf, used) \subseteq Buffer /\ Buffer \subseteq Addresses
        /\ Span(mem, reserved) \intersect Buffer = {}
    BY <1>1, CopyIsBuffer DEF Live
  <1> SUFFICES ASSUME NEW b \in Held'
               PROVE  Intact(b)'
    BY <1>1 DEF DataInv
  <1>3. b \in Held /\ b \in Blocks /\ Intact(b)
    BY <1>1 DEF DataInv, Held
  <1>4. ASSUME NEW i \in 0 .. blk[b].init - 1
        PROVE  cell'[buf + blk[b].off + i] = Datum(b, i)
    <2>1. buf + blk[b].off + i \in Span(buf, used)
      BY <1>1, <1>3, BytesOf
    <2>2. buf + blk[b].off + i \in Addresses \ Span(mem, reserved)
      BY <1>2, <2>1
    <2>3. cell'[buf + blk[b].off + i] = cell[buf + blk[b].off + i]
      BY <1>1, <2>2 DEF Forgotten
    <2>. QED
      BY <1>1, <1>3, <2>3 DEF DataInv
  <1>. QED
    BY <1>1, <1>3, <1>4 DEF Intact, Datum

\* A reallocated block keeps what it can of its bytes, where it is or after
\* the used part, and the other blocks keep theirs.
LEMMA DataReallocated ==
    ASSUME SizesInv, PlacementInv, RegionsInv, DataInv, ReallocateReturn
    PROVE  DataInv'
  <1> DEFINE B == call.b
  <1>1. /\ pc = "return" /\ pc' = "idle" /\ mem' = mem /\ Created
        /\ call.op = "reallocate" /\ Consistent(call)
        /\ blk' = [blk EXCEPT ![B] =
                     [ptr |-> mem + NewOffset, off |-> NewOffset,
                      size |-> call.size, align |-> call.align,
                      init |-> Smaller(blk[B].init, call.size)]]
    BY DEF ReallocateReturn, Succeed, SizesInv, CallConsistent, Created
  <1>2. /\ B \in Blocks /\ B \in Held
        /\ call.off = blk[B].off /\ call.old = blk[B].size
        /\ call.last => /\ call.off + call.old = used
                        /\ call.used = call.off + call.size
        /\ ~call.last => used <= call.used - call.size
        /\ 0 < call.size /\ call.size <= call.used
    BY <1>1 DEF Consistent
  <1>3. /\ call.size \in Nat /\ call.used \in Nat /\ call.old \in Nat
        /\ call.off \in Nat
        /\ NewOffset = call.used - call.size /\ NewOffset \in Nat
        /\ mem \in Nat /\ used \in Nat
    BY <1>2, BlockType DEF SizesInv, FieldsTypeOK, Calls, NewOffset
  <1> HIDE DEF B
  <1>4. /\ \A c \in Blocks : c # B => blk'[c] = blk[c]
        /\ blk'[B].off = NewOffset /\ blk'[B].size = call.size
        /\ blk'[B].init = Smaller(blk[B].init, call.size)
    BY <1>1, <1>2 DEF SizesInv, FieldsTypeOK
  <1>5. call.off + call.old <= used
    <2>1. blk[B].off + Extent(B) <= used
      BY <1>1, <1>2 DEF PlacementInv, BlocksWithinUsed
    <2>. QED
      BY <1>2, <1>3, <2>1 DEF Extent, Larger
  <1>6. Intact(B)
    BY <1>1, <1>2 DEF DataInv
  <1>7. /\ blk'[B].init \in Nat /\ blk'[B].init <= call.size
        /\ blk'[B].init <= blk[B].init /\ blk[B].init <= call.old
    BY <1>2, <1>3, <1>4, <1>6, BlockType DEF Smaller, Intact
  \* The bytes of a block that the step leaves alone.
  <1>8. ASSUME NEW c \in Held, c # B, NEW i \in 0 .. blk[c].init - 1
        PROVE  /\ mem + blk[c].off + i \in Addresses
               /\ mem + blk[c].off + i \in Int
               /\ mem + blk[c].off + i < mem + used
               /\ mem + blk[c].off + i \notin Span(mem + call.off, call.old)
               /\ call.last => mem + blk[c].off + i < mem + call.off
    <2>1. c \in Blocks /\ Intact(c)
      BY <1>1 DEF DataInv, Held
    <2>2. /\ mem + blk[c].off + i \in Addresses
          /\ i \in Nat /\ i < blk[c].size /\ blk[c].off + i < used
      BY <1>1, <2>1, BytesOf, UsedIsLive
    <2>3. mem + blk[c].off + i \notin Span(mem + call.off, call.old)
      BY <1>1, <1>2, <1>8, <2>1, BytesApart
    <2>4. /\ mem + blk[c].off + i \in Int
          /\ mem + blk[c].off + i < mem + used
      BY <1>3, <2>1, <2>2, BlockType
    <2>5. call.last => mem + blk[c].off + i < mem + call.off
      <3>1. \/ mem + blk[c].off + i < mem + call.off
            \/ mem + blk[c].off + i >= mem + call.off + call.old
        BY <1>3, <2>3, <2>4 DEF Span
      <3>. QED
        BY <1>2, <1>3, <2>4, <3>1
    <2>. QED
      BY <2>2, <2>3, <2>4, <2>5
  <1>9. ASSUME NEW c \in Held, c # B, NEW i \in 0 .. blk[c].init - 1
        PROVE  cell'[mem + blk[c].off + i] = cell[mem + blk[c].off + i]
    <2> DEFINE a == mem + blk[c].off + i
    <2>1. /\ a \in Addresses /\ a \in Int /\ a < mem + used
          /\ a \notin Span(mem + call.off, call.old)
          /\ call.last => a < mem + call.off
      BY <1>8, <1>9
    <2> HIDE DEF a
    <2>2. CASE call.last
      <3>1. cell' = Forgotten(cell, mem + call.used, call.old - call.size)
        BY <2>2 DEF ReallocateReturn
      <3>2. a \notin Span(mem + call.used, call.old - call.size)
        BY <1>2, <1>3, <2>1, <2>2 DEF Span
      <3>. QED
        BY <2>1, <3>1, <3>2 DEF Forgotten, a
    <2>3. CASE ~call.last
      <3>1. cell' = Forgotten(
                      Copied(cell, mem + NewOffset, mem + call.off, call.old),
                      mem + call.off, call.old)
        BY <2>3 DEF ReallocateReturn
      <3>2. a \notin Span(mem + NewOffset, call.old)
        BY <1>2, <1>3, <2>1, <2>3 DEF Span
      <3>. QED
        BY <2>1, <3>1, <3>2 DEF Forgotten, Copied, a
    <2>. QED
      BY <2>2, <2>3
  \* The bytes of the reallocated block.
  <1>10. ASSUME NEW i \in 0 .. blk'[B].init - 1
         PROVE  cell'[mem + NewOffset + i] = Datum(B, i)
    <2>1. /\ i \in 0 .. blk[B].init - 1 /\ i \in Nat /\ i < call.size
          /\ i < call.old
      BY <1>2, <1>3, <1>7, BlockType
    <2>2. cell[mem + call.off + i] = Datum(B, i)
      BY <1>2, <1>6, <2>1 DEF Intact
    <2>3. mem + call.off + i \in Addresses
      BY <1>1, <1>2, <1>6, <2>1, BytesOf, UsedIsLive
    <2>4. CASE call.last
      <3>1. cell' = Forgotten(cell, mem + call.used, call.old - call.size)
        BY <2>4 DEF ReallocateReturn
      <3>2. NewOffset = call.off
        BY <1>2, <1>3, <2>4
      <3>3. mem + call.off + i \notin Span(mem + call.used, call.old - call.size)
        BY <1>2, <1>3, <2>1, <2>4 DEF Span
      <3>. QED
        BY <2>2, <2>3, <3>1, <3>2, <3>3 DEF Forgotten
    <2>5. CASE ~call.last
      <3>1. /\ cell' = Forgotten(
                         Copied(cell, mem + NewOffset, mem + call.off, call.old),
                         mem + call.off, call.old)
            /\ Touched \subseteq rw
        BY <2>5 DEF ReallocateReturn
      <3> DEFINE a == mem + NewOffset + i
      <3>2. /\ a \in Span(mem + NewOffset, call.old)
            /\ a \notin Span(mem + call.off, call.old)
            /\ (mem + call.off) + (a - (mem + NewOffset)) = mem + call.off + i
        BY <1>2, <1>3, <1>5, <2>1, <2>5 DEF Span
      <3>3. a \in Addresses
        BY <2>5, <3>1, <3>2 DEF Touched, RegionsInv
      <3> HIDE DEF a
      <3>4. cell'[a] = cell[mem + call.off + i]
        BY <3>1, <3>2, <3>3 DEF Forgotten, Copied
      <3>. QED
        BY <2>2, <3>4 DEF a
    <2>. QED
      BY <2>4, <2>5
  <1>11. ASSUME NEW c \in Held' PROVE Intact(c)'
    <2>1. CASE c = B
      BY <1>1, <1>4, <1>7, <1>10, <2>1 DEF Intact, Datum
    <2>2. CASE c # B
      <3>1. c \in Blocks /\ c \in Held
        BY <1>4, <2>2 DEF Held
      <3>2. /\ blk'[c].off = blk[c].off /\ blk'[c].size = blk[c].size
            /\ blk'[c].init = blk[c].init /\ Intact(c)
        BY <1>1, <1>4, <2>2, <3>1 DEF DataInv
      <3>3. \A i \in 0 .. blk[c].init - 1 :
              cell'[mem + blk[c].off + i] = cell[mem + blk[c].off + i]
        BY <1>9, <2>2, <3>1
      <3>. QED
        BY <1>1, <3>1, <3>2, <3>3, IntactKept
    <2>. QED
      BY <2>1, <2>2
  <1>. QED
    BY <1>1, <1>11 DEF DataInv

\* No block has bytes at first.
LEMMA DataInit == Init => DataInv
  BY DEF Init, DataInv, Created

\* Every step of the allocator and of its clients keeps what the clients wrote.
LEMMA DataNext ==
    ASSUME SizesInv, PlacementInv, RegionsInv, DataInv, [Next]_vars
    PROVE  DataInv'
  <1> USE DEF allocVars, vmemVars
  <1>1. CASE /\ Created /\ UNCHANGED <<cell, mem, blk>> /\ pc' # "release"
    BY <1>1, DataStable DEF Held
  <1>2. CASE UNCHANGED vars
    BY <1>2 DEF vars, DataInv, Created, Held, Intact, Datum
  <1>3. ASSUME NEW size \in InitialSizes, w_linear_alloc_create(size)
        PROVE  DataInv'
    <2>1. Held' = {} /\ pc' # "release"
      BY <1>3 DEF w_linear_alloc_create, PlacementInv, Held
    <2>. QED
      BY <2>1, DataStable
  <1>4. CASE w_linear_alloc_destroy
    <2>1. Held' = {} /\ pc' # "release"
      BY <1>4 DEF w_linear_alloc_destroy, Held, NoBlock
    <2>. QED
      BY <2>1, DataStable
  <1>5. ASSUME NEW b \in Blocks, NEW size \in Sizes,
               \/ w_linear_alloc_reallocate(b, size)
               \/ \E alignment \in Alignments :
                    w_linear_alloc_allocate(b, size, alignment)
        PROVE  DataInv'
    <2>1. Created /\ UNCHANGED <<cell, mem, blk>> /\ pc' # "release"
      BY <1>5 DEF w_linear_alloc_reallocate, w_linear_alloc_allocate, Enter,
                  Created
    <2>. QED
      BY <2>1, <1>1
  <1>6. ASSUME NEW b \in Blocks, w_linear_alloc_free(b) \/ ReallocateToZero(b)
        PROVE  DataInv'
    BY <1>6, DataFreed
  <1>7. ASSUME NEW b \in Blocks, ClientWrite(b)
        PROVE  DataInv'
    BY <1>7, DataWritten
  <1>8. CASE \/ Reserve \/ CommitBuffer \/ CommitMore \/ ReallocateFault
    <2>1. Created /\ UNCHANGED <<cell, mem, blk>> /\ pc' # "release"
      BY <1>8 DEF Reserve, CommitBuffer, CommitMore, ReallocateFault, Fail,
                  w_vmem_create, w_vmem_commit, Created
    <2>. QED
      BY <2>1, <1>1
  <1>9. CASE AllocateReturn
    <2>1. /\ Created /\ UNCHANGED <<cell, mem>> /\ pc' # "release"
          /\ call.size \in Nat /\ call.b \in Blocks
      BY <1>9 DEF AllocateReturn, Succeed, Created, SizesInv, FieldsTypeOK,
                  Calls, CallConsistent, Consistent
    <2>2. \A b \in Blocks :
            IF b = call.b THEN blk'[b].init = 0 /\ blk'[b].size = call.size
                          ELSE blk'[b] = blk[b]
      BY <1>9, <2>1 DEF AllocateReturn, SizesInv, FieldsTypeOK
    <2>3. \A b \in Held' :
            \/ b \in Held /\ blk'[b] = blk[b]
            \/ blk'[b].init = 0 /\ blk'[b].size \in Nat
      BY <2>1, <2>2 DEF Held
    <2>. QED
      BY <2>1, <2>3, DataStable
  <1>10. ASSUME NEW b \in Blocks, ClientRefresh(b)
         PROVE  DataInv'
    <2>1. Created /\ UNCHANGED <<cell, mem>> /\ pc' # "release"
      BY <1>10 DEF ClientRefresh, Created
    <2>2. \A c \in Blocks :
            /\ blk'[c].off = blk[c].off /\ blk'[c].size = blk[c].size
            /\ blk'[c].init = blk[c].init
            /\ c # b => blk'[c].ptr = blk[c].ptr
      BY <1>10 DEF ClientRefresh, SizesInv, FieldsTypeOK
    <2>3. \A c \in Held' : c \in Held /\ c \in Blocks
      BY <1>10, <2>2 DEF ClientRefresh, Held
    <2>. QED
      BY <2>1, <2>2, <2>3, DataStable
  <1>. QED
    BY <1>2, <1>3, <1>4, <1>5, <1>6, <1>7, <1>8, <1>9, <1>10,
       DataUndone, DataMoved, DataReleased, DataReallocated DEF Next

\* The bytes of the blocks are in place at every step, those of a move included.
THEOREM DataAlways == Spec => []DataInv
  <1>1. SizesInv /\ PlacementInv /\ RegionsInv /\ DataInv /\ [Next]_vars
          => DataInv'
    BY DataNext
  <1>. QED
    BY <1>1, DataInit, SizesAlways, PlacementAlways, RegionsAlways, PTL DEF Spec

\* What a client wrote to a block stays at the block's place, through every
\* allocation, move, failed call, reallocation and release (mem.c:55-170,
\* 233-425).
THEOREM DataIntactAlways == Spec => []DataIntact
  <1>1. DataInv => DataIntact
    BY DEF DataInv, Intact, DataIntact
  <1>. QED
    BY <1>1, DataAlways, PTL

-----------------------------------------------------------------------------
(* Sixth layer: the allocator implements Arena.                            *)

\* The size in the locals of a call is the one its client passed.
CallSized ==
    pc \in {"reserve", "commit_buffer", "undo", "move", "release", "commit",
            "return"} => call.size \in Sizes

\* A call keeps the size it was entered with.
LEMMA CallSizedNext ==
    ASSUME CallSized, [Next]_vars
    PROVE  CallSized'
  <1>1. ASSUME NEW b \in Blocks, NEW size \in Sizes,
               \/ w_linear_alloc_reallocate(b, size)
               \/ \E alignment \in Alignments :
                    w_linear_alloc_allocate(b, size, alignment)
        PROVE  CallSized'
    BY <1>1 DEF CallSized, w_linear_alloc_reallocate,
                w_linear_alloc_allocate, Enter
  <1>2. ASSUME NEW size \in InitialSizes, w_linear_alloc_create(size)
        PROVE  CallSized'
    BY <1>2 DEF CallSized, w_linear_alloc_create
  <1>3. ASSUME NEW b \in Blocks,
               \/ w_linear_alloc_free(b) \/ ReallocateToZero(b)
               \/ ClientWrite(b) \/ ClientRefresh(b)
        PROVE  CallSized'
    BY <1>3 DEF CallSized, w_linear_alloc_free, ReallocateToZero,
                ClientWrite, ClientRefresh
  <1>4. CASE \/ w_linear_alloc_destroy \/ Reserve \/ CommitBuffer
             \/ UndoReserve \/ MoveContents \/ ReleaseOld \/ CommitMore
             \/ AllocateReturn \/ ReallocateReturn \/ ReallocateFault
    BY <1>4 DEF CallSized, w_linear_alloc_destroy, Reserve, CommitBuffer,
                UndoReserve, MoveContents, ReleaseOld, CommitMore, Fail,
                AllocateReturn, ReallocateReturn, ReallocateFault, Succeed
  <1>5. CASE UNCHANGED vars
    BY <1>5 DEF vars, CallSized
  <1>. QED
    BY <1>1, <1>2, <1>3, <1>4, <1>5 DEF Next

THEOREM CallSizedAlways == Spec => []CallSized
  <1>1. Init => CallSized
    BY DEF Init, CallSized
  <1>2. CallSized /\ [Next]_vars => CallSized'
    BY CallSizedNext
  <1>. QED
    BY <1>1, <1>2, PTL DEF Spec

\* The first n bytes of block b as its client wrote them.
Known(b, n) == [i \in 1 .. n |-> Datum(b, i - 1)]

\* What the abstract arena knows of block b, without the memory.
Seen(b) ==
    IF Created /\ b \in Held
      THEN Abstract!Block(blk[b].size, Known(b, blk[b].init))
      ELSE Abstract!NoBlock

\* The refinement mapping of the blocks, without the memory.
SeesKnown == [b \in Blocks |-> BlockContents(b)] = [b \in Blocks |-> Seen(b)]

\* As many bytes are known as the client wrote.
LEMMA KnownLen ==
    ASSUME NEW b, NEW n \in Nat
    PROVE  /\ Known(b, n) \in Seq({Datum(b, i) : i \in Nat})
           /\ Len(Known(b, n)) = n
  BY DEF Known

\* The beginning of what is known.
LEMMA KnownPrefix ==
    ASSUME NEW b, NEW n \in Nat, NEW k \in 0 .. n
    PROVE  SubSeq(Known(b, n), 1, k) = Known(b, k)
  <1> DEFINE s == Known(b, n)
  <1>1. s \in Seq({Datum(b, i) : i \in Nat}) /\ Len(s) = n
    BY KnownLen
  <1>2. \A i \in 1 .. n : s[i] = Datum(b, i - 1)
    BY DEF Known
  <1> HIDE DEF s
  <1>3. SubSeq(s, 1, k) = [i \in 1 .. k |-> s[i]]
    BY <1>1
  <1>. QED
    BY <1>1, <1>2, <1>3 DEF Known, s

\* With the data intact, the memory shows what the clients wrote.
LEMMA DataIsKnown == SizesInv /\ DataInv => SeesKnown
  <1> SUFFICES ASSUME SizesInv, DataInv, NEW b \in Blocks
               PROVE  BlockContents(b) = Seen(b)
    BY DEF SeesKnown
  <1>1. CASE Created /\ b \in Held
    <2>1. blk[b].init \in Nat /\ blk[b].off \in Nat /\ mem \in Nat
      BY BlockType
    <2>2. \A i \in 0 .. blk[b].init - 1 :
            cell[mem + blk[b].off + i] = Datum(b, i)
      BY <1>1 DEF DataInv, Intact
    <2>3. \A i \in 1 .. blk[b].init :
            cell[mem + blk[b].off + (i - 1)] = Datum(b, i - 1)
      BY <2>1, <2>2
    <2>4. [i \in 1 .. blk[b].init |-> cell[mem + blk[b].off + (i - 1)]]
            = Known(b, blk[b].init)
      BY <2>3 DEF Known
    <2>. QED
      BY <1>1, <2>4 DEF BlockContents, Seen, Abstract!Block
  <1>2. CASE ~(Created /\ b \in Held)
    BY <1>2 DEF BlockContents, Seen, Abstract!NoBlock
  <1>. QED
    BY <1>1, <1>2

\* A step that leaves the client's view of every block but b alone.
LEMMA OneSeen ==
    ASSUME SeesKnown, SeesKnown', NEW b \in Blocks, NEW new,
           \A c \in Blocks : Seen(c)' = IF c = b THEN new ELSE Seen(c)
    PROVE  [c \in Blocks |-> BlockContents(c)]'
             = [[c \in Blocks |-> BlockContents(c)] EXCEPT ![b] = new]
  BY DEF SeesKnown

\* A step that leaves the client's view of every block alone.
LEMMA NoneSeen ==
    ASSUME SeesKnown, SeesKnown', \A c \in Blocks : Seen(c)' = Seen(c)
    PROVE  [c \in Blocks |-> BlockContents(c)]'
             = [c \in Blocks |-> BlockContents(c)]
  BY DEF SeesKnown

\* It does when the sizes and the extents written are what they were.
LEMMA SeenStable ==
    ASSUME Created' <=> Created,
           NEW c \in Blocks, c \in Held' <=> c \in Held,
           blk'[c].size = blk[c].size, blk'[c].init = blk[c].init
    PROVE  Seen(c)' = Seen(c)
  BY DEF Seen, Abstract!Block, Abstract!NoBlock, Known, Datum

\* A client's pointer to a block is never NULL.
LEMMA BaseNotNull ==
    ASSUME SizesInv, RegionsInv, Created, committed > 0
    PROVE  mem \in Nat /\ mem > 0
  <1>1. mem \in Nat /\ reserved \in Nat /\ reserved > 0
    BY BlockType DEF SizesInv, SizesNested
  <1>2. mem \in Live
    BY <1>1 DEF Live, Span
  <1>3. mem \in Addresses
    BY <1>2 DEF RegionsInv, OwnsItsRegions, Live
  <1>. QED
    BY <1>1, <1>3, GranularityAssumption DEF Addresses

\* A step that is invisible to the clients, or a failed call.
LEMMA StepHidden ==
    ASSUME SeesKnown, SeesKnown', Created' <=> Created,
           \A c \in Blocks : Seen(c)' = Seen(c),
           status' = status \/ status' = "W_ERROR_ALLOC_FAILED"
    PROVE  [Abstract!Next]_Abstract!arenaVars
  <1>1. [c \in Blocks |-> BlockContents(c)]' = [c \in Blocks |-> BlockContents(c)]
    BY NoneSeen
  <1>. QED
    BY <1>1 DEF Abstract!Next, Abstract!Fail, Abstract!arenaVars

\* A step that shows block b as new and succeeds, as one action of the arena.
LEMMA StepShown ==
    ASSUME SeesKnown, SeesKnown', Created, Created', NEW b \in Blocks, NEW new,
           \A c \in Blocks : Seen(c)' = IF c = b THEN new ELSE Seen(c),
           status' = "W_SUCCESS"
    PROVE  Abstract!Succeed(b, new)
  <1>1. [c \in Blocks |-> BlockContents(c)]'
          = [[c \in Blocks |-> BlockContents(c)] EXCEPT ![b] = new]
    BY OneSeen
  <1>. QED
    BY <1>1 DEF Abstract!Succeed

\* What the arena says of a block the client holds.
LEMMA HeldShown ==
    ASSUME SeesKnown, Created, NEW b \in Blocks
    PROVE  /\ [c \in Blocks |-> BlockContents(c)][b] = Seen(b)
           /\ b \in Held =>
                /\ Seen(b).held = TRUE
                /\ Seen(b).size = blk[b].size
                /\ Seen(b).bytes = Known(b, blk[b].init)
           /\ b \notin Held => Seen(b).held = FALSE
  <1>1. [c \in Blocks |-> BlockContents(c)][b] = Seen(b)
    BY DEF SeesKnown
  <1>. QED
    BY <1>1 DEF Seen, Abstract!Block, Abstract!NoBlock

\* Freeing a block.
LEMMA StepFree ==
    ASSUME SizesInv, SeesKnown, SeesKnown', NEW b \in Blocks,
           w_linear_alloc_free(b)
    PROVE  Abstract!Free(b)
  <1>1. /\ Created /\ Created' /\ status' = status /\ b \in Held
        /\ blk'[b].ptr = Null
        /\ \A c \in Blocks : c # b => blk'[c] = blk[c]
    BY DEF w_linear_alloc_free, NoBlock, SizesInv, FieldsTypeOK, Created
  <1>2. Seen(b)' = Abstract!NoBlock
    BY <1>1 DEF Seen, Held, Abstract!NoBlock
  <1>3. \A c \in Blocks : c # b => Seen(c)' = Seen(c)
    BY <1>1, SeenStable DEF Held
  <1>4. [c \in Blocks |-> BlockContents(c)]'
          = [[c \in Blocks |-> BlockContents(c)] EXCEPT ![b] = Abstract!NoBlock]
    BY <1>2, <1>3, OneSeen
  <1>5. [c \in Blocks |-> BlockContents(c)][b].held
    BY <1>1, HeldShown
  <1>. QED
    BY <1>1, <1>4, <1>5 DEF Abstract!Free

\* Other bytes of the same block.
LEMMA OtherBytes ==
    ASSUME NEW size, NEW bytes, NEW other
    PROVE  [Abstract!Block(size, bytes) EXCEPT !.bytes = other]
             = Abstract!Block(size, other)
  <1>1. PICK held : held = TRUE
    OBVIOUS
  <1>2. [[held |-> held, size |-> size, bytes |-> bytes] EXCEPT !.bytes = other]
          = [held |-> held, size |-> size, bytes |-> other]
    OBVIOUS
  <1>. QED
    BY <1>1, <1>2 DEF Abstract!Block

\* Filling a block.
LEMMA StepWrite ==
    ASSUME SizesInv, SeesKnown, SeesKnown', NEW b \in Blocks, ClientWrite(b)
    PROVE  Abstract!Write(b)
  <1>1. /\ Created /\ Created' /\ status' = status /\ b \in Held
        /\ blk'[b].ptr = blk[b].ptr /\ blk'[b].size = blk[b].size
        /\ blk'[b].init = blk[b].size
        /\ \A c \in Blocks : c # b => blk'[c] = blk[c]
    BY DEF ClientWrite, SizesInv, FieldsTypeOK, Created
  <1> DEFINE known == Known(b, blk[b].size)
             new   == [Seen(b) EXCEPT !.bytes = known]
  <1>2. Seen(b) = Abstract!Block(blk[b].size, Known(b, blk[b].init))
    BY <1>1 DEF Seen
  <1>3. Seen(b)' = Abstract!Block(blk[b].size, known)
    BY <1>1 DEF Seen, Held, Abstract!Block, Known, Datum
  <1>4. Seen(b)' = new
    BY <1>2, <1>3, OtherBytes
  <1>5. \A c \in Blocks : c # b => Seen(c)' = Seen(c)
    BY <1>1, SeenStable DEF Held
  <1> HIDE DEF new, known
  <1>6. [c \in Blocks |-> BlockContents(c)]'
          = [[c \in Blocks |-> BlockContents(c)] EXCEPT ![b] = new]
    BY <1>4, <1>5, OneSeen
  <1>7. /\ [c \in Blocks |-> BlockContents(c)][b] = Seen(b)
        /\ Seen(b).held = TRUE /\ Seen(b).size = blk[b].size
    BY <1>1, HeldShown
  <1>8. [c \in Blocks |-> BlockContents(c)]'
          = [[c \in Blocks |-> BlockContents(c)] EXCEPT ![b].bytes = known]
    BY <1>6, <1>7 DEF new
  <1>9. known = [i \in 1 .. blk[b].size |-> Datum(b, i - 1)]
    BY DEF known, Known
  <1>. QED
    BY <1>1, <1>7, <1>8, <1>9 DEF Abstract!Write

\* A block reallocated to no byte at all.
LEMMA StepToZero ==
    ASSUME SizesInv, SeesKnown, SeesKnown', NEW b \in Blocks,
           ReallocateToZero(b)
    PROVE  Abstract!Reallocate(b, 0)
  <1>1. /\ Created /\ Created' /\ status' = "W_SUCCESS" /\ b \in Held
        /\ blk'[b].ptr = blk[b].ptr /\ blk'[b].size = 0 /\ blk'[b].init = 0
        /\ blk[b].init \in Nat
        /\ \A c \in Blocks : c # b => blk'[c] = blk[c]
    BY DEF ReallocateToZero, SizesInv, FieldsTypeOK, Created
  <1>2. Seen(b)' = Abstract!Block(0, Known(b, 0))
    BY <1>1 DEF Seen, Held, Abstract!Block, Known, Datum
  <1>3. \A c \in Blocks : c # b => Seen(c)' = Seen(c)
    BY <1>1, SeenStable DEF Held
  <1>4. Abstract!Succeed(b, Abstract!Block(0, Known(b, 0)))
    BY <1>1, <1>2, <1>3, StepShown
  <1>5. /\ [c \in Blocks |-> BlockContents(c)][b].held
        /\ [c \in Blocks |-> BlockContents(c)][b].bytes = Known(b, blk[b].init)
    BY <1>1, HeldShown
  <1>6. /\ SubSeq(Known(b, blk[b].init), 1, 0) = Known(b, 0)
        /\ ~(Len(Known(b, blk[b].init)) < 0)
    BY <1>1, KnownPrefix, KnownLen
  <1>. QED
    BY <1>4, <1>5, <1>6 DEF Abstract!Reallocate

\* An allocation that returns.
LEMMA StepAllocate ==
    ASSUME SizesInv, RegionsInv, CallSized, SeesKnown, SeesKnown',
           AllocateReturn
    PROVE  \E b \in Blocks, size \in Sizes : Abstract!Allocate(b, size)
  <1>1. /\ Created /\ Created' /\ status' = "W_SUCCESS"
        /\ Consistent(call) /\ call.op = "allocate" /\ call \in Calls
        /\ call.used <= committed /\ call.size \in Sizes /\ blk' =
             [blk EXCEPT ![call.b] =
                [ptr |-> mem + NewOffset, off |-> NewOffset,
                 size |-> call.size, align |-> call.align, init |-> 0]]
    BY DEF AllocateReturn, Succeed, Created, SizesInv, FieldsTypeOK,
           CallConsistent, CallSized
  <1>2. /\ call.b \in Blocks /\ call.b \notin Held
        /\ call.size \in Nat /\ call.used \in Nat /\ call.size > 0
        /\ call.size <= call.used
    BY <1>1 DEF Consistent, Calls
  <1>3. mem + NewOffset # Null
    <2>1. committed > 0
      BY <1>1, <1>2, BlockType
    <2>2. mem \in Nat /\ mem > 0 /\ NewOffset \in Nat
      BY <1>1, <1>2, <2>1, BaseNotNull DEF NewOffset
    <2>. QED
      BY <2>2 DEF Null
  <1>5. PICK b \in Blocks : b = call.b /\ b \notin Held
    BY <1>2
  <1>12. PICK size \in Nat : size = call.size /\ size > 0
    BY <1>2
  <1>4. /\ blk'[b].ptr # Null /\ blk'[b].size = size /\ blk'[b].init = 0
        /\ \A c \in Blocks : c # b => blk'[c] = blk[c]
    BY <1>1, <1>3, <1>5, <1>12 DEF SizesInv, FieldsTypeOK
  <1>6. Seen(b)' = Abstract!Block(size, Known(b, 0))
    BY <1>1, <1>4, <1>5 DEF Seen, Held, Abstract!Block, Known, Datum
  <1>7. \A c \in Blocks : c # b => Seen(c)' = Seen(c)
    BY <1>1, <1>4, SeenStable DEF Held
  <1>8. Abstract!Succeed(b, Abstract!Block(size, Known(b, 0)))
    BY <1>1, <1>5, <1>6, <1>7, StepShown
  <1>9. Known(b, 0) = <<>>
    BY DEF Known
  <1>10. ~[c \in Blocks |-> BlockContents(c)][b].held
    BY <1>1, <1>5, HeldShown
  <1>11. Abstract!Allocate(b, size)
    BY <1>12, <1>8, <1>9, <1>10 DEF Abstract!Allocate
  <1>. QED
    BY <1>1, <1>11, <1>12

\* A reallocation that returns.
LEMMA StepReallocate ==
    ASSUME SizesInv, RegionsInv, CallSized, SeesKnown, SeesKnown',
           ReallocateReturn
    PROVE  \E b \in Blocks, size \in Sizes : Abstract!Reallocate(b, size)
  <1>1. /\ Created /\ Created' /\ status' = "W_SUCCESS"
        /\ Consistent(call) /\ call.op = "reallocate" /\ call \in Calls
        /\ call.used <= committed /\ call.size \in Sizes
        /\ blk' = [blk EXCEPT ![call.b] =
                     [ptr |-> mem + NewOffset, off |-> NewOffset,
                      size |-> call.size, align |-> call.align,
                      init |-> Smaller(blk[call.b].init, call.size)]]
    BY DEF ReallocateReturn, Succeed, Created, SizesInv, FieldsTypeOK,
           CallConsistent, CallSized
  <1>2. /\ call.b \in Blocks /\ call.b \in Held
        /\ call.size \in Nat /\ call.used \in Nat /\ call.size > 0
        /\ call.size <= call.used
    BY <1>1 DEF Consistent, Calls
  <1>3. mem + NewOffset # Null
    <2>1. committed > 0
      BY <1>1, <1>2, BlockType
    <2>2. mem \in Nat /\ mem > 0 /\ NewOffset \in Nat
      BY <1>1, <1>2, <2>1, BaseNotNull DEF NewOffset
    <2>. QED
      BY <2>2 DEF Null
  <1>12. PICK b \in Blocks : b = call.b /\ b \in Held
    BY <1>2
  <1>13. PICK n \in Nat : n = blk[b].init
    BY BlockType
  <1>5. PICK k \in 0 .. n : /\ k = Smaller(n, call.size)
                           /\ k = IF n < call.size THEN n ELSE call.size
    BY <1>2 DEF Smaller
  <1>14. PICK size \in Nat : size = call.size
    BY <1>2
  <1>4. /\ blk'[b].ptr # Null /\ blk'[b].size = size /\ blk'[b].init = k
        /\ \A c \in Blocks : c # b => blk'[c] = blk[c]
    BY <1>1, <1>3, <1>5, <1>12, <1>13, <1>14 DEF SizesInv, FieldsTypeOK
  <1>6. Seen(b)' = Abstract!Block(size, Known(b, k))
    BY <1>1, <1>4, <1>12 DEF Seen, Held, Abstract!Block, Known, Datum
  <1>7. \A c \in Blocks : c # b => Seen(c)' = Seen(c)
    BY <1>1, <1>4, SeenStable DEF Held
  <1>8. Abstract!Succeed(b, Abstract!Block(size, Known(b, k)))
    BY <1>1, <1>6, <1>7, StepShown
  <1>9. /\ [c \in Blocks |-> BlockContents(c)][b].held
        /\ [c \in Blocks |-> BlockContents(c)][b].bytes = Known(b, n)
    BY <1>1, <1>12, <1>13, HeldShown
  <1>10. /\ SubSeq(Known(b, n), 1, k) = Known(b, k)
         /\ Len(Known(b, n)) = n
    BY <1>5, KnownPrefix, KnownLen
  <1>11. Abstract!Reallocate(b, size)
    BY <1>5, <1>8, <1>9, <1>10, <1>14 DEF Abstract!Reallocate
  <1>. QED
    BY <1>1, <1>11, <1>14

\* Every step of the allocator is one of the arena, or is invisible in it.
LEMMA StepRefines ==
    ASSUME SizesInv, PlacementInv, RegionsInv, CallSized, SeesKnown,
           SeesKnown', [Next]_vars
    PROVE  [Abstract!Next]_Abstract!arenaVars
  <1> DEFINE Goal == [Abstract!Next]_Abstract!arenaVars
  <1>1. CASE /\ Created' <=> Created
             /\ blk' = blk
             /\ status' = status \/ status' = "W_ERROR_ALLOC_FAILED"
    <2>1. \A c \in Blocks : Seen(c)' = Seen(c)
      BY <1>1, SeenStable DEF Held
    <2>. QED
      BY <1>1, <2>1, StepHidden
  <1>2. CASE Created /\ ~Created' /\ status' = status
    <2>1. \A c \in Blocks : Seen(c)' = Abstract!NoBlock
      BY <1>2 DEF Seen, Abstract!NoBlock
    <2>2. [c \in Blocks |-> BlockContents(c)]'
            = [c \in Blocks |-> Abstract!NoBlock]
      BY <2>1 DEF SeesKnown
    <2>. QED
      BY <1>2, <2>2 DEF Abstract!Next, Abstract!Destroy
  <1>3. CASE UNCHANGED vars
    <2>1. blk' = blk /\ status' = status /\ pc' = pc
      BY <1>3 DEF vars
    <2>. QED
      BY <2>1, <1>1 DEF Created
  <1>4. ASSUME NEW size \in InitialSizes, w_linear_alloc_create(size)
        PROVE  Goal
    <2>1. CASE pc' = "absent"
      <3>1. /\ Created' <=> Created
            /\ blk' = blk /\ status' = "W_ERROR_ALLOC_FAILED"
        BY <1>4, <2>1 DEF w_linear_alloc_create, Created
      <3>. QED
        BY <3>1, <1>1
    <2>2. CASE pc' = "idle"
      <3>1. /\ ~Created /\ Created' /\ status' = "W_SUCCESS"
            /\ Held = {} /\ Held' = {}
        BY <1>4, <2>2 DEF w_linear_alloc_create, Created, PlacementInv, Held
      <3>2. \A c \in Blocks : Seen(c)' = Seen(c)
        BY <3>1 DEF Seen, Abstract!NoBlock
      <3>3. [c \in Blocks |-> BlockContents(c)]'
              = [c \in Blocks |-> BlockContents(c)]
        BY <3>2, NoneSeen
      <3>. QED
        BY <3>1, <3>3 DEF Abstract!Next, Abstract!Create
    <2>. QED
      BY <1>4, <2>1, <2>2 DEF w_linear_alloc_create
  <1>5. CASE w_linear_alloc_destroy \/ ReallocateFault
    <2>1. Created /\ ~Created' /\ status' = status
      BY <1>5 DEF w_linear_alloc_destroy, ReallocateFault, Created
    <2>. QED
      BY <2>1, <1>2
  <1>6. ASSUME NEW b \in Blocks, NEW size \in Sizes,
               NEW alignment \in Alignments,
               w_linear_alloc_allocate(b, size, alignment)
        PROVE  Goal
    <2>1. CASE size = 0
      <3>1. /\ Created /\ Created' /\ blk' = blk /\ status' = "W_SUCCESS"
            /\ b \notin Held
        BY <1>6, <2>1 DEF w_linear_alloc_allocate, Created, Held
      <3>2. \A c \in Blocks : Seen(c)' = Seen(c)
        BY <3>1, SeenStable DEF Held
      <3>3. Seen(b) = Abstract!NoBlock
        BY <3>1 DEF Seen
      <3>4. Abstract!Succeed(b, Abstract!NoBlock)
        BY <3>1, <3>2, <3>3, StepShown
      <3>5. ~[c \in Blocks |-> BlockContents(c)][b].held
        BY <3>1, HeldShown
      <3>6. Abstract!Allocate(b, size)
        BY <2>1, <3>4, <3>5 DEF Abstract!Allocate
      <3>. QED
        BY <3>6 DEF Abstract!Next
    <2>2. CASE size # 0
      <3>1. /\ Created' <=> Created
            /\ blk' = blk /\ status' = status
        BY <1>6, <2>2 DEF w_linear_alloc_allocate, Enter, Created
      <3>. QED
        BY <3>1, <1>1
    <2>. QED
      BY <2>1, <2>2
  <1>7. ASSUME NEW b \in Blocks, NEW size \in Sizes,
               w_linear_alloc_reallocate(b, size)
        PROVE  Goal
    <2>1. Created /\ blk' = blk /\ status' = status
      BY <1>7 DEF w_linear_alloc_reallocate, Created
    <2>. QED
      BY <2>1, <1>1, <1>2
  <1>8. CASE \/ Reserve \/ CommitBuffer \/ UndoReserve \/ MoveContents
             \/ ReleaseOld \/ CommitMore
    <2>1. /\ Created' <=> Created
          /\ blk' = blk
          /\ status' = status \/ status' = "W_ERROR_ALLOC_FAILED"
      BY <1>8 DEF Reserve, CommitBuffer, UndoReserve, MoveContents, ReleaseOld,
                  CommitMore, Fail, Created
    <2>. QED
      BY <2>1, <1>1
  <1>9. ASSUME NEW b \in Blocks, ClientRefresh(b)
        PROVE  Goal
    <2>1. /\ Created /\ Created' /\ status' = status /\ b \in Held
          /\ blk' = [blk EXCEPT ![b].ptr = mem + blk[b].off]
      BY <1>9 DEF ClientRefresh, Created
    <2>2. mem + blk[b].off # Null
      <3>1. blk[b].off + Extent(b) <= used
        BY <2>1 DEF PlacementInv, BlocksWithinUsed
      <3>2. committed > 0
        BY <2>1, <3>1, BlockType DEF Extent, Larger, SizesInv, SizesNested
      <3>. QED
        BY <2>1, <3>2, BaseNotNull, BlockType DEF Null
    <2>3. \A c \in Blocks : /\ c \in Held' <=> c \in Held
                            /\ blk'[c].size = blk[c].size
                            /\ blk'[c].init = blk[c].init
      BY <2>1, <2>2 DEF Held, SizesInv, FieldsTypeOK
    <2>4. \A c \in Blocks : Seen(c)' = Seen(c)
      BY <2>1, <2>3, SeenStable
    <2>. QED
      BY <2>1, <2>4, StepHidden
  <1>10. ASSUME NEW b \in Blocks,
                w_linear_alloc_free(b) \/ ReallocateToZero(b) \/ ClientWrite(b)
         PROVE  Goal
    <2>1. Abstract!Free(b) \/ Abstract!Reallocate(b, 0) \/ Abstract!Write(b)
      BY <1>10, StepFree, StepToZero, StepWrite
    <2>. QED
      BY <2>1 DEF Abstract!Next
  <1>11. CASE AllocateReturn
    BY <1>11, StepAllocate DEF Abstract!Next
  <1>12. CASE ReallocateReturn
    BY <1>12, StepReallocate DEF Abstract!Next
  <1>. QED
    BY <1>3, <1>4, <1>5, <1>6, <1>7, <1>8, <1>9, <1>10, <1>11, <1>12 DEF Next

\* There is no block before the allocator is created.
LEMMA InitRefines == Init => Abstract!Init
  BY DEF Init, Abstract!Init, Created, BlockContents, Abstract!NoBlock

\* The allocator implements the abstract arena: its moves, failures and undo
\* steps are invisible, and every call takes effect at once (mem.c:55-425).
THEOREM Implements == Spec => ImplementsArena
  <1>1. SizesInv /\ DataInv => SeesKnown
    BY DataIsKnown
  <1>2. SizesInv /\ PlacementInv /\ RegionsInv /\ CallSized /\ SeesKnown
          /\ SeesKnown' /\ [Next]_vars
          => [Abstract!Next]_Abstract!arenaVars
    BY StepRefines
  <1>. QED
    BY <1>1, <1>2, InitRefines, SizesAlways, PlacementAlways, RegionsAlways,
       CallSizedAlways, DataAlways, PTL
       DEF Spec, ImplementsArena, Abstract!Spec

-----------------------------------------------------------------------------
(* The traced allocator.  Its steps are those of LinearAlloc, or end the   *)
(* program; so what was proved of LinearAlloc holds of it until it ends.   *)

Stopped == pc \in {"abort", "fault"}

\* No tracing changes what the allocator does, but for where it stops.
LEMMA TracedStep ==
    ASSUME [TracedNext]_tracedVars
    PROVE  [Next]_vars \/ Stopped'
<1>1. \A label : StopAt(label) /\ label \in {"abort", "fault"} => Stopped'
  BY DEF StopAt, Stopped
<1>2. CASE UNCHANGED tracedVars
  BY <1>2 DEF tracedVars
<1>3. CASE \E size \in InitialSizes : TracedCreate(size)
  BY <1>3 DEF TracedCreate, Next
<1>4. CASE TracedDestroy
  BY <1>1, <1>4 DEF TracedDestroy, DestroyRefused, StopForRegion, Next
<1>5. CASE \E b \in Blocks, size \in Sizes, alignment \in Alignments :
             TracedAllocate(b, size, alignment)
  BY <1>5 DEF TracedAllocate, Next
<1>6. CASE \E b \in Blocks :
             TracedFree(b) \/ FreeNull(b) \/ TracedReallocateToZero(b)
  BY <1>1, <1>6 DEF TracedFree, FreeNull, TracedReallocateToZero, Next
<1>7. CASE \E b \in Blocks, size \in Sizes : TracedReallocate(b, size)
  BY <1>1, <1>7 DEF TracedReallocate, Next
<1>8. CASE TracedReserve \/ TracedUndoReserve
  BY <1>8 DEF TracedReserve, TracedUndoReserve, Next
<1>9. CASE TracedCommitBuffer \/ TracedCommitMore
  BY <1>1, <1>9 DEF TracedCommitBuffer, TracedCommitMore, CommitRefused,
                    StopForRegion, Next
<1>10. CASE TracedReleaseOld
  BY <1>1, <1>10 DEF TracedReleaseOld, DestroyRefused, StopForRegion, Next
<1>11. CASE TracedAllocateReturn \/ TracedReallocateReturn
  BY <1>1, <1>11 DEF TracedAllocateReturn, TracedReallocateReturn, Next
<1>12. CASE \/ MoveContents
            \/ ReallocateFault
            \/ \E b \in Blocks : ClientWrite(b) \/ ClientRefresh(b)
  BY <1>12 DEF Next
<1> QED
  BY <1>2, <1>3, <1>4, <1>5, <1>6, <1>7, <1>8, <1>9, <1>10, <1>11, <1>12
     DEF TracedNext

\* A program that ended takes no step.
LEMMA NoStepStopped ==
    ASSUME Stopped, [TracedNext]_tracedVars
    PROVE  UNCHANGED tracedVars
<1>1. pc \notin {"absent", "idle", "reserve", "commit_buffer", "undo", "move",
                 "release", "commit", "return"}
  BY DEF Stopped
<1>2. /\ \A size : ~TracedCreate(size)
      /\ ~TracedDestroy
      /\ \A b, size, alignment : ~TracedAllocate(b, size, alignment)
  BY <1>1 DEF TracedCreate, w_linear_alloc_create, TracedDestroy,
              w_linear_alloc_destroy, TracedAllocate, w_linear_alloc_allocate
<1>3. /\ \A b : ~TracedFree(b) /\ ~FreeNull(b) /\ ~TracedReallocateToZero(b)
      /\ \A b, size : ~TracedReallocate(b, size)
  BY <1>1 DEF TracedFree, w_linear_alloc_free, FreeNull,
              TracedReallocateToZero, TracedReallocate, w_linear_alloc_reallocate
<1>4. ~TracedReserve /\ ~TracedCommitBuffer /\ ~TracedUndoReserve
      /\ ~TracedReleaseOld /\ ~TracedCommitMore
  BY <1>1 DEF TracedReserve, Reserve, TracedCommitBuffer, TracedUndoReserve,
              UndoReserve, TracedReleaseOld, ReleaseOld, TracedCommitMore
<1>5. ~TracedAllocateReturn /\ ~TracedReallocateReturn /\ ~MoveContents
      /\ ~ReallocateFault /\ \A b : ~ClientWrite(b) /\ ~ClientRefresh(b)
  BY <1>1 DEF TracedAllocateReturn, TracedReallocateReturn, ReallocateReturn,
              MoveContents, ReallocateFault, ClientWrite, ClientRefresh
<1> QED
  BY <1>2, <1>3, <1>4, <1>5 DEF TracedNext

\* What is known of the allocator, until the program ends.
AllocInv == Stopped \/ (SizesInv /\ PlacementInv /\ RegionsInv)

LEMMA AllocInvAlways == TracedSpec => []AllocInv
<1>1. TracedInit => AllocInv
  BY SizesInit, PlacementInit, RegionsInit DEF TracedInit, AllocInv
<1>2. ASSUME AllocInv, [TracedNext]_tracedVars PROVE AllocInv'
  <2>1. CASE Stopped
    BY <1>2, <2>1, NoStepStopped DEF tracedVars, vars, AllocInv, Stopped
  <2>2. CASE ~Stopped
    BY <1>2, <2>2, TracedStep, SizesNext, PlacementNext, RegionsNext DEF AllocInv
  <2> QED
    BY <2>1, <2>2
<1> QED
  BY <1>1, <1>2, PTL DEF TracedSpec

-----------------------------------------------------------------------------
(* The regions traced.  The allocator moves once in its life: the region   *)
(* it moves to stays traced under the address of the local variable, none  *)
(* is under its own, and the next commit or release ends the program.      *)

Regions ==
    [1 .. VmemCapacity ->
       [valid : BOOLEAN, key : Locals \union {AllocMem, 0}, data : Nat]]

\* The entries in use: the first one for what is reserved when none is, and
\* the second one for what is reserved then.
RegionsInUse ==
    IF buf # Null THEN {1, 2} ELSE IF moved THEN {2} ELSE {1}

RegionsTraced ==
    /\ regions \in Regions
    /\ moved \in BOOLEAN
    /\ pc = "absent" => ~moved /\ Entries(regions) = {}
    /\ Created =>
         /\ Entries(regions) = RegionsInUse
         /\ ~moved => regions[1].key = AllocMem /\ regions[1].data = reserved
         /\ moved => regions[2].key \in Locals
         /\ buf # Null =>
              LET new == IF moved THEN 1 ELSE 2
              IN  /\ local \in Locals
                  /\ regions[new].key = local
                  /\ regions[new].data = NewReserved

\* Where the next region is traced.
LEMMA VacantRegion ==
    ASSUME regions \in Regions
    PROVE  /\ Entries(regions) = {} => Vacant(regions) = {1}
           /\ Entries(regions) = {1} => Vacant(regions) = {2}
           /\ Entries(regions) = {2} => Vacant(regions) = {1}
<1> DEFINE S == {i \in DOMAIN regions : ~regions[i].valid}
<1>1. VmemCapacity \in Nat /\ VmemCapacity >= 2
  BY TracedAllocAssumption
<1>2. S = (1 .. VmemCapacity) \ Entries(regions)
  BY DEF Regions, Entries
<1>3. Vacant(regions) = {i \in S : \A j \in S : i <= j}
  BY DEF Vacant, First
<1> HIDE DEF S
<1>4. CASE Entries(regions) \in {{}, {2}}
  <2>1. 1 \in S /\ \A j \in S : j \in Nat /\ 1 <= j
    BY <1>1, <1>2, <1>4
  <2> QED
    BY <1>3, <1>4, <2>1
<1>5. CASE Entries(regions) = {1}
  <2>1. 2 \in S /\ \A j \in S : j \in Nat /\ 2 <= j
    BY <1>1, <1>2, <1>5
  <2> QED
    BY <1>3, <1>5, <2>1
<1> QED
  BY <1>4, <1>5

\* What a new entry leaves alone.
LEMMA InsertedRegion ==
    ASSUME regions \in Regions, NEW i \in 1 .. VmemCapacity,
           NEW key \in Locals \union {AllocMem}, NEW size \in Nat,
           regions' = Inserted(regions, i, key, size)
    PROVE  /\ regions' \in Regions
           /\ Entries(regions)' = Entries(regions) \union {i}
           /\ regions'[i].key = key /\ regions'[i].data = size
           /\ \A j \in 1 .. VmemCapacity : j # i => regions'[j] = regions[j]
BY DEF Regions, Inserted, Entries

LEMMA RemovedRegion ==
    ASSUME regions \in Regions, NEW i \in 1 .. VmemCapacity,
           regions' = Removed(regions, i)
    PROVE  /\ regions' \in Regions
           /\ Entries(regions)' = Entries(regions) \ {i}
           /\ \A j \in 1 .. VmemCapacity : j # i => regions'[j] = regions[j]
BY DEF Regions, Removed, Entries

\* What is found under an address that one entry has for key, or the first of
\* two.
LEMMA FoundRegion ==
    ASSUME RegionsTraced, Created
    PROVE  /\ 1 \in 1 .. VmemCapacity /\ 2 \in 1 .. VmemCapacity
           /\ ~moved => /\ Found(regions, AllocMem) = {1}
                        /\ regions[1].data = reserved
           /\ moved => Found(regions, AllocMem) = {}
           /\ buf # Null => \E i \in {1, 2} :
                 /\ i = (IF moved THEN 1 ELSE 2)
                 /\ Found(regions, local) = {i}
                 /\ regions[i].data = NewReserved
<1>1. /\ VmemCapacity \in Nat /\ VmemCapacity >= 2 /\ AllocMem \notin Locals
      /\ DOMAIN regions = 1 .. VmemCapacity
  BY TracedAllocAssumption DEF RegionsTraced, Regions
<1>2. \A key : Found(regions, key)
                 = {i \in Entries(regions) :
                      /\ regions[i].key = key
                      /\ \A j \in Entries(regions) :
                           regions[j].key = key => i <= j}
  BY DEF Found, First, Matching, Entries
<1>3. CASE ~moved
  <2>1. CASE buf = Null
    BY <1>1, <1>2, <1>3, <2>1 DEF RegionsTraced, RegionsInUse
  <2>2. CASE buf # Null
    <3>1. /\ Entries(regions) = {1, 2} /\ regions[1].key = AllocMem
          /\ regions[2].key = local /\ local # AllocMem
          /\ regions[1].data = reserved /\ regions[2].data = NewReserved
      BY <1>1, <1>3, <2>2 DEF RegionsTraced, RegionsInUse
    <3>2. Found(regions, AllocMem) = {1} /\ Found(regions, local) = {2}
      BY <1>2, <3>1
    <3> QED
      BY <1>1, <1>3, <3>1, <3>2
  <2> QED
    BY <2>1, <2>2
<1>4. CASE moved
  <2>1. CASE buf = Null
    BY <1>1, <1>2, <1>4, <2>1 DEF RegionsTraced, RegionsInUse
  <2>2. CASE buf # Null
    <3>1. /\ Entries(regions) = {1, 2} /\ regions[2].key # AllocMem
          /\ regions[1].key = local /\ local # AllocMem
          /\ regions[1].data = NewReserved
      BY <1>1, <1>4, <2>2 DEF RegionsTraced, RegionsInUse
    <3>2. Found(regions, AllocMem) = {} /\ Found(regions, local) = {1}
      BY <1>2, <3>1
    <3> QED
      BY <1>1, <1>4, <3>1, <3>2
  <2> QED
    BY <2>1, <2>2
<1> QED
  BY <1>3, <1>4 DEF RegionsTraced

\* The steps that trace no region.
LEMMA RegionsTracedStable ==
    ASSUME RegionsTraced, Created, pc' # "absent",
           UNCHANGED <<regions, local, moved, reserved, buf>>,
           buf = Null \/ UNCHANGED call
    PROVE  RegionsTraced'
<1>1. buf # Null => NewReserved' = NewReserved
  BY SizesStable
<1> QED
  BY <1>1 DEF RegionsTraced, RegionsInUse, Entries

\* RegionsTraced is inductive.
LEMMA RegionsTracedNext ==
    ASSUME AllocInv, AllocInv', RegionsTraced, [TracedNext]_tracedVars
    PROVE  RegionsTraced'
<1> USE DEF allocVars, vmemVars, traceVars
<1>1. CASE UNCHANGED tracedVars
  <2>1. NewReserved' = NewReserved
    BY <1>1, SizesStable DEF tracedVars, vars
  <2> QED
    BY <1>1, <2>1 DEF tracedVars, vars, RegionsTraced, RegionsInUse, Entries, Created
<1>2. CASE Stopped' /\ UNCHANGED <<regions, moved>>
  BY <1>2 DEF Stopped, RegionsTraced, Created
<1> SUFFICES ASSUME ~Stopped, TracedNext
             PROVE  RegionsTraced'
  BY <1>1, NoStepStopped
<1>3. /\ SizesInv /\ reserved \in Nat /\ NewReserved \in Nat
      /\ buf # Null <=> pc \in {"commit_buffer", "undo", "move", "release"}
      /\ Created <=> pc # "absent"
      /\ ~Stopped' => SizesInv' /\ reserved' \in Nat
  <2>1. SizesInv /\ (~Stopped' => SizesInv')
    BY DEF AllocInv
  <2>2. reserved \in Nat /\ call.used \in Nat
    BY <2>1 DEF SizesInv, FieldsTypeOK, Calls
  <2>3. NewReserved \in Nat
    BY <2>2, GrowBounds DEF NewReserved
  <2> QED
    BY <2>1, <2>2, <2>3 DEF SizesInv, FieldsTypeOK, CallConsistent, Created, Stopped
<1>4. ASSUME NEW size \in InitialSizes, TracedCreate(size)
      PROVE  RegionsTraced'
  <2>1. /\ pc = "absent" /\ ~moved /\ Entries(regions) = {} /\ regions \in Regions
        /\ UNCHANGED <<buf, moved>> /\ buf = Null
    BY <1>3, <1>4 DEF TracedCreate, w_linear_alloc_create, RegionsTraced
  <2>2. CASE pc' = "absent" /\ UNCHANGED regions
    BY <2>1, <2>2 DEF RegionsTraced, Created, Entries
  <2>3. CASE pc' = "idle" /\ TraceRegion(AllocMem, reserved')
    <3>1. reserved' \in Nat
      BY <1>3, <2>3 DEF Stopped
    <3>2. PICK size1 : size1 = reserved'
      OBVIOUS
    <3>3. regions' = Inserted(regions, 1, AllocMem, size1) /\ 1 \in 1 .. VmemCapacity
      BY <2>1, <2>3, <3>2, VacantRegion, TracedAllocAssumption DEF TraceRegion
    <3>4. /\ regions' \in Regions /\ Entries(regions)' = {1}
          /\ regions'[1].key = AllocMem /\ regions'[1].data = size1
      BY <2>1, <3>1, <3>2, <3>3, InsertedRegion
    <3> QED
      BY <2>1, <2>3, <3>2, <3>4 DEF RegionsTraced, RegionsInUse, Created
  <2> QED
    BY <1>4, <2>2, <2>3 DEF TracedCreate
<1>5. CASE TracedDestroy
  <2>1. CASE DestroyRefused(AllocMem, reserved)
    BY <1>2, <2>1 DEF DestroyRefused, StopForRegion, StopAt, Stopped
  <2>2. CASE /\ w_linear_alloc_destroy
             /\ DestroyChecked(AllocMem, reserved)
             /\ moved' = FALSE
    <3>1. pc = "idle" /\ pc' = "absent" /\ buf = Null /\ Created
      BY <1>3, <2>2 DEF w_linear_alloc_destroy
    <3>2. PICK i \in Found(regions, AllocMem) : regions' = Removed(regions, i)
      BY <2>2 DEF DestroyChecked
    <3>3. ~moved /\ i = 1 /\ 1 \in 1 .. VmemCapacity
      BY <3>1, <3>2, FoundRegion DEF RegionsTraced
    <3>4. regions' \in Regions /\ Entries(regions)' = Entries(regions) \ {1}
      BY <3>2, <3>3, RemovedRegion DEF RegionsTraced
    <3>5. Entries(regions)' = {}
      BY <3>1, <3>3, <3>4 DEF RegionsTraced, RegionsInUse
    <3> QED
      BY <2>2, <3>1, <3>4, <3>5 DEF RegionsTraced, Created
  <2> QED
    BY <1>5, <2>1, <2>2 DEF TracedDestroy
<1>6. CASE TracedReserve
  <2>1. CASE pc' = "idle" /\ UNCHANGED <<regions, local>>
    BY <1>3, <1>6, <2>1, RegionsTracedStable
       DEF TracedReserve, Reserve, Fail, Stopped, SizesInv, CallConsistent
  <2>2. CASE /\ pc' = "commit_buffer" /\ local' \in Locals
             /\ TraceRegion(local', NewReserved)
    <3>1. /\ pc = "reserve" /\ buf = Null /\ buf' # Null /\ Created
          /\ UNCHANGED <<moved, reserved>>
      BY <1>3, <1>6, <2>2
         DEF TracedReserve, Reserve, Stopped, SizesInv, CallConsistent
    <3>2. UNCHANGED <<reserved, call>>
      BY <1>6, <2>2 DEF TracedReserve, Reserve, Fail
    <3>3. NewReserved' = NewReserved
      BY <3>2, SizesStable
    <3>4. PICK key : key = local'
      OBVIOUS
    <3>5. PICK i \in Vacant(regions) :
             regions' = Inserted(regions, i, key, NewReserved)
      BY <2>2, <3>4 DEF TraceRegion
    <3>6. /\ i = (IF moved THEN 1 ELSE 2) /\ i \in 1 .. VmemCapacity
          /\ 1 \in 1 .. VmemCapacity /\ 2 \in 1 .. VmemCapacity
          /\ Entries(regions) = IF moved THEN {2} ELSE {1}
      BY <3>1, <3>5, VacantRegion, FoundRegion DEF RegionsTraced, RegionsInUse
    <3>7. /\ regions' \in Regions
          /\ Entries(regions)' = Entries(regions) \union {i}
          /\ regions'[i].key = key /\ regions'[i].data = NewReserved
          /\ \A j \in 1 .. VmemCapacity : j # i => regions'[j] = regions[j]
      BY <1>3, <2>2, <3>4, <3>5, <3>6, InsertedRegion DEF RegionsTraced
    <3>8. Entries(regions)' = {1, 2}
      BY <3>6, <3>7
    <3> QED
      BY <2>2, <3>1, <3>3, <3>4, <3>6, <3>7, <3>8
         DEF RegionsTraced, RegionsInUse, Created
  <2> QED
    BY <1>6, <2>1, <2>2 DEF TracedReserve
<1>7. CASE TracedUndoReserve
  <2>1. /\ pc = "undo" /\ pc' = "idle" /\ buf # Null /\ buf' = Null /\ Created
        /\ UNCHANGED <<moved, reserved>>
    BY <1>3, <1>7 DEF TracedUndoReserve, UndoReserve, Fail
  <2>2. PICK i \in Found(regions, local) : regions' = Removed(regions, i)
    BY <1>7 DEF TracedUndoReserve, DestroyChecked
  <2>3. /\ i = (IF moved THEN 1 ELSE 2) /\ i \in 1 .. VmemCapacity
        /\ 1 \in 1 .. VmemCapacity /\ 2 \in 1 .. VmemCapacity
    BY <2>1, <2>2, FoundRegion
  <2>4. /\ regions' \in Regions /\ Entries(regions)' = {1, 2} \ {i}
        /\ \A j \in 1 .. VmemCapacity : j # i => regions'[j] = regions[j]
    BY <2>1, <2>2, <2>3, RemovedRegion DEF RegionsTraced, RegionsInUse
  <2>5. Entries(regions)' = IF moved THEN {2} ELSE {1}
    BY <2>3, <2>4
  <2> QED
    BY <2>1, <2>3, <2>4, <2>5 DEF RegionsTraced, RegionsInUse, Created
<1>8. CASE TracedReleaseOld
  <2>1. CASE DestroyRefused(AllocMem, reserved)
    BY <1>2, <2>1 DEF DestroyRefused, StopForRegion, StopAt, Stopped
  <2>2. CASE ReleaseOld /\ DestroyChecked(AllocMem, reserved) /\ moved' = TRUE
    <3>1. pc = "release" /\ pc' = "return" /\ buf # Null /\ buf' = Null /\ Created
      BY <1>3, <2>2 DEF ReleaseOld
    <3>2. PICK i \in Found(regions, AllocMem) : regions' = Removed(regions, i)
      BY <2>2 DEF DestroyChecked
    <3>3. ~moved /\ i = 1 /\ 1 \in 1 .. VmemCapacity /\ 2 \in 1 .. VmemCapacity
      BY <3>1, <3>2, FoundRegion DEF RegionsTraced
    <3>4. /\ regions' \in Regions /\ Entries(regions)' = Entries(regions) \ {1}
          /\ regions'[2] = regions[2]
      BY <3>2, <3>3, RemovedRegion DEF RegionsTraced
    <3>5. Entries(regions)' = {2} /\ regions[2].key \in Locals
      BY <3>1, <3>3, <3>4 DEF RegionsTraced, RegionsInUse
    <3> QED
      BY <2>2, <3>1, <3>4, <3>5 DEF RegionsTraced, RegionsInUse, Created
  <2> QED
    BY <1>8, <2>1, <2>2 DEF TracedReleaseOld
<1>9. CASE /\ UNCHANGED <<regions, local, moved, reserved, buf>>
           /\ pc # "absent" /\ pc' # "absent"
           /\ pc \in {"commit_buffer", "undo", "move", "release"} => UNCHANGED call
  BY <1>3, <1>9, RegionsTracedStable
<1>10. ASSUME NEW b \in Blocks, NEW size \in Sizes, NEW alignment \in Alignments,
              TracedAllocate(b, size, alignment)
       PROVE  RegionsTraced'
  BY <1>9, <1>10 DEF TracedAllocate, w_linear_alloc_allocate, Enter
<1>11. ASSUME NEW b \in Blocks,
              TracedFree(b) \/ FreeNull(b) \/ TracedReallocateToZero(b)
       PROVE  RegionsTraced'
  BY <1>9, <1>11 DEF TracedFree, w_linear_alloc_free, FreeNull,
     TracedReallocateToZero, StopAt
<1>12. ASSUME NEW b \in Blocks, NEW size \in Sizes, TracedReallocate(b, size)
       PROVE  RegionsTraced'
  BY <1>9, <1>12 DEF TracedReallocate, w_linear_alloc_reallocate, Enter, StopAt
<1>13. CASE TracedCommitBuffer \/ TracedCommitMore
  BY <1>9, <1>13 DEF TracedCommitBuffer, CommitBuffer, TracedCommitMore,
     CommitMore, CommitRefused, StopForRegion, StopAt, Fail
<1>14. CASE TracedAllocateReturn \/ TracedReallocateReturn
  BY <1>9, <1>14 DEF TracedAllocateReturn, AllocateReturn,
     TracedReallocateReturn, ReallocateReturn, Succeed, StopAt
<1>15. CASE /\ \/ MoveContents
               \/ ReallocateFault
               \/ \E b \in Blocks : ClientWrite(b) \/ ClientRefresh(b)
            /\ UNCHANGED traceVars
  BY <1>9, <1>15 DEF MoveContents, ReallocateFault, ClientWrite, ClientRefresh
<1> QED
  BY <1>4, <1>5, <1>6, <1>7, <1>8, <1>10, <1>11, <1>12, <1>13, <1>14, <1>15
     DEF TracedNext

LEMMA RegionsTracedAlways == TracedSpec => []RegionsTraced
<1>1. TracedInit => RegionsTraced
  <2> SUFFICES ASSUME TracedInit PROVE RegionsTraced
    OBVIOUS
  <2>1. /\ regions = [i \in 1 .. VmemCapacity |-> Zeroed]
        /\ pc = "absent" /\ moved = FALSE
    BY DEF TracedInit, Init, EmptyPool
  <2>2. regions \in Regions
    BY <2>1 DEF Regions, Zeroed
  <2>3. Entries(regions) = {}
    BY <2>1 DEF Entries, Zeroed
  <2> QED
    BY <2>1, <2>2, <2>3 DEF RegionsTraced, Created
<1>2. AllocInv /\ AllocInv' /\ RegionsTraced /\ [TracedNext]_tracedVars
      => RegionsTraced'
  BY RegionsTracedNext
<1> QED
  BY <1>1, <1>2, AllocInvAlways, PTL DEF TracedSpec

-----------------------------------------------------------------------------
(* The blocks traced.  own tells which entry is that of a block: it can    *)
(* not be computed from the state, for after a move an entry keeps an      *)
(* address that the block it stands for no longer has.                     *)

Ptrs ==
    [1 .. PtrCapacity ->
       [valid : BOOLEAN, key : Nat, data : {0} \union [size : Nat, align : Nat]]]

Place(b) == mem + blk[b].off

Owners == [Held -> 1 .. PtrCapacity]

\* The entries in use are those of the blocks.  Each has the address of its
\* block or one out of the region that the allocator moved to.
PtrsTraced(own) ==
    LET key(b) == ptrs[own[b]].key
    IN  /\ \A b \in Held : ptrs[own[b]].valid
        /\ \A i \in Entries(ptrs) : \E b \in Held : i = own[b]
        /\ \A b, c \in Held : key(b) = key(c) => b = c
        /\ \A b \in Held : key(b) = Place(b) \/ key(b) \notin Live
        /\ \A b \in Held : blk[b].ptr = Place(b) \/ blk[b].ptr = key(b)
        /\ \A b \in Held \ resized :
             ptrs[own[b]].data = Label(blk[b].size, blk[b].align)
        /\ ~moved => \A b \in Held : key(b) = Place(b) /\ blk[b].ptr = key(b)

PtrsInv ==
    /\ ptrs \in Ptrs
    /\ Created => \E own \in Owners : PtrsTraced(own)
    /\ Created /\ pc # "idle" /\ call.op = "reallocate" =>
         Matching(ptrs, blk[call.b].ptr) # {}

\* The blocks are at places of their own in the region.
HeldApart ==
    /\ mem \in Nat /\ reserved \in Nat /\ used <= reserved
    /\ \A b \in Held : /\ blk[b].off \in Nat /\ blk[b].size \in Nat
                       /\ blk[b].align \in Nat /\ blk[b].ptr \in Nat
                       /\ Place(b) \in Live /\ Place(b) \in Nat
    /\ \A b, c \in Held : Place(b) = Place(c) => b = c

LEMMA HeldPlaces == SizesInv /\ PlacementInv /\ Created => HeldApart
<1> SUFFICES ASSUME SizesInv, PlacementInv, Created PROVE HeldApart
  OBVIOUS
<1>1. /\ mem \in Nat /\ reserved \in Nat /\ used \in Nat /\ committed \in Nat
      /\ used <= reserved
  BY DEF SizesInv, FieldsTypeOK, SizesNested
<1>2. ASSUME NEW b \in Held
      PROVE  /\ blk[b].off \in Nat /\ blk[b].size \in Nat
             /\ blk[b].align \in Nat /\ blk[b].ptr \in Nat
             /\ Extent(b) \in Nat /\ Extent(b) >= 1
             /\ Place(b) \in Live /\ Place(b) \in Nat
  <2>1. /\ blk[b].off \in Nat /\ blk[b].size \in Nat
        /\ blk[b].align \in Nat /\ blk[b].ptr \in Nat
    BY <1>2 DEF SizesInv, FieldsTypeOK, Held
  <2>2. Extent(b) \in Nat /\ Extent(b) >= 1
    BY <2>1 DEF Extent, Larger
  <2>3. blk[b].off + Extent(b) <= used
    BY <1>2 DEF PlacementInv, BlocksWithinUsed
  <2> QED
    BY <1>1, <2>1, <2>2, <2>3 DEF Place, Live, Span
<1>3. ASSUME NEW b \in Held, NEW c \in Held, Place(b) = Place(c) PROVE b = c
  <2>1. \/ b = c
        \/ blk[b].off + Extent(b) <= blk[c].off
        \/ blk[c].off + Extent(c) <= blk[b].off
    BY DEF PlacementInv, BlocksDisjoint
  <2>2. blk[b].off = blk[c].off
    BY <1>1, <1>2, <1>3 DEF Place
  <2> QED
    BY <1>2, <2>1, <2>2
<1> QED
  BY <1>1, <1>2, <1>3 DEF HeldApart

LEMMA HeldPlacesNext == SizesInv' /\ PlacementInv' /\ Created' => HeldApart'
  BY HeldPlaces, PTL

\* An entry that is found under the address of a block is its own.
LEMMA OwnEntry ==
    ASSUME SizesInv, PlacementInv, Created, ptrs \in Ptrs,
           NEW own \in Owners, PtrsTraced(own), NEW b \in Held,
           NEW i \in Matching(ptrs, blk[b].ptr)
    PROVE  i = own[b] /\ ptrs[own[b]].key = blk[b].ptr
<1>1. i \in Entries(ptrs) /\ ptrs[i].key = blk[b].ptr
  BY DEF Matching, Entries
<1>2. PICK c \in Held : i = own[c]
  BY <1>1 DEF PtrsTraced
<1>3. c = b
  <2>1. CASE blk[b].ptr = ptrs[own[b]].key
    BY <1>1, <1>2, <2>1 DEF PtrsTraced
  <2>2. CASE blk[b].ptr = Place(b)
    <3>1. Place(b) \in Live
      BY HeldPlaces DEF HeldApart
    <3>2. ptrs[own[c]].key = Place(c)
      BY <1>1, <1>2, <2>2, <3>1 DEF PtrsTraced
    <3> QED
      BY <1>1, <1>2, <2>2, <3>2, HeldPlaces DEF HeldApart
  <2> QED
    BY <2>1, <2>2 DEF PtrsTraced
<1> QED
  BY <1>1, <1>2, <1>3

LEMMA OwnFound ==
    ASSUME SizesInv, PlacementInv, Created, ptrs \in Ptrs,
           NEW own \in Owners, PtrsTraced(own), NEW b \in Held
    PROVE  /\ Found(ptrs, blk[b].ptr) \in {{}, {own[b]}}
           /\ Matching(ptrs, blk[b].ptr) \in {{}, {own[b]}}
           /\ Found(ptrs, blk[b].ptr) = {}
                <=> Matching(ptrs, blk[b].ptr) = {}
           /\ Matching(ptrs, blk[b].ptr) # {} =>
                ptrs[own[b]].key = blk[b].ptr
<1> DEFINE M == Matching(ptrs, blk[b].ptr)
<1>1. \A i \in M : i = own[b] /\ ptrs[own[b]].key = blk[b].ptr
  BY OwnEntry
<1>2. own[b] \in Nat
  BY DEF Owners
<1>3. Found(ptrs, blk[b].ptr) = {i \in M : \A j \in M : i <= j}
  BY DEF Found, First
<1> HIDE DEF M
<1>4. CASE M = {}
  BY <1>3, <1>4 DEF M
<1>5. CASE M # {}
  <2>1. M = {own[b]}
    BY <1>1, <1>5
  <2>2. Found(ptrs, blk[b].ptr) = {own[b]}
    BY <1>2, <1>3, <2>1
  <2> QED
    BY <1>1, <2>1, <2>2 DEF M
<1> QED
  BY <1>4, <1>5

\* The steps that leave the entries, the allocator and the blocks where they
\* are.
LEMMA PtrsStable ==
    ASSUME ptrs \in Ptrs, NEW own \in Owners, PtrsTraced(own),
           UNCHANGED <<ptrs, mem, reserved, moved, resized>>,
           Held' = Held,
           \A b \in Held : /\ blk'[b].ptr = blk[b].ptr
                           /\ blk'[b].off = blk[b].off
                           /\ blk'[b].size = blk[b].size
                           /\ blk'[b].align = blk[b].align
    PROVE  own \in Owners' /\ PtrsTraced(own)'
BY DEF Owners, PtrsTraced, Entries, Place, Live, Label

\* A block that is given back takes its entry with it.
LEMMA PtrFreed ==
    ASSUME SizesInv, PlacementInv, PtrsInv, NEW b \in Blocks,
           w_linear_alloc_free(b), NEW i \in Found(ptrs, blk[b].ptr),
           ptrs' = Removed(ptrs, i), resized' = resized \ {b}, moved' = moved
    PROVE  PtrsInv'
<1> USE DEF allocVars
<1>1. /\ pc = "idle" /\ pc' = "idle" /\ b \in Held /\ Created
      /\ blk' = [blk EXCEPT ![b] = NoBlock] /\ UNCHANGED <<mem, reserved>>
      /\ ptrs \in Ptrs
  BY DEF w_linear_alloc_free, Created, PtrsInv
<1>2. PICK own \in Owners : PtrsTraced(own)
  BY <1>1 DEF PtrsInv
<1>3. i = own[b] /\ i \in 1 .. PtrCapacity
  <2>1. Found(ptrs, blk[b].ptr) \in {{}, {own[b]}}
    BY <1>1, <1>2, OwnFound
  <2> QED
    BY <1>1, <2>1 DEF Owners
<1>4. /\ ptrs' \in Ptrs
      /\ Entries(ptrs)' = Entries(ptrs) \ {i}
      /\ \A j \in 1 .. PtrCapacity : j # i => ptrs'[j] = ptrs[j]
  BY <1>1, <1>3 DEF Ptrs, Removed, Entries
<1>5. /\ Held' = Held \ {b}
      /\ \A c \in Held' : blk'[c] = blk[c] /\ Place(c)' = Place(c)
      /\ Live' = Live
  BY <1>1 DEF Held, NoBlock, SizesInv, FieldsTypeOK, Place, Live
<1>6. PICK mine : mine = [c \in Held' |-> own[c]]
  OBVIOUS
<1>7. mine \in Owners'
  BY <1>2, <1>5, <1>6 DEF Owners
<1>8. \A c \in Held' : mine[c] = own[c] /\ own[c] # i /\ ptrs'[mine[c]] = ptrs[own[c]]
  <2> SUFFICES ASSUME NEW c \in Held' PROVE own[c] # i
    BY <1>4, <1>5, <1>6 DEF Owners
  <2>1. ptrs[own[c]].key # ptrs[own[b]].key
    BY <1>1, <1>2, <1>5 DEF PtrsTraced
  <2> QED
    BY <1>3, <2>1
<1>9. PtrsTraced(mine)'
  <2>1. \A j \in Entries(ptrs)' : \E c \in Held' : j = mine[c]
    BY <1>2, <1>3, <1>4, <1>5, <1>8 DEF PtrsTraced
  <2>2. \A c \in Held' : c \in Held
    BY <1>5
  <2> QED
    BY <1>2, <1>5, <1>8, <2>1, <2>2 DEF PtrsTraced, Label
<1> QED
  BY <1>1, <1>4, <1>7, <1>9 DEF PtrsInv

\* A block that comes to a place is traced there.
LEMMA PtrPlaced ==
    ASSUME PtrsInv, SizesInv', PlacementInv', Created, Created',
           pc' = "idle", UNCHANGED <<mem, reserved, moved>>,
           NEW own \in Owners, NEW b \in Blocks,
           NEW i \in 1 .. PtrCapacity,
           NEW size \in Nat, NEW align \in Nat,
           NEW rest, PtrsTraced(own),
           \A j \in 1 .. PtrCapacity :
             /\ b \in Held /\ j = own[b] => ~rest[j].valid
             /\ ~(b \in Held /\ j = own[b]) => rest[j] = ptrs[j],
           rest \in Ptrs, ~rest[i].valid,
           ptrs' = Inserted(rest, i, Place(b)', Label(size, align)),
           blk'[b].size = size, blk'[b].align = align,
           blk'[b].ptr = Place(b)',
           Held' = Held \union {b},
           \A c \in Blocks \ {b} : blk'[c] = blk[c],
           \A c \in Held \ {b} : c \notin resized' => c \notin resized
    PROVE  PtrsInv'
<1>1. /\ b \in Held' /\ Place(b)' \in Nat /\ Place(b)' \in Live' /\ Live' = Live
      /\ \A c \in Held' : Place(b)' = Place(c)' => b = c
  BY HeldPlacesNext DEF HeldApart, Live, Held
<1>2. PICK place \in Nat : place = Place(b)'
  BY <1>1
<1>3. /\ ptrs' \in Ptrs
      /\ ptrs'[i].valid /\ ptrs'[i].key = place
      /\ ptrs'[i].data = Label(size, align)
      /\ \A j \in 1 .. PtrCapacity : j # i => ptrs'[j] = rest[j]
  BY <1>2 DEF Ptrs, Inserted, Label
<1>4. PICK mine : mine = [c \in Held' |-> IF c = b THEN i ELSE own[c]]
  OBVIOUS
<1>5. mine \in Owners'
  BY <1>4 DEF Owners
<1>6. ASSUME NEW c \in Held', c # b
      PROVE  /\ c \in Held /\ mine[c] = own[c] /\ own[c] # i
             /\ blk'[c] = blk[c] /\ Place(c)' = Place(c)
             /\ ptrs'[mine[c]] = ptrs[own[c]]
  <2>1. c \in Held /\ mine[c] = own[c] /\ own[c] \in 1 .. PtrCapacity
        /\ blk'[c] = blk[c]
    BY <1>4, <1>6 DEF Owners, Held
  <2>2. ptrs[own[c]].valid
    BY <2>1 DEF PtrsTraced
  <2>3. ~(b \in Held /\ own[c] = own[b])
    BY <1>6, <2>1 DEF PtrsTraced
  <2>4. rest[own[c]] = ptrs[own[c]]
    BY <2>1, <2>3
  <2> QED
    BY <1>3, <2>1, <2>2, <2>4 DEF Place
<1>7. mine[b] = i
  BY <1>1, <1>4
<1>8. PtrsTraced(mine)'
  <2>1. ASSUME NEW c \in Held' PROVE ptrs'[mine[c]].valid
    BY <1>3, <1>6, <1>7 DEF PtrsTraced
  <2>2. ASSUME NEW j \in Entries(ptrs)' PROVE \E c \in Held' : j = mine[c]
    <3>1. j \in 1 .. PtrCapacity /\ ptrs'[j].valid
      BY <1>3 DEF Entries, Ptrs
    <3>2. CASE j = i
      BY <1>1, <1>7, <3>2
    <3>3. CASE j # i
      <4>1. rest[j].valid
        BY <1>3, <3>1, <3>3
      <4>2. ~(b \in Held /\ j = own[b]) /\ ptrs[j].valid
        BY <3>1, <4>1
      <4>3. j \in Entries(ptrs)
        BY <3>1, <4>2 DEF Entries, Ptrs, PtrsInv
      <4>4. PICK c \in Held : j = own[c]
        BY <4>3 DEF PtrsTraced
      <4>5. c # b /\ c \in Held'
        BY <4>2, <4>4
      <4> QED
        BY <1>6, <4>4, <4>5
    <3> QED
      BY <3>2, <3>3
  <2>3. ASSUME NEW c \in Held', c # b
        PROVE  ptrs'[mine[c]].key # place
    <3>1. ptrs[own[c]].key = Place(c) \/ ptrs[own[c]].key \notin Live
      BY <1>6, <2>3 DEF PtrsTraced
    <3>2. Place(c) # place
      BY <1>1, <1>2, <1>6, <2>3
    <3> QED
      BY <1>1, <1>2, <1>6, <2>3, <3>1, <3>2
  <2>4. \A c, d \in Held' : ptrs'[mine[c]].key = ptrs'[mine[d]].key => c = d
    <3> SUFFICES ASSUME NEW c \in Held', NEW d \in Held', c # d
                 PROVE  ptrs'[mine[c]].key # ptrs'[mine[d]].key
      OBVIOUS
    <3>1. CASE c = b
      BY <1>3, <1>7, <2>3, <3>1
    <3>2. CASE d = b
      BY <1>3, <1>7, <2>3, <3>2
    <3>3. CASE c # b /\ d # b
      BY <1>6, <3>3 DEF PtrsTraced
    <3> QED
      BY <3>1, <3>2, <3>3
  <2>5. ASSUME NEW c \in Held'
        PROVE  /\ ptrs'[mine[c]].key = Place(c)' \/ ptrs'[mine[c]].key \notin Live'
               /\ blk'[c].ptr = Place(c)' \/ blk'[c].ptr = ptrs'[mine[c]].key
               /\ c \notin resized' =>
                    ptrs'[mine[c]].data = Label(blk'[c].size, blk'[c].align)
               /\ ~moved' => /\ ptrs'[mine[c]].key = Place(c)'
                             /\ blk'[c].ptr = ptrs'[mine[c]].key
    <3>1. CASE c = b
      BY <1>2, <1>3, <1>7, <3>1
    <3>2. CASE c # b
      <4>1. c \notin resized' => c \notin resized
        BY <1>6, <3>2
      <4> QED
        BY <1>1, <1>6, <3>2, <4>1 DEF PtrsTraced
    <3> QED
      BY <3>1, <3>2
  <2> QED
    BY <2>1, <2>2, <2>4, <2>5 DEF PtrsTraced, Label
<1> QED
  BY <1>3, <1>5, <1>8 DEF PtrsInv

\* What is known of the call that returns.
LEMMA CallReturns ==
    ASSUME SizesInv, RegionsInv, pc = "return"
    PROVE  /\ Created /\ Consistent(call) /\ call.b \in Blocks
           /\ call.size \in Nat /\ call.align \in Nat /\ call.old \in Nat
           /\ NewOffset \in Nat /\ mem \in Nat /\ mem + NewOffset \in Nat
           /\ mem + NewOffset # Null
<1>1. Created /\ Consistent(call) /\ call \in Calls /\ call.used <= committed
  BY DEF SizesInv, CallConsistent, Created, FieldsTypeOK
<1>2. /\ call.size \in Nat /\ call.used \in Nat /\ committed \in Nat
      /\ 0 < call.size /\ call.size <= call.used
      /\ call.align \in Nat /\ call.old \in Nat /\ call.b \in Blocks
  BY <1>1 DEF Calls, Consistent, SizesInv, FieldsTypeOK
<1>3. mem \in Nat /\ mem > 0
  BY <1>1, <1>2, BaseNotNull
<1> QED
  BY <1>1, <1>2, <1>3 DEF NewOffset, Null

\* A new block is traced at the first entry that is not in use.
LEMMA PtrAllocated ==
    ASSUME SizesInv, RegionsInv, PtrsInv, SizesInv', PlacementInv',
           pc = "return", AllocateReturn, NEW i \in Vacant(ptrs),
           ptrs' = Inserted(ptrs, i, mem + NewOffset,
                            Label(call.size, call.align)),
           UNCHANGED <<moved, resized>>
    PROVE  PtrsInv'
<1> USE DEF allocVars
<1>1. PICK b \in Blocks : b = call.b
  BY CallReturns
<1>2. /\ Created /\ Created' /\ pc' = "idle" /\ UNCHANGED <<mem, reserved>>
      /\ blk' = [blk EXCEPT ![b] =
                   [ptr |-> mem + NewOffset, off |-> NewOffset,
                    size |-> call.size, align |-> call.align, init |-> 0]]
      /\ call.op = "allocate"
  BY <1>1, CallReturns DEF AllocateReturn, Succeed, Created
<1>3. b \notin Held /\ mem + NewOffset # Null
  BY <1>1, <1>2, CallReturns DEF Consistent
<1>4. /\ blk'[b].ptr = mem + NewOffset /\ blk'[b].off = NewOffset
      /\ blk'[b].size = call.size /\ blk'[b].align = call.align
      /\ \A c \in Blocks \ {b} : blk'[c] = blk[c]
  BY <1>2 DEF SizesInv, FieldsTypeOK
<1>5. Held' = Held \union {b} /\ Place(b)' = mem + NewOffset
  BY <1>2, <1>3, <1>4 DEF Held, Place
<1>6. i \in 1 .. PtrCapacity /\ ~ptrs[i].valid
  BY DEF Vacant, First, PtrsInv, Ptrs
<1>7. PICK own \in Owners : PtrsTraced(own)
  BY <1>2 DEF PtrsInv
<1>8. ptrs \in Ptrs /\ ptrs' = Inserted(ptrs, i, Place(b)', Label(call.size, call.align))
  BY <1>5 DEF PtrsInv
<1>9. call.size \in Nat /\ call.align \in Nat
  BY CallReturns
<1> QED
  BY <1>2, <1>3, <1>4, <1>5, <1>6, <1>7, <1>8, <1>9, PtrPlaced

\* A block that is copied to another place is traced there and no longer at
\* its former one; one that stays keeps its entry.
LEMMA PtrReallocated ==
    ASSUME SizesInv, PlacementInv, RegionsInv, PtrsInv, SizesInv', PlacementInv',
           pc = "return", TracedReallocateReturn
    PROVE  PtrsInv'
<1> USE DEF allocVars
<1>1. PICK b \in Blocks : b = call.b
  BY CallReturns
<1>2. /\ Created /\ Created' /\ pc' = "idle" /\ UNCHANGED <<mem, reserved, moved>>
      /\ blk' = [blk EXCEPT ![b] =
                   [ptr |-> mem + NewOffset, off |-> NewOffset,
                    size |-> call.size, align |-> call.align,
                    init |-> Smaller(@.init, call.size)]]
      /\ call.op = "reallocate" /\ ptrs \in Ptrs
  BY <1>1, CallReturns
     DEF TracedReallocateReturn, ReallocateReturn, Succeed, Created, PtrsInv
<1>3. /\ b \in Held /\ mem + NewOffset # Null
      /\ call.old = blk[b].size /\ call.align = blk[b].align
      /\ call.size \in Nat /\ call.align \in Nat
  BY <1>1, <1>2, CallReturns DEF Consistent
<1>4. /\ blk'[b].ptr = mem + NewOffset /\ blk'[b].off = NewOffset
      /\ blk'[b].size = call.size /\ blk'[b].align = call.align
      /\ \A c \in Blocks \ {b} : blk'[c] = blk[c]
  BY <1>2 DEF SizesInv, FieldsTypeOK
<1>5. /\ Held' = Held /\ Place(b)' = mem + NewOffset /\ Live' = Live
      /\ \A c \in Held \ {b} : Place(c)' = Place(c)
  BY <1>2, <1>3, <1>4 DEF Held, Place, Live
<1>6. PICK own \in Owners : PtrsTraced(own)
  BY <1>2 DEF PtrsInv
<1>7. Matching(ptrs, blk[b].ptr) # {}
  BY <1>1, <1>2 DEF PtrsInv
<1>8. ptrs[own[b]].key = blk[b].ptr /\ own[b] \in 1 .. PtrCapacity
  BY <1>2, <1>3, <1>6, <1>7, OwnFound DEF Owners
<1>9. ASSUME NEW i \in Found(ptrs, blk[b].ptr),
             NEW j \in Vacant(Removed(ptrs, i)),
             ptrs' = Inserted(Removed(ptrs, i), j, mem + NewOffset,
                              Label(call.size, call.align)),
             resized' = resized \ {b}
      PROVE  PtrsInv'
  <2>1. PICK rest : rest = Removed(ptrs, i)
    OBVIOUS
  <2>2. i = own[b]
    <3>1. Found(ptrs, blk[b].ptr) \in {{}, {own[b]}}
      BY <1>2, <1>3, <1>6, OwnFound
    <3> QED
      BY <1>9, <3>1
  <2>3. /\ rest \in Ptrs /\ ~rest[i].valid
        /\ \A k \in 1 .. PtrCapacity : k # i => rest[k] = ptrs[k]
    BY <1>2, <1>8, <2>1, <2>2 DEF Ptrs, Removed
  <2>4. j \in 1 .. PtrCapacity /\ ~rest[j].valid
    BY <2>1, <2>3 DEF Vacant, First, Ptrs
  <2>5. \A k \in 1 .. PtrCapacity :
          /\ b \in Held /\ k = own[b] => ~rest[k].valid
          /\ ~(b \in Held /\ k = own[b]) => rest[k] = ptrs[k]
    BY <1>3, <2>2, <2>3
  <2>6. ptrs' = Inserted(rest, j, Place(b)', Label(call.size, call.align))
    BY <1>5, <1>9, <2>1
  <2>7. Held' = Held \union {b} /\ blk'[b].ptr = Place(b)'
    BY <1>3, <1>4, <1>5
  <2>8. \A c \in Held \ {b} : c \notin resized' => c \notin resized
    BY <1>9
  <2> QED
    BY <1>2, <1>3, <1>4, <1>6, <2>3, <2>4, <2>5, <2>6, <2>7, <2>8, PtrPlaced
<1>10. ASSUME blk[b].ptr = mem + NewOffset, UNCHANGED ptrs,
              resized' = IF call.size = call.old THEN resized
                                                 ELSE resized \union {b}
       PROVE  PtrsInv'
  <2>1. own \in Owners'
    BY <1>5, <1>6 DEF Owners
  <2>2. /\ ptrs[own[b]].key = Place(b)' /\ blk'[b].ptr = Place(b)'
        /\ b \notin resized' => /\ b \notin resized
                                /\ blk'[b].size = blk[b].size
                                /\ blk'[b].align = blk[b].align
        /\ \A c \in Held \ {b} : c \notin resized' => c \notin resized
    BY <1>3, <1>4, <1>5, <1>8, <1>10
  <2>3. PtrsTraced(own)'
    <3>1. \A c \in Held :
            /\ ptrs[own[c]].key = Place(c)' \/ ptrs[own[c]].key \notin Live
            /\ blk'[c].ptr = Place(c)' \/ blk'[c].ptr = ptrs[own[c]].key
            /\ c \notin resized' =>
                 ptrs[own[c]].data = Label(blk'[c].size, blk'[c].align)
            /\ ~moved => /\ ptrs[own[c]].key = Place(c)'
                         /\ blk'[c].ptr = ptrs[own[c]].key
      <4> SUFFICES ASSUME NEW c \in Held
                   PROVE  /\ ptrs[own[c]].key = Place(c)' \/ ptrs[own[c]].key \notin Live
                          /\ blk'[c].ptr = Place(c)' \/ blk'[c].ptr = ptrs[own[c]].key
                          /\ c \notin resized' =>
                               ptrs[own[c]].data = Label(blk'[c].size, blk'[c].align)
                          /\ ~moved => /\ ptrs[own[c]].key = Place(c)'
                                       /\ blk'[c].ptr = ptrs[own[c]].key
        OBVIOUS
      <4>1. CASE c = b
        BY <1>6, <2>2, <4>1 DEF PtrsTraced
      <4>2. CASE c # b
        <5>1. blk'[c] = blk[c] /\ Place(c)' = Place(c)
              /\ (c \notin resized' => c \notin resized)
          BY <1>4, <1>5, <2>2, <4>2 DEF Held
        <5> QED
          BY <1>6, <5>1 DEF PtrsTraced
      <4> QED
        BY <4>1, <4>2
    <3> QED
      BY <1>2, <1>5, <1>6, <1>10, <3>1 DEF PtrsTraced, Entries, Label
  <2> QED
    BY <1>2, <1>10, <2>1, <2>3 DEF PtrsInv
<1> QED
  BY <1>1, <1>9, <1>10 DEF TracedReallocateReturn

\* The move leaves the addresses of the entries behind: none is in the region
\* that the allocator moves to.
LEMMA PtrsMoved ==
    ASSUME SizesInv, PlacementInv, RegionsInv, PtrsInv,
           ReleaseOld, ~moved, moved' = TRUE, UNCHANGED <<ptrs, resized>>
    PROVE  PtrsInv'
<1> USE DEF allocVars
<1>1. /\ Created /\ Created' /\ pc = "release" /\ buf # Null /\ pc' = "return"
      /\ mem' = buf /\ reserved' = NewReserved /\ UNCHANGED <<call, blk>>
  BY DEF ReleaseOld, Created, SizesInv, CallConsistent
<1>2. Live \intersect Live' = {}
  BY <1>1 DEF RegionsInv, OwnsItsRegions, Live, Span
<1>3. PICK own \in Owners : PtrsTraced(own)
  BY <1>1 DEF PtrsInv
<1>4. \A b \in Held : ptrs[own[b]].key \in Live /\ blk[b].ptr = ptrs[own[b]].key
  BY <1>1, <1>3, HeldPlaces DEF PtrsTraced, HeldApart
<1>5. Held' = Held /\ own \in Owners'
  BY <1>1, <1>3 DEF Held, Owners
<1>6. PtrsTraced(own)'
  BY <1>1, <1>2, <1>3, <1>4, <1>5 DEF PtrsTraced, Entries, Label
<1> QED
  BY <1>1, <1>5, <1>6 DEF PtrsInv, Matching

\* The client computes a pointer again; its entry stays where it was.
LEMMA PtrRefreshed ==
    ASSUME SizesInv, PlacementInv, RegionsInv, PtrsInv, NEW b \in Blocks,
           ClientRefresh(b), UNCHANGED traceVars
    PROVE  PtrsInv'
<1> USE DEF allocVars, traceVars
<1>1. /\ Created /\ Created' /\ pc' = "idle" /\ b \in Held
      /\ UNCHANGED <<mem, reserved, committed, used, ptrs, moved, resized>>
      /\ blk' = [blk EXCEPT ![b].ptr = mem + blk[b].off]
      /\ blk[b].ptr # mem + blk[b].off
  BY DEF ClientRefresh, Created, Fresh
<1>2. mem + blk[b].off # Null
  <2>1. blk[b].off + Extent(b) <= used /\ used <= committed
        /\ blk[b].off \in Nat /\ used \in Nat /\ committed \in Nat
        /\ blk[b].size \in Nat
    BY <1>1 DEF PlacementInv, BlocksWithinUsed, SizesInv, SizesNested,
       FieldsTypeOK, Held
  <2>2. committed > 0
    BY <2>1 DEF Extent, Larger
  <2> QED
    BY <1>1, <2>1, <2>2, BaseNotNull DEF Null
<1>3. /\ blk'[b].ptr = Place(b)
      /\ \A c \in Blocks : /\ blk'[c].off = blk[c].off /\ blk'[c].size = blk[c].size
                           /\ blk'[c].align = blk[c].align
                           /\ c # b => blk'[c].ptr = blk[c].ptr
  BY <1>1 DEF Place, SizesInv, FieldsTypeOK
<1>4. /\ Held' = Held /\ Live' = Live /\ \A c \in Blocks : Place(c)' = Place(c)
      /\ Held \subseteq Blocks
  BY <1>1, <1>2, <1>3 DEF Held, Place, Live
<1>5. PICK own \in Owners : PtrsTraced(own)
  BY <1>1 DEF PtrsInv
<1>6. moved
  BY <1>1, <1>5 DEF PtrsTraced, Place, PtrsInv
<1>7. own \in Owners' /\ PtrsTraced(own)'
  <2>1. \A c \in Held : \/ blk'[c].ptr = Place(c)'
                        \/ blk'[c].ptr = ptrs'[own[c]].key
    BY <1>1, <1>3, <1>4, <1>5 DEF PtrsTraced
  <2> QED
    BY <1>1, <1>3, <1>4, <1>5, <1>6, <2>1 DEF Owners, PtrsTraced, Entries, Label
<1> QED
  BY <1>1, <1>7 DEF PtrsInv

\* PtrsInv is inductive.
LEMMA PtrsNext ==
    ASSUME AllocInv, AllocInv', RegionsTraced, PtrsInv, [TracedNext]_tracedVars
    PROVE  PtrsInv'
<1> USE DEF allocVars, vmemVars, traceVars
<1>1. CASE UNCHANGED tracedVars
  <2>1. /\ UNCHANGED <<ptrs, mem, reserved, moved, resized, call, blk, pc>>
        /\ Held' = Held
    BY <1>1 DEF tracedVars, vars, Held
  <2>2. ASSUME NEW own \in Owners, PtrsTraced(own)
        PROVE  own \in Owners' /\ PtrsTraced(own)'
    BY <2>1, <2>2, PtrsStable DEF PtrsInv
  <2>3. Created' <=> Created
    BY <2>1 DEF Created
  <2> QED
    BY <2>1, <2>2, <2>3 DEF PtrsInv, Matching
<1>2. CASE Stopped' /\ UNCHANGED ptrs
  BY <1>2 DEF Stopped, PtrsInv, Created
<1> SUFFICES ASSUME ~Stopped, TracedNext, ~Stopped' \/ ~UNCHANGED ptrs
             PROVE  PtrsInv'
  BY <1>1, <1>2, NoStepStopped
<1>3. /\ SizesInv /\ PlacementInv /\ RegionsInv
      /\ ~Stopped' => SizesInv' /\ PlacementInv'
      /\ Created <=> pc # "absent"
      /\ buf # Null <=> pc \in {"commit_buffer", "undo", "move", "release"}
  BY DEF AllocInv, Created, Stopped, SizesInv, CallConsistent
<1>4. ASSUME Created, Created', UNCHANGED <<ptrs, mem, reserved, moved, resized>>,
             \/ pc' = "idle"
             \/ pc # "idle" /\ UNCHANGED <<call, blk>>
             \/ call'.op = "allocate"
             \/ Matching(ptrs, blk[call'.b].ptr) # {} /\ UNCHANGED blk,
             Held' = Held,
             \A b \in Held : /\ blk'[b].ptr = blk[b].ptr
                             /\ blk'[b].off = blk[b].off
                             /\ blk'[b].size = blk[b].size
                             /\ blk'[b].align = blk[b].align
      PROVE  PtrsInv'
  <2>1. PICK own \in Owners : PtrsTraced(own)
    BY <1>4 DEF PtrsInv
  <2>2. ptrs \in Ptrs /\ own \in Owners' /\ PtrsTraced(own)'
    BY <1>4, <2>1, PtrsStable DEF PtrsInv
  <2>3. Created' /\ pc' # "idle" /\ call'.op = "reallocate" =>
          Matching(ptrs', blk'[call'.b].ptr) # {}
    BY <1>4 DEF PtrsInv
  <2> QED
    BY <1>4, <2>2, <2>3 DEF PtrsInv
<1>5. ASSUME UNCHANGED blk PROVE Held' = Held
  BY <1>5 DEF Held
<1>6. ASSUME NEW size \in InitialSizes, TracedCreate(size)
      PROVE  PtrsInv'
  <2>1. CASE pc' = "absent" /\ UNCHANGED ptrs
    BY <2>1 DEF PtrsInv, Created
  <2>2. CASE pc' = "idle" /\ ptrs' = EmptyPool(PtrCapacity)
    <3>1. Held' = {}
      BY <1>3, <1>5, <1>6
         DEF TracedCreate, w_linear_alloc_create, PlacementInv
    <3>2. ptrs' \in Ptrs /\ Entries(ptrs)' = {}
      BY <2>2 DEF EmptyPool, Zeroed, Ptrs, Entries
    <3>3. PICK own : own = [b \in {} |-> 1]
      OBVIOUS
    <3>4. own \in Owners' /\ PtrsTraced(own)'
      BY <3>1, <3>2, <3>3 DEF Owners, PtrsTraced
    <3> QED
      BY <2>2, <3>2, <3>4 DEF PtrsInv
  <2> QED
    BY <1>6, <2>1, <2>2 DEF TracedCreate
<1>7. CASE TracedDestroy
  <2>1. ptrs' = EmptyPool(PtrCapacity) /\ pc' = "absent"
    BY <1>7 DEF TracedDestroy, DestroyRefused, StopForRegion, StopAt, Stopped,
       w_linear_alloc_destroy
  <2>2. ptrs' \in Ptrs
    BY <2>1 DEF EmptyPool, Zeroed, Ptrs
  <2> QED
    BY <2>1, <2>2 DEF PtrsInv, Created
<1>8. ASSUME NEW b \in Blocks, NEW size \in Sizes, NEW alignment \in Alignments,
             TracedAllocate(b, size, alignment)
      PROVE  PtrsInv'
  BY <1>3, <1>4, <1>5, <1>8
     DEF TracedAllocate, w_linear_alloc_allocate, Enter, Created
<1>9. ASSUME NEW b \in Blocks,
             TracedFree(b) \/ FreeNull(b) \/ TracedReallocateToZero(b)
      PROVE  PtrsInv'
  BY <1>3, <1>9, PtrFreed
     DEF TracedFree, FreeNull, TracedReallocateToZero, StopAt, Stopped
<1>10. ASSUME NEW b \in Blocks, NEW size \in Sizes, TracedReallocate(b, size)
       PROVE  PtrsInv'
  <2>1. /\ Traced(b) /\ w_linear_alloc_reallocate(b, size)
        /\ UNCHANGED traceVars
    BY <1>10 DEF TracedReallocate, StopAt, Stopped
  <2>2. Matching(ptrs, blk[b].ptr) # {}
    BY <2>1 DEF Traced, Found, First
  <2>3. pc = "idle" /\ call'.b = b /\ pc' \in {"reserve", "commit", "return"}
        /\ UNCHANGED <<mem, reserved, blk>>
    BY <2>1 DEF w_linear_alloc_reallocate, Enter, Stopped
  <2> QED
    BY <1>3, <1>4, <1>5, <2>1, <2>2, <2>3 DEF Created
<1>11. CASE TracedReserve \/ TracedUndoReserve
  BY <1>3, <1>4, <1>5, <1>11
     DEF TracedReserve, Reserve, TracedUndoReserve, UndoReserve, Fail, Created
<1>12. CASE TracedCommitBuffer \/ TracedCommitMore
  BY <1>3, <1>4, <1>5, <1>12
     DEF TracedCommitBuffer, CommitBuffer, TracedCommitMore, CommitMore,
         CommitRefused, StopForRegion, StopAt, Fail, Stopped, Created
<1>13. CASE TracedReleaseOld
  <2>1. /\ ReleaseOld /\ DestroyChecked(AllocMem, reserved) /\ moved' = TRUE
        /\ UNCHANGED <<ptrs, resized>>
    BY <1>13 DEF TracedReleaseOld, DestroyRefused, StopForRegion, StopAt, Stopped
  <2>2. Created /\ Found(regions, AllocMem) # {}
    BY <1>3, <2>1 DEF ReleaseOld, DestroyChecked
  <2>3. ~moved
    BY <2>2, FoundRegion
  <2> QED
    BY <1>3, <2>1, <2>3, PtrsMoved
<1>14. CASE TracedAllocateReturn
  <2>1. PICK i \in Vacant(ptrs) :
          ptrs' = Inserted(ptrs, i, mem + NewOffset,
                           Label(call.size, call.align))
    BY <1>14 DEF TracedAllocateReturn, StopAt, Stopped
  <2>2. /\ AllocateReturn /\ pc = "return" /\ pc' = "idle"
        /\ UNCHANGED <<moved, resized>>
    BY <1>14 DEF TracedAllocateReturn, AllocateReturn, Succeed, StopAt, Stopped
  <2> QED
    BY <1>3, <2>1, <2>2, PtrAllocated DEF Stopped
<1>15. CASE TracedReallocateReturn
  <2>1. pc = "return" /\ pc' = "idle"
    BY <1>15 DEF TracedReallocateReturn, ReallocateReturn, Succeed
  <2> QED
    BY <1>3, <1>15, <2>1, PtrReallocated DEF Stopped
<1>16. CASE (MoveContents \/ ReallocateFault) /\ UNCHANGED traceVars
  BY <1>3, <1>4, <1>5, <1>16 DEF MoveContents, ReallocateFault, Stopped, Created
<1>17. ASSUME NEW b \in Blocks, ClientWrite(b), UNCHANGED traceVars
       PROVE  PtrsInv'
  <2>1. \A c \in Blocks : /\ blk'[c].ptr = blk[c].ptr
                          /\ blk'[c].off = blk[c].off
                          /\ blk'[c].size = blk[c].size
                          /\ blk'[c].align = blk[c].align
    BY <1>3, <1>17 DEF ClientWrite, SizesInv, FieldsTypeOK
  <2>2. Held' = Held /\ Held \subseteq Blocks
    BY <2>1 DEF Held
  <2> QED
    BY <1>3, <1>4, <1>17, <2>1, <2>2 DEF ClientWrite, Created
<1>18. ASSUME NEW b \in Blocks, ClientRefresh(b), UNCHANGED traceVars
       PROVE  PtrsInv'
  BY <1>3, <1>18, PtrRefreshed
<1> QED
  BY <1>6, <1>7, <1>8, <1>9, <1>10, <1>11, <1>12, <1>13, <1>14, <1>15, <1>16,
     <1>17, <1>18 DEF TracedNext

LEMMA PtrsAlways == TracedSpec => []PtrsInv
<1>1. TracedInit => PtrsInv
  <2> SUFFICES ASSUME TracedInit PROVE PtrsInv
    OBVIOUS
  <2>1. ptrs = [i \in 1 .. PtrCapacity |-> Zeroed] /\ pc = "absent"
    BY DEF TracedInit, Init, EmptyPool
  <2>2. ptrs \in Ptrs
    BY <2>1 DEF Ptrs, Zeroed
  <2> QED
    BY <2>1, <2>2 DEF PtrsInv, Created
<1>2. AllocInv /\ AllocInv' /\ RegionsTraced /\ PtrsInv
      /\ [TracedNext]_tracedVars => PtrsInv'
  BY PtrsNext
<1> QED
  BY <1>1, <1>2, AllocInvAlways, RegionsTracedAlways, PTL DEF TracedSpec

\* There are as many entries as blocks.
LEMMA AsManyEntries ==
    ASSUME PtrCapacity \in Nat, ptrs \in Ptrs,
           NEW own \in Owners, PtrsTraced(own)
    PROVE  Cardinality(Entries(ptrs)) = Cardinality(Held)
<1>1. IsFiniteSet(Entries(ptrs)) /\ Entries(ptrs) \subseteq 1 .. PtrCapacity
  <2>1. IsFiniteSet(1 .. PtrCapacity)
    BY FS_Interval
  <2>2. Entries(ptrs) \in SUBSET (1 .. PtrCapacity)
    BY DEF Entries, Ptrs
  <2> QED
    BY <2>1, <2>2, FS_Subset
<1>2. \A i \in Entries(ptrs) : \E b \in Held : i = own[b]
  BY DEF PtrsTraced
<1>3. \A b \in Held : own[b] \in Entries(ptrs)
  BY DEF PtrsTraced, Entries, Ptrs, Owners
<1>4. \A b, c \in Held : own[b] = own[c] => b = c
  BY DEF PtrsTraced
<1>5. PICK of : of = [i \in Entries(ptrs) |-> CHOOSE b \in Held : i = own[b]]
  OBVIOUS
<1>6. \A i \in Entries(ptrs) : of[i] \in Held /\ own[of[i]] = i
  BY <1>2, <1>5
<1>7. of \in Bijection(Entries(ptrs), Held)
  <2>1. of \in [Entries(ptrs) -> Held]
    BY <1>5, <1>6
  <2>2. \A i, j \in Entries(ptrs) : of[i] = of[j] => i = j
    BY <1>6
  <2>3. \A b \in Held : \E i \in Entries(ptrs) : of[i] = b
    BY <1>3, <1>4, <1>6
  <2> QED
    BY <2>1, <2>2, <2>3 DEF Bijection, Injection, Surjection, IsInjective
<1> QED
  BY <1>1, <1>7, FS_Bijection DEF ExistsBijection

\* For every allocator, at every step of every call until the program ends:
\* up to the first move, what is traced is what there is, and after it no
\* entry found under the address of a block is that of another, none is lost
\* and none is left (vmem_unix.c:105-155, mem.c:281-296, 418-436).
THEOREM TraceFollowsClientsAlways == TracedSpec => []TraceFollowsClients
<1>1. ASSUME AllocInv, RegionsTraced, PtrsInv PROVE TraceFollowsClients
  <2> SUFFICES ASSUME Created PROVE TraceFollowsClients
    BY DEF TraceFollowsClients
  <2>1. SizesInv /\ PlacementInv
    BY <1>1 DEF AllocInv, Stopped, Created
  <2>2. PICK own \in Owners : PtrsTraced(own)
    BY <1>1 DEF PtrsInv
  <2>3. ptrs \in Ptrs /\ \A b \in Held : own[b] \in 1 .. PtrCapacity
    BY <1>1 DEF PtrsInv, Owners
  <2>4. ~moved => RegionSize(AllocMem) = {reserved}
    BY <1>1, FoundRegion DEF RegionSize
  <2>5. buf # Null => RegionSize(local) = {NewReserved}
    BY <1>1, FoundRegion DEF RegionSize
  <2>6. Cardinality(Entries(regions)) = IF buf = Null THEN 1 ELSE 2
    <3>1. Cardinality({1}) = 1 /\ Cardinality({2}) = 1
      BY FS_Singleton
    <3>2. Cardinality({1, 2}) = 2
      <4>1. Cardinality({1} \union {2}) = Cardinality({1}) + 1
        <5>1. IsFiniteSet({1})
          BY FS_Singleton
        <5>2. \A x : Cardinality({1} \union {x})
                      = IF x \in {1} THEN Cardinality({1})
                                    ELSE Cardinality({1}) + 1
          BY <5>1, FS_AddElement
        <5> QED
          BY <5>2
      <4>2. {1} \union {2} = {1, 2}
        OBVIOUS
      <4> QED
        BY <3>1, <4>1, <4>2
    <3> QED
      BY <1>1, <3>1, <3>2 DEF RegionsTraced, RegionsInUse
  <2>7. ASSUME ~moved, NEW b \in Held PROVE Found(ptrs, blk[b].ptr) # {}
    <3>1. ptrs[own[b]].valid /\ ptrs[own[b]].key = blk[b].ptr
      BY <2>2, <2>7 DEF PtrsTraced
    <3>2. own[b] \in Matching(ptrs, blk[b].ptr)
      BY <2>3, <3>1 DEF Matching, Ptrs
    <3> QED
      BY <2>1, <2>2, <2>3, <3>2, OwnFound
  <2>8. ASSUME NEW b \in Held \ resized, Found(ptrs, blk[b].ptr) # {}
        PROVE  Traced(b)
    <3>1. Found(ptrs, blk[b].ptr) \in {{}, {own[b]}}
      BY <2>1, <2>2, <2>3, OwnFound
    <3>2. own[b] \in Found(ptrs, blk[b].ptr)
      BY <2>8, <3>1
    <3>3. ptrs[own[b]].data = Label(blk[b].size, blk[b].align)
      BY <2>2 DEF PtrsTraced
    <3> QED
      BY <3>2, <3>3 DEF Traced
  <2>9. Cardinality(Entries(ptrs)) = Cardinality(Held)
    BY <2>2, <2>3, AsManyEntries, TracedAllocAssumption
  <2> QED
    BY <2>4, <2>5, <2>6, <2>7, <2>8, <2>9 DEF TraceFollowsClients
<1> QED
  BY <1>1, AllocInvAlways, RegionsTracedAlways, PtrsAlways, PTL

\* In a build that traces, an allocator that moved keeps its region for good: it
\* is neither destroyed nor moved again, and so never created anew.  The program
\* ends when the region it is to give back is looked up under the address of the
\* allocator, where it is not traced (vmem_unix.c:132-133, mem.c:82, 222).
MovesOnce ==
    [][moved => moved' /\ pc' # "absent" /\ UNCHANGED <<mem, reserved>>]_tracedVars

THEOREM MovesOnceAlways == TracedSpec => MovesOnce
<1>1. ASSUME AllocInv, RegionsTraced, [TracedNext]_tracedVars, moved
      PROVE  moved' /\ pc' # "absent" /\ UNCHANGED <<mem, reserved>>
  <2> USE DEF allocVars, traceVars
  <2>1. (Created \/ Stopped) /\ pc # "absent"
    BY <1>1 DEF RegionsTraced, Created, Stopped
  <2>2. CASE Stopped \/ UNCHANGED tracedVars
    BY <1>1, <2>1, <2>2, NoStepStopped DEF tracedVars, vars
  <2>3. CASE \E size \in InitialSizes : TracedCreate(size)
    BY <2>1, <2>3 DEF TracedCreate, w_linear_alloc_create
  <2>4. CASE (TracedReleaseOld \/ TracedDestroy) /\ ~Stopped
    <3>1. Found(regions, AllocMem) = {}
      BY <1>1, <2>1, <2>4, FoundRegion
    <3>2. ~DestroyChecked(AllocMem, reserved)
      BY <3>1 DEF DestroyChecked
    <3> QED
      BY <1>1, <2>4, <3>2 DEF TracedReleaseOld, TracedDestroy, DestroyRefused,
         StopForRegion, StopAt
  <2>5. CASE \/ TracedReserve \/ TracedCommitBuffer
             \/ TracedUndoReserve \/ TracedCommitMore
    BY <1>1, <2>5 DEF TracedReserve, Reserve, TracedCommitBuffer, CommitBuffer,
       CommitRefused, TracedUndoReserve, UndoReserve, TracedCommitMore,
       CommitMore, Fail, StopForRegion, StopAt
  <2>6. CASE \/ TracedAllocateReturn \/ TracedReallocateReturn
             \/ /\ \/ MoveContents
                   \/ ReallocateFault
                   \/ \E b \in Blocks : ClientWrite(b) \/ ClientRefresh(b)
                /\ UNCHANGED traceVars
    BY <1>1, <2>1, <2>6 DEF TracedAllocateReturn, AllocateReturn,
       TracedReallocateReturn, ReallocateReturn, Succeed, StopAt, MoveContents,
       ReallocateFault, ClientWrite, ClientRefresh
  <2>7. CASE \/ \E b \in Blocks, size \in Sizes, alignment \in Alignments :
                  TracedAllocate(b, size, alignment)
             \/ \E b \in Blocks :
                  TracedFree(b) \/ FreeNull(b) \/ TracedReallocateToZero(b)
             \/ \E b \in Blocks, size \in Sizes : TracedReallocate(b, size)
    <3>1. \A c : Enter(c) => pc' # "absent"
      BY DEF Enter
    <3> QED
      BY <1>1, <2>1, <2>7, <3>1 DEF TracedAllocate, w_linear_alloc_allocate,
         TracedFree, w_linear_alloc_free, FreeNull, TracedReallocateToZero,
         TracedReallocate, w_linear_alloc_reallocate, StopAt
  <2> QED
    BY <1>1, <2>2, <2>3, <2>4, <2>5, <2>6, <2>7 DEF TracedNext
<1> QED
  BY <1>1, AllocInvAlways, RegionsTracedAlways, PTL DEF TracedSpec, MovesOnce

-----------------------------------------------------------------------------
(* What the debug build keeps.  The blocks are not affected by what is     *)
(* traced of them: until the program ends everything that holds of         *)
(* LinearAlloc does of TracedAlloc.                                        *)

Kept ==
    Stopped \/ (SizesInv /\ PlacementInv /\ RegionsInv /\ DataInv /\ CallSized)

LEMMA KeptNext ==
    ASSUME SizesInv, PlacementInv, RegionsInv, DataInv, CallSized, [Next]_vars
    PROVE  SizesInv' /\ PlacementInv' /\ RegionsInv' /\ DataInv' /\ CallSized'
BY SizesNext, PlacementNext, RegionsNext, DataNext, CallSizedNext

LEMMA KeptAlways == TracedSpec => []Kept
<1>1. TracedInit => Kept
  BY SizesInit, PlacementInit, RegionsInit, DataInit
     DEF TracedInit, Init, CallSized, Kept
<1>2. ASSUME Kept, [TracedNext]_tracedVars PROVE Kept'
  <2>1. CASE Stopped
    BY <1>2, <2>1, NoStepStopped DEF tracedVars, vars, Kept, Stopped
  <2>2. CASE ~Stopped
    BY <1>2, <2>2, TracedStep, KeptNext DEF Kept
  <2> QED
    BY <2>1, <2>2
<1> QED
  BY <1>1, <1>2, PTL DEF TracedSpec

\* In a debug build too, what a client wrote to a block stays there; the blocks
\* lie apart, aligned and inside of the used part of the reservation; and the
\* allocator owns its regions, asks for valid ones and moves inside of what is
\* committed; all up to where the program ends (mem.c:55-425 with its tracing).
THEOREM TracedBlocksKept ==
    TracedSpec => [](/\ DataIntact /\ BlocksDisjoint /\ BlocksWithinUsed
                     /\ PointersAligned /\ SizesNested /\ OwnsItsRegions
                     /\ VmemRequestsValid /\ MoveTouchesCommitted)
<1>1. Kept => /\ DataIntact /\ BlocksDisjoint /\ BlocksWithinUsed
              /\ PointersAligned /\ SizesNested /\ OwnsItsRegions
              /\ VmemRequestsValid /\ MoveTouchesCommitted
  <2>1. CASE Stopped
    BY <2>1 DEF Stopped, Created, DataIntact, BlocksDisjoint, BlocksWithinUsed,
       PointersAligned, SizesNested, OwnsItsRegions, VmemRequestsValid,
       MoveTouchesCommitted
  <2>2. CASE SizesInv /\ PlacementInv /\ RegionsInv /\ DataInv
    <3>1. PointersAligned /\ MoveTouchesCommitted
      BY <2>2, PointersAreAligned, MoveTouches
    <3>2. DataIntact
      BY <2>2 DEF DataInv, Intact, DataIntact
    <3>3. /\ BlocksDisjoint /\ BlocksWithinUsed /\ SizesNested
          /\ OwnsItsRegions /\ VmemRequestsValid
      BY <2>2 DEF SizesInv, PlacementInv, RegionsInv
    <3> QED
      BY <3>1, <3>2, <3>3
  <2> QED
    BY <2>1, <2>2 DEF Kept
<1> QED
  BY <1>1, KeptAlways, PTL

\* A step of the traced allocator is one of the allocator, or it ends the
\* program and does nothing else.
LEMMA TracedStepOrEnd ==
    ASSUME [TracedNext]_tracedVars
    PROVE  [Next]_vars \/ (Stopped' /\ status' = status)
<1>1. \A label : StopAt(label) /\ label \in {"abort", "fault"}
                  => Stopped' /\ status' = status
  BY DEF StopAt, Stopped
<1>2. CASE \/ UNCHANGED tracedVars
           \/ \E size \in InitialSizes : TracedCreate(size)
           \/ \E b \in Blocks, size \in Sizes, alignment \in Alignments :
                TracedAllocate(b, size, alignment)
           \/ TracedReserve \/ TracedUndoReserve
  BY <1>2 DEF tracedVars, TracedCreate, TracedAllocate, TracedReserve,
              TracedUndoReserve, Next
<1>3. CASE TracedDestroy \/ TracedReleaseOld
  BY <1>1, <1>3 DEF TracedDestroy, TracedReleaseOld, DestroyRefused,
                    StopForRegion, Next
<1>4. CASE \E b \in Blocks :
             TracedFree(b) \/ FreeNull(b) \/ TracedReallocateToZero(b)
  BY <1>1, <1>4 DEF TracedFree, FreeNull, TracedReallocateToZero, Next
<1>5. CASE \E b \in Blocks, size \in Sizes : TracedReallocate(b, size)
  BY <1>1, <1>5 DEF TracedReallocate, Next
<1>6. CASE TracedCommitBuffer \/ TracedCommitMore
  BY <1>1, <1>6 DEF TracedCommitBuffer, TracedCommitMore, CommitRefused,
                    StopForRegion, Next
<1>7. CASE TracedAllocateReturn \/ TracedReallocateReturn
  BY <1>1, <1>7 DEF TracedAllocateReturn, TracedReallocateReturn, Next
<1>8. CASE \/ MoveContents
           \/ ReallocateFault
           \/ \E b \in Blocks : ClientWrite(b) \/ ClientRefresh(b)
  BY <1>8 DEF Next
<1> QED
  BY <1>2, <1>3, <1>4, <1>5, <1>6, <1>7, <1>8 DEF TracedNext

\* In a state that is not stopped the allocator's steps refine the arena's, and
\* the end of the program destroys it.
LEMMA TracedStepRefines ==
    ASSUME Kept, SeesKnown, SeesKnown', [TracedNext]_tracedVars
    PROVE  [Abstract!Next]_Abstract!arenaVars
<1>1. CASE Stopped
  <2>1. ~Created /\ ~Created' /\ status' = status
    BY <1>1, NoStepStopped DEF tracedVars, vars, Stopped, Created
  <2>2. \A c \in Blocks : Seen(c)' = Seen(c)
    BY <2>1 DEF Seen
  <2> QED
    BY <2>1, <2>2, StepHidden
<1>2. CASE ~Stopped /\ [Next]_vars
  BY <1>2, StepRefines DEF Kept
<1>3. CASE Stopped' /\ status' = status
  <2>1. ~Created'
    BY <1>3 DEF Stopped, Created
  <2>2. \A c \in Blocks : Seen(c)' = Abstract!NoBlock
    BY <2>1 DEF Seen, Abstract!NoBlock
  <2>3. CASE Created
    <3>1. [c \in Blocks |-> BlockContents(c)]'
            = [c \in Blocks |-> Abstract!NoBlock]
      BY <2>2 DEF SeesKnown
    <3> QED
      BY <1>3, <2>1, <2>3, <3>1 DEF Abstract!Next, Abstract!Destroy
  <2>4. CASE ~Created
    <3>1. \A c \in Blocks : Seen(c)' = Seen(c)
      BY <2>2, <2>4 DEF Seen, Abstract!NoBlock
    <3> QED
      BY <1>3, <2>1, <2>4, <3>1, StepHidden
  <2> QED
    BY <2>3, <2>4
<1> QED
  BY <1>1, <1>2, <1>3, TracedStepOrEnd

\* The debug build implements the abstract arena as well: whatever its tracing
\* finds or loses, it serves its clients as the arena does until it ends the
\* program, which is the end of the arena and of all its blocks.
THEOREM TracedImplements == TracedSpec => ImplementsArena
<1>1. Kept => SeesKnown
  <2>1. CASE Stopped
    BY <2>1 DEF Stopped, Created, SeesKnown, BlockContents, Seen, Abstract!NoBlock
  <2> QED
    BY <2>1, DataIsKnown DEF Kept
<1>2. Kept /\ SeesKnown /\ SeesKnown' /\ [TracedNext]_tracedVars
        => [Abstract!Next]_Abstract!arenaVars
  BY TracedStepRefines
<1>3. TracedInit => Abstract!Init
  BY InitRefines DEF TracedInit
<1> QED
  BY <1>1, <1>2, <1>3, KeptAlways, PTL
     DEF TracedSpec, ImplementsArena, Abstract!Spec

=============================================================================
