------------------------------- MODULE Array --------------------------------
(***************************************************************************)
(* The dynamic array of array.c and array.h, with one client.  The         *)
(* allocator behind struct w_alloc is what its users see of it: it fails,  *)
(* or returns a block of the size asked for that begins with what the old  *)
(* one held.  Sizes are those of SizeArith and wrap around.                *)
(*                                                                         *)
(* The client keeps to the array's preconditions: it only uses an array    *)
(* that was created, and pops from one that is not empty.                  *)
(***************************************************************************)
EXTENDS SizeArith, Sequences

CONSTANTS
    ElementSize,    \* sizeof(type)
    Values,         \* of the elements
    Junk,           \* of an element that was never set
    Lengths,        \* capacities and lengths that the client asks for
    Asserts         \* is W_ASSERT compiled in?

ASSUME ArrayAssumption ==
    /\ ElementSize \in 1 .. SizeMax
    /\ Junk \notin Values
    /\ Lengths \subseteq Size
    /\ Asserts \in BOOLEAN

Elements == Values \union {Junk}

NoElements == [i \in {} |-> Junk]

VARIABLES
    created,
    aborted,    \* by an assertion
    block,      \* the size of array->buf in bytes, as the allocator knows it
    buf,        \* the elements that fit in the block
    capacity,
    len,
    popped,     \* what the last pop returned
    call,       \* the last call, with its arguments
    status      \* of the last call

vars == <<created, aborted, block, buf, capacity, len, popped, call, status>>

-----------------------------------------------------------------------------
(* Growing                                                                 *)

\* WP_ARRAY_GET_MAX_CAP.
MaxCapacity == SizeMax \div ElementSize

\* An assertion of the code fails.
Abort ==
    /\ aborted' = TRUE
    /\ UNCHANGED <<created, block, buf, capacity, len, popped, call, status>>

\* A call returns a failing status and leaves the array alone.
Fail(op, error) ==
    /\ call' = op
    /\ status' = error
    /\ UNCHANGED <<created, aborted, block, buf, capacity, len, popped>>

\* Mutant: the array is doubled, whatever was asked for.
Mutant_Requested(n) == Wrap(capacity * 2)

\* wp_array_grow_capacity(): what is asked for, and at least the double.
Requested(n) ==
    LET double == Wrap(capacity * 2) IN IF double > n THEN double ELSE n

\* Mutant: the size of the block is left to wrap.
Mutant_GrowthFits(n) == ~IsRoundUpPow2Wrapping(Requested(n))

\* Its assertions.
GrowthFits(n) ==
    /\ ~IsRoundUpPow2Wrapping(Requested(n))
    /\ ~IsMulWrapping(RoundUpPow2(Requested(n)), ElementSize)

\* The elements in a block of some size that begins with the present ones.
Contents(size) ==
    [i \in 0 .. size \div ElementSize - 1 |->
        IF i \in DOMAIN buf THEN buf[i] ELSE Junk]

\* Elements with some set to new values.
Store(elements, values) ==
    [i \in DOMAIN elements |->
        IF i \in DOMAIN values THEN values[i] ELSE elements[i]]

\* wp_array_realloc() to at least n elements and, after a success, what its
\* callers do: they set the length to l, and the elements of values.
Reallocate(op, n, l, values) ==
    \E c \in w_size_round_up_pow2(Requested(n)) :
      IF Asserts /\ ~(n <= MaxCapacity /\ GrowthFits(n) /\ c > capacity)
        THEN Abort
        ELSE \/ Fail(op, "W_ERROR_ALLOC_FAILED")
             \/ /\ created' = TRUE
                /\ block' = Wrap(ElementSize * c)
                /\ capacity' = c
                /\ buf' = Store(Contents(block'), values)
                /\ len' = l
                /\ call' = op
                /\ status' = "W_SUCCESS"
                /\ UNCHANGED <<aborted, popped>>

-----------------------------------------------------------------------------
(* Operations                                                              *)

Init ==
    /\ created = FALSE
    /\ aborted = FALSE
    /\ block = 0
    /\ buf = NoElements
    /\ capacity = 0
    /\ len = 0
    /\ popped = Junk
    /\ call = <<"none">>
    /\ status = "W_SUCCESS"

Ready == created /\ ~aborted

wp_array_create(n) ==
    LET op == <<"create", n>>
    IN  /\ ~created /\ ~aborted
        /\ IF n > MaxCapacity
             THEN Fail(op, "W_ERROR_MAX_SIZE_EXCEEDED")
             ELSE Reallocate(op, n, 0, NoElements)

\* It returns nothing.
wp_array_destroy ==
    /\ Ready
    /\ created' = FALSE
    /\ block' = 0
    /\ buf' = NoElements
    /\ capacity' = 0
    /\ len' = 0
    /\ call' = <<"destroy">>
    /\ status' = "W_SUCCESS"
    /\ UNCHANGED <<aborted, popped>>

\* Mutant: only the length itself is tested.
Mutant_TooLarge(n) == n > MaxCapacity

\* The test of wp_array_resize() on the new length.
TooLarge(n) == n > MaxCapacity \/ len > MaxCapacity - n

\* wp_array_resize() to n elements, then the values its callers set.
wp_array_resize(op, n, values) ==
    IF n <= capacity
      THEN /\ buf' = Store(buf, values)
           /\ len' = n
           /\ call' = op
           /\ status' = "W_SUCCESS"
           /\ UNCHANGED <<created, aborted, block, capacity, popped>>
      ELSE IF TooLarge(n)
        THEN Fail(op, "W_ERROR_MAX_SIZE_EXCEEDED")
        ELSE Reallocate(op, n, n, values)

Resize(n) ==
    /\ Ready
    /\ wp_array_resize(<<"resize", n>>, n, NoElements)

\* Mutant: the new element is stored at the new length.
Mutant_Push(v) ==
    /\ Ready
    /\ wp_array_resize(<<"push", v>>, Wrap(len + 1), [i \in {len + 1} |-> v])

Push(v) ==
    /\ Ready
    /\ IF Asserts /\ IsAddWrapping(len, 1)
         THEN Abort
         ELSE wp_array_resize(<<"push", v>>, Wrap(len + 1), [i \in {len} |-> v])

Pop ==
    /\ Ready
    /\ len > 0
    /\ len' = len - 1
    /\ popped' = buf[len - 1]
    /\ call' = <<"pop">>
    /\ status' = "W_SUCCESS"
    /\ UNCHANGED <<created, aborted, block, buf, capacity>>

Extend(n) ==
    /\ Ready
    /\ IF Asserts /\ IsAddWrapping(len, n)
         THEN Abort
         ELSE wp_array_resize(<<"extend", n>>, Wrap(len + n), NoElements)

\* The client sets an element through array.buf or the slice of an extension.
ClientWrite(i, v) ==
    /\ Ready
    /\ i < len
    /\ buf' = [buf EXCEPT ![i] = v]
    /\ UNCHANGED <<created, aborted, block, capacity, len, popped, call, status>>

Next ==
    \/ \E n \in Lengths : wp_array_create(n) \/ Resize(n) \/ Extend(n)
    \/ \E v \in Values : Push(v)
    \/ Pop
    \/ wp_array_destroy
    \/ \E i \in DOMAIN buf, v \in Values : ClientWrite(i, v)

Spec == Init /\ [][Next]_vars

-----------------------------------------------------------------------------
(* Properties                                                              *)

Errors == {"W_ERROR_ALLOC_FAILED", "W_ERROR_MAX_SIZE_EXCEEDED"}

\* Types, and a length within the capacity.
TypeOK ==
    /\ created \in BOOLEAN
    /\ aborted \in BOOLEAN
    /\ block \in Size
    /\ buf \in [0 .. block \div ElementSize - 1 -> Elements]
    /\ capacity \in Size
    /\ len \in 0 .. capacity
    /\ popped \in Elements
    /\ status \in Errors \union {"W_SUCCESS"}

\* The block has room for exactly the capacity, however large the lengths asked
\* for: no size wrapped around on its way to the allocator, and the size given
\* back when the block is grown or freed is the one it was allocated with.  The
\* capacity of an array is a power of two.
BlockHoldsCapacity ==
    /\ block = ElementSize * capacity
    /\ created <=> capacity \in Powers

\* A push never fails an assertion: where doubling the capacity would wrap, it
\* is refused by a test that seems to be about something else (array.c:183).
PushNeverAborts == [][\A v \in Values : Push(v) => ~aborted']_vars

Items == [i \in 1 .. len |-> buf[i - 1]]

\* An array is a stack: what is pushed or written stays until popped or cut off,
\* through every move of the block, and a call that fails changes nothing.
S == INSTANCE Stack WITH
        open <- created, items <- Items, Values <- Elements

ImplementsStack == S!Spec

=============================================================================
