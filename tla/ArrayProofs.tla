---------------------------- MODULE ArrayProofs -----------------------------
(***************************************************************************)
(* Theorems about Array in a debug build, for every width of size_t, every *)
(* size of an element and every length that a client asks for.             *)
(***************************************************************************)
EXTENDS Array, SequenceTheorems, TLAPS

-----------------------------------------------------------------------------
(* Sizes                                                                   *)

\* The power of two at or below x is the only one with x below its double.
LEMMA RoundDown ==
    ASSUME NEW x \in 1 .. SizeMax
    PROVE  /\ RoundDownPow2(x) \in Powers
           /\ RoundDownPow2(x) <= x
           /\ x < 2 * RoundDownPow2(x)
           /\ \A p \in Powers : p <= x /\ x < 2 * p => RoundDownPow2(x) = p
<1> DEFINE d == RoundDownPow2(x)
<1>1. d = CHOOSE p \in Powers : p <= x /\ x < 2 * p
  BY DEF RoundDownPow2
<1>2. d \in Powers /\ d <= x /\ x < 2 * d
  BY <1>1, SizeAssumption
<1>3. ASSUME NEW p \in Powers, p <= x, x < 2 * p
      PROVE  d = p
  <2>1. p \in Int /\ d \in Int
    BY <1>2, SizeAssumption
  <2>2. ~ (p < d) /\ ~ (d < p)
    BY <1>2, <1>3, <2>1, SizeAssumption
  <2> QED
    BY <2>1, <2>2
<1> QED
  BY <1>2, <1>3

\* A power of two is its own rounding.
LEMMA RoundUpPower ==
    ASSUME NEW p \in Powers
    PROVE  RoundUpPow2(p) = p /\ ~IsRoundUpPow2Wrapping(p)
<1>1. p \in 1 .. SizeMax /\ SizeMax \in Nat
  BY SizeAssumption
<1>2. CASE p = 1
  BY <1>2 DEF RoundUpPow2, IsRoundUpPow2Wrapping
<1>3. CASE p # 1
  <2> DEFINE x == p - 1
             d == RoundDownPow2(x)
  <2>1. x \in 1 .. SizeMax
    BY <1>1, <1>3
  <2>2. d \in Powers /\ d <= x /\ x < 2 * d
    BY <2>1, RoundDown
  <2>3. d \in 1 .. SizeMax /\ d < p
    <3>1. d \in 1 .. SizeMax
      BY <2>2, SizeAssumption
    <3> QED
      BY <2>2, <3>1, <1>1
  <2>4. 2 * d <= p
    BY <2>2, <2>3, SizeAssumption
  <2>5. 2 * d = p
    BY <2>2, <2>3, <2>4, <1>1
  <2> QED
    BY <2>5, <1>1, <1>3 DEF RoundUpPow2, IsRoundUpPow2Wrapping
<1> QED
  BY <1>2, <1>3

\* Rounding up, where it does not wrap.
LEMMA RoundUp ==
    ASSUME NEW x \in 1 .. SizeMax, ~IsRoundUpPow2Wrapping(x)
    PROVE  RoundUpPow2(x) \in Powers /\ x <= RoundUpPow2(x)
<1>1. CASE x \in Powers
  BY <1>1, RoundUpPower
<1>2. CASE x \notin Powers
  <2> DEFINE d == RoundDownPow2(x)
             y == x - 1
  <2>1. d \in Powers /\ d <= x /\ x < 2 * d
    BY RoundDown
  <2>2. d \in 1 .. SizeMax /\ SizeMax \in Nat /\ d # x
    BY <2>1, <1>2, SizeAssumption
  <2>3. d <= SizeMax \div 2
    BY <1>2, <2>2 DEF IsRoundUpPow2Wrapping
  <2>4. 2 * d <= SizeMax
    BY <2>2, <2>3
  <2>5. 2 * d \in Powers
    BY <2>1, <2>2, <2>4, SizeAssumption
  <2>6. y \in 1 .. SizeMax /\ d <= y /\ y < 2 * d
    BY <2>1, <2>2
  <2>7. RoundDownPow2(y) = d
    BY <2>1, <2>6, RoundDown
  <2>8. RoundUpPow2(x) = 2 * d
    BY <2>6, <2>7 DEF RoundUpPow2
  <2> QED
    BY <2>1, <2>2, <2>5, <2>8
<1> QED
  BY <1>1, <1>2

\* A product that does not wrap.
LEMMA Product ==
    ASSUME NEW c \in 0 .. SizeMax, ~IsMulWrapping(c, ElementSize)
    PROVE  /\ ElementSize * c \in Size
           /\ Wrap(ElementSize * c) = ElementSize * c
           /\ (ElementSize * c) \div ElementSize = c
<1>1. /\ SizeMax \in Nat /\ ElementSize \in Nat /\ ElementSize > 0
      /\ c \in Nat
  BY SizeAssumption, ArrayAssumption
<1>2. c <= SizeMax \div ElementSize
  BY <1>1 DEF IsMulWrapping
<1>3. ElementSize * (SizeMax \div ElementSize) <= SizeMax
  BY <1>1
<1>4. ElementSize * c <= ElementSize * (SizeMax \div ElementSize)
  BY <1>1, <1>2
<1>5. ElementSize * c \in Nat
  BY <1>1
<1>6. ElementSize * c \in Size
  BY <1>1, <1>3, <1>4, <1>5 DEF Size
<1>7. Wrap(ElementSize * c) = ElementSize * c
  BY <1>1, <1>6 DEF Wrap, Size
<1>8. (ElementSize * c) \div ElementSize = c
  BY <1>1
<1> QED
  BY <1>6, <1>7, <1>8

-----------------------------------------------------------------------------
(* The invariant                                                           *)

\* An array that does not exist has no block.
Inv ==
    /\ TypeOK
    /\ BlockHoldsCapacity
    /\ ~created => capacity = 0

\* What a reallocation to n elements asks for is a capacity with room for them,
\* whose size in bytes does not wrap.
LEMMA Growth ==
    ASSUME Inv, NEW n \in Size, GrowthFits(n),
           NEW c \in w_size_round_up_pow2(Requested(n)), c > capacity
    PROVE  /\ c \in Powers
           /\ n <= c
           /\ ElementSize * c \in Size
           /\ Wrap(ElementSize * c) = ElementSize * c
           /\ (ElementSize * c) \div ElementSize = c
<1> DEFINE r == Requested(n)
<1>1. SizeMax \in Nat /\ SizeMax > 1 /\ capacity \in Nat /\ n \in Nat
  BY SizeAssumption DEF Inv, TypeOK, Size
<1>2. Wrap(capacity * 2) \in 0 .. SizeMax
  BY <1>1 DEF Wrap
<1>3. r \in 0 .. SizeMax /\ n <= r
  BY <1>1, <1>2 DEF Requested, Size
<1>4. ~IsRoundUpPow2Wrapping(r) /\ ~IsMulWrapping(RoundUpPow2(r), ElementSize)
  BY DEF GrowthFits
<1>5. c \in Powers /\ n <= c /\ ~IsMulWrapping(c, ElementSize)
  <2>1. CASE r = 0
    <3>1. c \in {0, 1} /\ n = 0
      BY <2>1, <1>1, <1>3 DEF w_size_round_up_pow2
    <3>2. c = 1
      BY <3>1, <1>1
    <3>3. ElementSize \in 1 .. SizeMax /\ 1 <= SizeMax \div ElementSize
      BY <1>1, ArrayAssumption
    <3> QED
      BY <3>1, <3>2, <3>3, <1>1, SizeAssumption DEF IsMulWrapping
  <2>2. CASE r # 0
    <3>1. c = RoundUpPow2(r)
      BY <2>2, <1>4 DEF w_size_round_up_pow2
    <3>2. r \in 1 .. SizeMax
      BY <2>2, <1>1, <1>3
    <3>3. c \in Powers /\ r <= c
      BY <3>1, <3>2, <1>4, RoundUp
    <3>4. c \in 1 .. SizeMax
      BY <3>3, SizeAssumption
    <3> QED
      BY <3>1, <3>2, <3>3, <3>4, <1>1, <1>3, <1>4
  <2> QED
    BY <2>1, <2>2
<1>6. c \in 0 .. SizeMax
  <2>1. c \in 1 .. SizeMax
    BY <1>5, SizeAssumption
  <2> QED
    BY <2>1
<1> QED
  BY <1>5, <1>6, Product

LEMMA ContentsType ==
    ASSUME Inv, NEW size \in Size
    PROVE  Contents(size) \in [0 .. size \div ElementSize - 1 -> Elements]
<1>1. DOMAIN buf = 0 .. block \div ElementSize - 1
  BY DEF Inv, TypeOK
<1>2. \A i \in DOMAIN buf : buf[i] \in Elements
  BY DEF Inv, TypeOK
<1> QED
  BY <1>2 DEF Contents, Elements

\* The elements of an array are those of its capacity.
LEMMA BufType ==
    ASSUME Inv
    PROVE  buf \in [0 .. capacity - 1 -> Elements]
<1>1. CASE created
  <2>1. capacity \in Powers /\ block = ElementSize * capacity
    BY <1>1 DEF Inv, BlockHoldsCapacity
  <2>2. capacity \in Nat /\ ElementSize \in Nat /\ ElementSize > 0
    BY SizeAssumption, ArrayAssumption DEF Inv, TypeOK, Size
  <2>3. block \div ElementSize = capacity
    BY <2>1, <2>2
  <2> QED
    BY <2>3 DEF Inv, TypeOK
<1>2. CASE ~created
  <2>1. capacity = 0 /\ block = ElementSize * capacity
    BY <1>2 DEF Inv, BlockHoldsCapacity
  <2>2. ElementSize \in Nat /\ ElementSize > 0 /\ SizeMax \in Nat
    BY SizeAssumption, ArrayAssumption
  <2>3. block \div ElementSize = capacity
    BY <2>1, <2>2
  <2> QED
    BY <2>3 DEF Inv, TypeOK
<1> QED
  BY <1>1, <1>2

\* The invariant after a reallocation.
LEMMA AfterGrowth ==
    ASSUME Inv, NEW n \in Size, GrowthFits(n),
           NEW c \in w_size_round_up_pow2(Requested(n)), c > capacity,
           NEW l \in 0 .. n, NEW b,
           b \in [DOMAIN Contents(Wrap(ElementSize * c)) -> Elements],
           created' = TRUE, block' = Wrap(ElementSize * c), capacity' = c,
           len' = l, buf' = b, status' = "W_SUCCESS",
           UNCHANGED <<aborted, popped>>
    PROVE  Inv'
<1>1. /\ c \in Powers /\ n <= c /\ ElementSize * c \in Size
      /\ block' = ElementSize * c
      /\ (ElementSize * c) \div ElementSize = c
  BY Growth
<1>2. c \in 1 .. SizeMax /\ SizeMax \in Nat
  BY <1>1, SizeAssumption
<1>3. buf' \in [0 .. block' \div ElementSize - 1 -> Elements]
  BY <1>1 DEF Contents
<1>4. c \in Size /\ l \in 0 .. c
  BY <1>1, <1>2 DEF Size
<1>5. TypeOK'
  BY <1>1, <1>3, <1>4 DEF Inv, TypeOK
<1>6. BlockHoldsCapacity'
  BY <1>1 DEF BlockHoldsCapacity
<1> QED
  BY <1>5, <1>6 DEF Inv

\* The invariant after a call that left the block alone.
LEMMA AfterNoGrowth ==
    ASSUME Inv, NEW l \in 0 .. capacity, NEW b,
           b \in [0 .. capacity - 1 -> Elements],
           len' = l, buf' = b, status' \in Errors \union {"W_SUCCESS"},
           popped' \in Elements,
           UNCHANGED <<created, aborted, block, capacity>>
    PROVE  Inv'
<1>1. DOMAIN buf = 0 .. capacity - 1
  BY BufType
<1>2. DOMAIN buf = 0 .. block \div ElementSize - 1
  BY DEF Inv, TypeOK
<1>3. buf' \in [0 .. block' \div ElementSize - 1 -> Elements]
  BY <1>1, <1>2
<1>4. TypeOK'
  BY <1>3 DEF Inv, TypeOK
<1>5. BlockHoldsCapacity'
  BY DEF Inv, BlockHoldsCapacity
<1> QED
  BY <1>4, <1>5 DEF Inv

\* The invariant after a failing call, and after an abort.
LEMMA AfterFail ==
    ASSUME Inv, NEW op, NEW error \in Errors, Fail(op, error) \/ Abort
    PROVE  Inv'
<1>1. /\ UNCHANGED <<created, block, buf, capacity, len, popped>>
      /\ aborted' \in BOOLEAN
      /\ status' \in Errors \union {"W_SUCCESS"}
  BY DEF Fail, Abort, Inv, TypeOK
<1>2. TypeOK'
  BY <1>1 DEF Inv, TypeOK
<1>3. BlockHoldsCapacity'
  BY <1>1 DEF Inv, BlockHoldsCapacity
<1> QED
  BY <1>1, <1>2, <1>3 DEF Inv

\* Storing elements keeps the type of what they are stored in.
LEMMA StoreType ==
    ASSUME NEW D, NEW b \in [D -> Elements], NEW values,
           \A i \in DOMAIN values : values[i] \in Elements
    PROVE  Store(b, values) \in [D -> Elements]
BY DEF Store

\* The outcomes of a reallocation.
LEMMA ReallocateStep ==
    ASSUME Asserts, Inv, NEW op, NEW n \in Size, NEW l \in 0 .. n, NEW values,
           \A i \in DOMAIN values : values[i] \in Elements,
           Reallocate(op, n, l, values)
    PROVE  Inv'
<1>1. PICK c \in w_size_round_up_pow2(Requested(n)) :
         \/ Abort
         \/ Fail(op, "W_ERROR_ALLOC_FAILED")
         \/ /\ GrowthFits(n) /\ c > capacity
            /\ created' = TRUE
            /\ block' = Wrap(ElementSize * c)
            /\ capacity' = c
            /\ buf' = Store(Contents(block'), values)
            /\ len' = l
            /\ status' = "W_SUCCESS"
            /\ UNCHANGED <<aborted, popped>>
  BY DEF Reallocate
<1>2. CASE Abort
  BY <1>2, AfterFail DEF Errors
<1>3. CASE Fail(op, "W_ERROR_ALLOC_FAILED")
  BY <1>3, AfterFail DEF Errors
<1>4. CASE /\ GrowthFits(n) /\ c > capacity
           /\ created' = TRUE
           /\ block' = Wrap(ElementSize * c)
           /\ capacity' = c
           /\ buf' = Store(Contents(block'), values)
           /\ len' = l
           /\ status' = "W_SUCCESS"
           /\ UNCHANGED <<aborted, popped>>
  <2> DEFINE old == Contents(Wrap(ElementSize * c))
             b == Store(old, values)
  <2>1. Wrap(ElementSize * c) \in Size
    BY <1>4, Growth
  <2>2. old \in [DOMAIN old -> Elements]
    BY <2>1, ContentsType
  <2> HIDE DEF old
  <2>3. b \in [DOMAIN old -> Elements]
    BY <2>2, StoreType
  <2>4. buf' = b
    BY <1>4 DEF old
  <2> HIDE DEF b
  <2> QED
    BY <1>4, <2>3, <2>4, AfterGrowth DEF old
<1> QED
  BY <1>1, <1>2, <1>3, <1>4

LEMMA CreateStep ==
    ASSUME Asserts, Inv, NEW n \in Lengths, wp_array_create(n)
    PROVE  Inv'
<1>1. n \in Size /\ 0 \in 0 .. n
  BY ArrayAssumption, SizeAssumption DEF Size
<1>2. CASE n > MaxCapacity
  BY <1>2, AfterFail DEF wp_array_create, Errors
<1>3. CASE ~(n > MaxCapacity)
  <2>1. Reallocate(<<"create", n>>, n, 0, NoElements)
    BY <1>3 DEF wp_array_create
  <2> QED
    BY <1>1, <2>1, ReallocateStep DEF NoElements
<1> QED
  BY <1>2, <1>3

\* The branches of wp_array_resize().
LEMMA ResizeStep ==
    ASSUME Asserts, Inv, NEW op, NEW n \in Size, NEW values,
           \A i \in DOMAIN values : values[i] \in Elements,
           wp_array_resize(op, n, values)
    PROVE  Inv'
<1>1. n \in Nat /\ capacity \in Nat /\ n \in 0 .. n
  BY SizeAssumption DEF Inv, TypeOK, Size
<1>2. CASE n <= capacity
  <2>1. n \in 0 .. capacity /\ popped \in Elements
    BY <1>1, <1>2 DEF Inv, TypeOK
  <2>2. /\ buf' = Store(buf, values) /\ len' = n /\ status' = "W_SUCCESS"
        /\ UNCHANGED <<created, aborted, block, capacity, popped>>
    BY <1>2 DEF wp_array_resize
  <2>3. Store(buf, values) \in [0 .. capacity - 1 -> Elements]
    BY BufType, StoreType
  <2> QED
    BY <2>1, <2>2, <2>3, AfterNoGrowth
<1>3. CASE ~(n <= capacity) /\ TooLarge(n)
  <2>1. Fail(op, "W_ERROR_MAX_SIZE_EXCEEDED")
    BY <1>3 DEF wp_array_resize
  <2> QED
    BY <2>1, AfterFail DEF Errors
<1>4. CASE ~(n <= capacity) /\ ~TooLarge(n)
  <2>1. Reallocate(op, n, n, values)
    BY <1>4 DEF wp_array_resize
  <2> QED
    BY <1>1, <2>1, ReallocateStep
<1> QED
  BY <1>2, <1>3, <1>4

LEMMA PushStep ==
    ASSUME Asserts, Inv, NEW v \in Values, Push(v)
    PROVE  Inv'
<1>1. CASE Abort
  BY <1>1, AfterFail DEF Errors
<1>2. CASE wp_array_resize(<<"push", v>>, Wrap(len + 1), [i \in {len} |-> v])
  <2>1. Wrap(len + 1) \in Size
    BY SizeAssumption DEF Inv, TypeOK, Size, Wrap
  <2>2. \A i \in DOMAIN [j \in {len} |-> v] : [j \in {len} |-> v][i] \in Elements
    BY DEF Elements
  <2> QED
    BY <1>2, <2>1, <2>2, ResizeStep
<1> QED
  BY <1>1, <1>2 DEF Push

LEMMA NextInv ==
    ASSUME Asserts, Inv, [Next]_vars
    PROVE  Inv'
<1>1. ASSUME NEW n \in Lengths, wp_array_create(n)
      PROVE  Inv'
  BY <1>1, CreateStep
<1>2. ASSUME NEW n \in Lengths, Resize(n)
      PROVE  Inv'
  <2>1. n \in Size
    BY ArrayAssumption
  <2> QED
    BY <1>2, <2>1, ResizeStep DEF Resize, NoElements
<1>3. ASSUME NEW n \in Lengths, Extend(n)
      PROVE  Inv'
  <2>1. Wrap(len + n) \in Size
    BY SizeAssumption, ArrayAssumption DEF Inv, TypeOK, Size, Wrap
  <2>2. CASE Abort
    BY <2>2, AfterFail DEF Errors
  <2>3. CASE ~Abort
    BY <1>3, <2>1, <2>3, ResizeStep DEF Extend, NoElements
  <2> QED
    BY <2>2, <2>3
<1>4. ASSUME NEW v \in Values, Push(v)
      PROVE  Inv'
  BY <1>4, PushStep
<1>5. CASE Pop
  <2>1. len \in Nat /\ capacity \in Nat /\ len \in 0 .. capacity
    BY SizeAssumption DEF Inv, TypeOK, Size
  <2>2. buf \in [0 .. capacity - 1 -> Elements]
    BY BufType
  <2>3. len - 1 \in 0 .. capacity /\ buf[len - 1] \in Elements
    BY <1>5, <2>1, <2>2 DEF Pop
  <2>4. /\ len' = len - 1 /\ buf' = buf /\ popped' \in Elements
        /\ status' \in Errors \union {"W_SUCCESS"}
        /\ UNCHANGED <<created, aborted, block, capacity>>
    BY <1>5, <2>3 DEF Pop
  <2> QED
    BY <2>2, <2>3, <2>4, AfterNoGrowth
<1>6. CASE wp_array_destroy
  <2>1. SizeMax \in Nat /\ ElementSize \in 1 .. SizeMax /\ 0 \notin Powers
    BY SizeAssumption, ArrayAssumption
  <2>2. 0 \div ElementSize = 0 /\ ElementSize * 0 = 0
    BY <2>1
  <2>3. NoElements \in [0 .. 0 - 1 -> Elements]
    <3>1. 0 .. 0 - 1 = {}
      OBVIOUS
    <3> QED
      BY <3>1 DEF NoElements
  <2>4. /\ created' = FALSE /\ block' = 0 /\ capacity' = 0 /\ len' = 0
        /\ buf' = NoElements /\ status' = "W_SUCCESS" /\ UNCHANGED <<aborted, popped>>
    BY <1>6 DEF wp_array_destroy
  <2>5. TypeOK'
    <3>1. buf' \in [0 .. block' \div ElementSize - 1 -> Elements]
      BY <2>2, <2>3, <2>4
    <3>2. 0 \in Size /\ 0 \in 0 .. 0
      BY <2>1 DEF Size
    <3> QED
      BY <2>4, <3>1, <3>2 DEF Inv, TypeOK
  <2>6. BlockHoldsCapacity'
    BY <2>1, <2>2, <2>4 DEF BlockHoldsCapacity
  <2> QED
    BY <2>4, <2>5, <2>6 DEF Inv
<1>7. ASSUME NEW i \in DOMAIN buf, NEW v \in Values, ClientWrite(i, v)
      PROVE  Inv'
  <2>1. [buf EXCEPT ![i] = v] \in [0 .. capacity - 1 -> Elements]
    BY BufType DEF Elements
  <2>2. len \in 0 .. capacity
    BY DEF Inv, TypeOK
  <2>3. /\ len' = len /\ buf' = [buf EXCEPT ![i] = v] /\ popped' \in Elements
        /\ status' \in Errors \union {"W_SUCCESS"}
        /\ UNCHANGED <<created, aborted, block, capacity>>
    BY <1>7 DEF ClientWrite, Inv, TypeOK
  <2> QED
    BY <2>1, <2>2, <2>3, AfterNoGrowth
<1>8. CASE UNCHANGED vars
  BY <1>8 DEF vars, Inv, TypeOK, BlockHoldsCapacity
<1> QED
  BY <1>1, <1>2, <1>3, <1>4, <1>5, <1>6, <1>7, <1>8 DEF Next

LEMMA InvAlways ==
    ASSUME Asserts
    PROVE  Spec => []Inv
<1>1. Init => Inv
  <2> SUFFICES ASSUME Init
               PROVE  Inv
    OBVIOUS
  <2>1. SizeMax \in Nat /\ ElementSize \in 1 .. SizeMax /\ 0 \notin Powers
    BY SizeAssumption, ArrayAssumption
  <2>2. 0 \div ElementSize = 0 /\ ElementSize * 0 = 0
    BY <2>1
  <2>3. NoElements \in [0 .. 0 - 1 -> Elements]
    <3>1. 0 .. 0 - 1 = {}
      OBVIOUS
    <3> QED
      BY <3>1 DEF NoElements
  <2>4. TypeOK
    <3>1. buf \in [0 .. block \div ElementSize - 1 -> Elements]
      BY <2>2, <2>3 DEF Init
    <3>2. 0 \in Size /\ 0 \in 0 .. 0 /\ Junk \in Elements
      BY <2>1 DEF Size, Elements
    <3> QED
      BY <3>1, <3>2 DEF Init, TypeOK
  <2>5. BlockHoldsCapacity
    BY <2>1, <2>2 DEF Init, BlockHoldsCapacity
  <2> QED
    BY <2>4, <2>5 DEF Init, Inv
<1>2. Inv /\ [Next]_vars => Inv'
  BY NextInv
<1> QED
  BY <1>1, <1>2, PTL DEF Spec

\* Every variable keeps its type, and the length never exceeds the capacity.
THEOREM TypeCorrect ==
    ASSUME Asserts
    PROVE  Spec => []TypeOK
<1>1. Inv => TypeOK
  BY DEF Inv
<1> QED
  BY <1>1, InvAlways, PTL

\* The block of an array has room for exactly its capacity, which is a power of
\* two: no size wraps around, for any lengths asked for.
THEOREM BlockHoldsCapacityAlways ==
    ASSUME Asserts
    PROVE  Spec => []BlockHoldsCapacity
<1>1. Inv => BlockHoldsCapacity
  BY DEF Inv
<1> QED
  BY <1>1, InvAlways, PTL

-----------------------------------------------------------------------------
(* Pushes                                                                  *)

\* One more element than there are is a size.
LEMMA OneMore ==
    ASSUME Inv, Ready
    PROVE  /\ capacity \in Powers /\ capacity \in 1 .. SizeMax
           /\ len \in 0 .. capacity
           /\ len + 1 \in Size
           /\ Wrap(len + 1) = len + 1
           /\ ~IsAddWrapping(len, 1)
<1>1. capacity \in Powers /\ len \in 0 .. capacity
  BY DEF Inv, TypeOK, BlockHoldsCapacity, Ready
<1>2. SizeMax \in Nat /\ SizeMax > 1
  BY SizeAssumption
<1>3. capacity \in 1 .. SizeMax
  BY <1>1, SizeAssumption
<1>4. 2 * capacity <= SizeMax + 1
  <2>1. CASE 2 * capacity \in Powers
    <3>1. 2 * capacity \in 1 .. SizeMax
      BY <2>1, SizeAssumption
    <3> QED
      BY <3>1, <1>2
  <2>2. CASE 2 * capacity = SizeMax + 1
    BY <2>2, <1>2
  <2> QED
    BY <1>1, <2>1, <2>2, SizeAssumption
<1>5. len + 1 \in 0 .. SizeMax
  BY <1>1, <1>2, <1>3, <1>4
<1>6. Wrap(len + 1) = len + 1
  BY <1>2, <1>5 DEF Wrap
<1>7. ~IsAddWrapping(len, 1)
  BY <1>1, <1>2, <1>3, <1>5 DEF IsAddWrapping
<1> QED
  BY <1>1, <1>3, <1>5, <1>6, <1>7 DEF Size

\* A full array that may grow is doubled.
LEMMA Doubles ==
    ASSUME Inv, Ready, ~(len + 1 <= capacity), ~TooLarge(len + 1)
    PROVE  /\ len + 1 <= MaxCapacity
           /\ GrowthFits(len + 1)
           /\ w_size_round_up_pow2(Requested(len + 1)) = {2 * capacity}
           /\ 2 * capacity > capacity
<1>1. /\ capacity \in Powers /\ capacity \in 1 .. SizeMax /\ len \in 0 .. capacity
      /\ SizeMax \in Nat /\ ElementSize \in 1 .. SizeMax
  BY OneMore, SizeAssumption, ArrayAssumption
<1>2. MaxCapacity \in Nat /\ MaxCapacity <= SizeMax
  <2>1. MaxCapacity = SizeMax \div ElementSize
    BY DEF MaxCapacity
  <2> QED
    BY <1>1, <2>1
<1>3. len = capacity
  BY <1>1
<1>4. /\ capacity + 1 <= MaxCapacity
      /\ capacity <= MaxCapacity - (capacity + 1)
  BY <1>1, <1>2, <1>3 DEF TooLarge
<1>5. 2 * capacity \in 1 .. SizeMax /\ 2 * capacity <= MaxCapacity
  BY <1>1, <1>2, <1>4
<1>6. 2 * capacity \in Powers
  BY <1>1, <1>5, SizeAssumption
<1>7. Requested(len + 1) = 2 * capacity
  <2>1. Wrap(capacity * 2) = 2 * capacity
    BY <1>1, <1>5 DEF Wrap
  <2> QED
    BY <1>1, <1>3, <2>1 DEF Requested
<1>8. RoundUpPow2(2 * capacity) = 2 * capacity
      /\ ~IsRoundUpPow2Wrapping(2 * capacity)
  BY <1>6, RoundUpPower
<1>9. ~IsMulWrapping(2 * capacity, ElementSize)
  BY <1>1, <1>5 DEF IsMulWrapping, MaxCapacity
<1>10. GrowthFits(len + 1)
  BY <1>7, <1>8, <1>9 DEF GrowthFits
<1>11. w_size_round_up_pow2(Requested(len + 1)) = {2 * capacity}
  BY <1>1, <1>5, <1>7, <1>8 DEF w_size_round_up_pow2
<1> QED
  BY <1>1, <1>3, <1>4, <1>10, <1>11

LEMMA PushSafe ==
    ASSUME Inv, NEW v \in Values, Push(v)
    PROVE  ~aborted'
<1>1. Ready /\ ~aborted
  BY DEF Push, Ready
<1>2. Wrap(len + 1) = len + 1 /\ ~IsAddWrapping(len, 1)
  BY <1>1, OneMore
<1>3. CASE len + 1 <= capacity
  BY <1>1, <1>2, <1>3 DEF Push, wp_array_resize
<1>4. CASE ~(len + 1 <= capacity) /\ TooLarge(len + 1)
  BY <1>1, <1>2, <1>4 DEF Push, wp_array_resize, Fail
<1>5. CASE ~(len + 1 <= capacity) /\ ~TooLarge(len + 1)
  <2>1. /\ len + 1 <= MaxCapacity
        /\ GrowthFits(len + 1)
        /\ w_size_round_up_pow2(Requested(len + 1)) = {2 * capacity}
        /\ 2 * capacity > capacity
    BY <1>1, <1>5, Doubles
  <2> QED
    BY <1>1, <1>2, <1>5, <2>1 DEF Push, wp_array_resize, Reallocate, Fail
<1> QED
  BY <1>3, <1>4, <1>5

\* No push ever fails an assertion: an array is refused another element before
\* doubling its capacity wraps.
THEOREM PushNeverAbortsAlways ==
    ASSUME Asserts
    PROVE  Spec => PushNeverAborts
<1>1. Inv /\ [Next]_vars => [\A v \in Values : Push(v) => ~aborted']_vars
  BY PushSafe
<1> QED
  BY <1>1, InvAlways, PTL DEF Spec, PushNeverAborts

-----------------------------------------------------------------------------
(* The array is a stack                                                    *)

LEMMA FunctionIsSeq ==
    ASSUME NEW E, NEW n \in Nat, NEW f \in [1 .. n -> E]
    PROVE  f \in Seq(E) /\ Len(f) = n /\ DOMAIN f = 1 .. n
OBVIOUS

\* The items of an array are a sequence of as many as its length.
ItemsOK ==
    /\ len \in Nat /\ capacity \in Nat /\ len <= capacity
    /\ buf \in [0 .. capacity - 1 -> Elements]
    /\ Items \in [1 .. len -> Elements]
    /\ Items \in Seq(Elements)
    /\ Len(Items) = len
    /\ DOMAIN Items = 1 .. len
    /\ \A i \in 1 .. len : Items[i] = buf[i - 1]

LEMMA ItemsType == Inv => ItemsOK
<1> SUFFICES ASSUME Inv
             PROVE  ItemsOK
  OBVIOUS
<1>1. len \in Nat /\ capacity \in Nat /\ len <= capacity
  BY SizeAssumption DEF Inv, TypeOK, Size
<1>2. buf \in [0 .. capacity - 1 -> Elements]
  BY BufType
<1>3. ASSUME NEW i \in 1 .. len
      PROVE  buf[i - 1] \in Elements
  <2>1. i - 1 \in 0 .. capacity - 1
    BY <1>1
  <2> QED
    BY <1>2, <2>1
<1>4. Items \in [1 .. len -> Elements]
  BY <1>3 DEF Items
<1>5. Items \in Seq(Elements) /\ Len(Items) = len /\ DOMAIN Items = 1 .. len
  BY <1>1, <1>4, FunctionIsSeq
<1> QED
  BY <1>1, <1>2, <1>4, <1>5 DEF Items, ItemsOK

LEMMA ItemsTypeNext == Inv' => ItemsOK'
BY ItemsType, PTL

\* A failing call of Array is one of the stack.
LEMMA FailIsFail ==
    ASSUME NEW op \in S!Calls, NEW error \in Errors, Fail(op, error)
    PROVE  S!Fail
BY DEF Fail, S!Fail, Items

\* A call that leaves the first elements as they were changes the end only.
LEMMA OnlyTheEnd ==
    ASSUME Inv, Inv',
           \A i \in 0 .. len - 1 : i < len' => buf'[i] = buf[i]
    PROVE  S!ChangeLength(len')
<1>1. ItemsOK /\ ItemsOK'
  BY ItemsType, ItemsTypeNext
<1>2. ASSUME NEW i \in 1 .. len, i \in 1 .. len'
      PROVE  Items'[i] = Items[i]
  <2>1. i - 1 \in 0 .. len - 1 /\ i - 1 < len' /\ len \in Nat /\ len' \in Nat
    BY <1>1, <1>2 DEF ItemsOK
  <2> QED
    BY <1>1, <1>2, <2>1 DEF ItemsOK
<1> QED
  BY <1>1, <1>2 DEF ItemsOK, S!ChangeLength

\* A successful wp_array_resize(): the new values, and the old ones elsewhere.
Resized(op, n, values) ==
    /\ created' = created /\ popped' = popped
    /\ len' = n
    /\ call' = op /\ status' = "W_SUCCESS"
    /\ \A i \in 0 .. n - 1 :
         buf'[i] = IF i \in DOMAIN values THEN values[i]
                   ELSE IF i \in DOMAIN buf THEN buf[i] ELSE Junk

LEMMA ResizeOutcome ==
    ASSUME Asserts, Inv, Inv', Ready, NEW op \in S!Calls, NEW n \in Size, NEW values,
           wp_array_resize(op, n, values)
    PROVE  Abort \/ S!Fail \/ Resized(op, n, values)
<1>1. /\ n \in Nat /\ ItemsOK /\ ItemsOK' /\ created = TRUE
  BY SizeAssumption, ItemsType, ItemsTypeNext DEF Size, Ready, Inv, TypeOK
<1>2. CASE n <= capacity
  <2>1. DOMAIN buf = 0 .. capacity - 1 /\ capacity \in Nat
    BY <1>1 DEF ItemsOK
  <2>2. \A i \in 0 .. n - 1 : i \in DOMAIN buf
    BY <1>1, <1>2, <2>1
  <2>3. /\ buf' = Store(buf, values) /\ len' = n /\ call' = op
        /\ status' = "W_SUCCESS" /\ UNCHANGED <<created, popped>>
    BY <1>2 DEF wp_array_resize
  <2> QED
    BY <2>2, <2>3 DEF Store, Resized
<1>3. CASE ~(n <= capacity) /\ TooLarge(n)
  BY <1>3, FailIsFail DEF wp_array_resize, Errors
<1>4. CASE ~(n <= capacity) /\ ~TooLarge(n)
  <2>1. PICK c \in w_size_round_up_pow2(Requested(n)) :
           \/ Abort
           \/ Fail(op, "W_ERROR_ALLOC_FAILED")
           \/ /\ created' = TRUE
              /\ buf' = Store(Contents(block'), values)
              /\ len' = n /\ call' = op /\ status' = "W_SUCCESS"
              /\ UNCHANGED popped
    BY <1>4 DEF wp_array_resize, Reallocate
  <2>2. CASE Fail(op, "W_ERROR_ALLOC_FAILED")
    BY <2>2, FailIsFail DEF Errors
  <2>3. CASE /\ created' = TRUE
             /\ buf' = Store(Contents(block'), values)
             /\ len' = n /\ call' = op /\ status' = "W_SUCCESS"
             /\ UNCHANGED popped
    <3>1. DOMAIN buf' = DOMAIN Contents(block')
      BY <2>3 DEF Store
    <3>2. \A i \in 0 .. n - 1 : i \in DOMAIN Contents(block')
      BY <1>1, <2>3, <3>1 DEF ItemsOK
    <3>3. \A i \in DOMAIN Contents(block') :
             Contents(block')[i] = IF i \in DOMAIN buf THEN buf[i] ELSE Junk
      BY DEF Contents
    <3>4. \A i \in DOMAIN Contents(block') :
             buf'[i] = IF i \in DOMAIN values THEN values[i]
                       ELSE Contents(block')[i]
      BY <2>3 DEF Store
    <3>5. \A i \in 0 .. n - 1 :
            buf'[i] = IF i \in DOMAIN values THEN values[i]
                      ELSE IF i \in DOMAIN buf THEN buf[i] ELSE Junk
      BY <3>2, <3>3, <3>4
    <3> QED
      BY <1>1, <2>3, <3>5 DEF Resized
  <2> QED
    BY <2>1, <2>2, <2>3
<1> QED
  BY <1>2, <1>3, <1>4

LEMMA AbortStutters ==
    ASSUME Abort
    PROVE  UNCHANGED S!stackVars
BY DEF Abort, S!stackVars, Items

LEMMA CreateRefines ==
    ASSUME Asserts, Inv, Inv', NEW n \in Lengths, wp_array_create(n)
    PROVE  S!Create(n) \/ S!Fail \/ UNCHANGED S!stackVars
<1> DEFINE op == <<"create", n>>
<1>1. op \in S!Calls
  BY DEF S!Calls
<1>2. \/ Abort
      \/ \E e \in Errors : Fail(op, e)
      \/ /\ ~created /\ created' = TRUE /\ len' = 0
         /\ call' = op /\ status' = "W_SUCCESS" /\ UNCHANGED popped
  BY DEF wp_array_create, Reallocate, Errors
<1>3. CASE /\ ~created /\ created' = TRUE /\ len' = 0
           /\ call' = op /\ status' = "W_SUCCESS" /\ UNCHANGED popped
  <2>1. Items' \in Seq(Elements) /\ Len(Items') = 0
    BY <1>3, ItemsTypeNext DEF ItemsOK
  <2>2. Items' = <<>>
    BY <2>1, EmptySeq
  <2> QED
    BY <1>3, <2>2 DEF S!Create, S!Succeed
<1> QED
  BY <1>1, <1>2, <1>3, FailIsFail, AbortStutters

\* What a resize that sets nothing does is a change at the end.
LEMMA ResizedIsChange ==
    ASSUME Inv, Inv', NEW op, NEW n \in Size, Resized(op, n, NoElements)
    PROVE  S!ChangeLength(n)
<1>1. /\ n \in Nat /\ ItemsOK /\ len' = n
  BY SizeAssumption, ItemsType DEF Size, Resized
<1>2. \A i \in 0 .. len - 1 : i \in DOMAIN buf
  BY <1>1 DEF ItemsOK
<1>3. \A i \in 0 .. n - 1 : i \in DOMAIN buf => buf'[i] = buf[i]
  BY DEF Resized, NoElements
<1>4. \A i \in 0 .. len - 1 : i < len' => buf'[i] = buf[i]
  BY <1>1, <1>2, <1>3 DEF ItemsOK
<1>5. S!ChangeLength(len')
  BY <1>4, OnlyTheEnd
<1> QED
  BY <1>1, <1>5

LEMMA ResizeRefines ==
    ASSUME Asserts, Inv, Inv', NEW n \in Lengths, Resize(n)
    PROVE  S!Resize(n) \/ S!Fail \/ UNCHANGED S!stackVars
<1> DEFINE op == <<"resize", n>>
<1>1. op \in S!Calls /\ n \in Size /\ Ready
  BY ArrayAssumption DEF S!Calls, Resize
<1>2. Abort \/ S!Fail \/ Resized(op, n, NoElements)
  BY <1>1, ResizeOutcome DEF Resize
<1>3. CASE Resized(op, n, NoElements)
  <2>1. S!ChangeLength(n)
    BY <1>1, <1>3, ResizedIsChange
  <2> QED
    BY <1>1, <1>3, <2>1 DEF Resized, S!Resize, S!Succeed, Ready
<1> QED
  BY <1>2, <1>3, AbortStutters

LEMMA ExtendRefines ==
    ASSUME Asserts, Inv, Inv', NEW n \in Lengths, Extend(n)
    PROVE  S!Extend(n) \/ S!Fail \/ UNCHANGED S!stackVars
<1> DEFINE op == <<"extend", n>>
<1>1. op \in S!Calls /\ n \in Size /\ Ready /\ ItemsOK
  BY ArrayAssumption, ItemsType DEF S!Calls, Extend
<1>2. CASE IsAddWrapping(len, n)
  BY <1>2, AbortStutters DEF Extend
<1>3. CASE ~IsAddWrapping(len, n)
  <2>1. len \in 0 .. SizeMax /\ n \in 0 .. SizeMax /\ SizeMax \in Nat
    BY <1>1, SizeAssumption DEF Inv, TypeOK, Size
  <2>2. len + n \in 0 .. SizeMax
    BY <1>3, <2>1 DEF IsAddWrapping
  <2>3. Wrap(len + n) = len + n /\ len + n \in Size
    BY <2>1, <2>2 DEF Wrap, Size
  <2>4. Abort \/ S!Fail \/ Resized(op, len + n, NoElements)
    BY <1>1, <1>3, <2>3, ResizeOutcome DEF Extend
  <2>5. CASE Resized(op, len + n, NoElements)
    <3>1. S!ChangeLength(len + n)
      BY <2>3, <2>5, ResizedIsChange
    <3>2. Len(Items) = len
      BY <1>1 DEF ItemsOK
    <3> QED
      BY <1>1, <2>5, <3>1, <3>2 DEF Resized, S!Extend, S!Succeed, Ready
  <2> QED
    BY <2>4, <2>5, AbortStutters
<1> QED
  BY <1>2, <1>3

LEMMA PushRefines ==
    ASSUME Asserts, Inv, Inv', NEW v \in Values, Push(v)
    PROVE  S!Push(v) \/ S!Fail \/ UNCHANGED S!stackVars
<1> DEFINE op == <<"push", v>>
           values == [i \in {len} |-> v]
<1>1. op \in S!Calls /\ Ready /\ ItemsOK /\ v \in Elements
  BY ItemsType DEF S!Calls, Push, Elements
<1>2. /\ len + 1 \in Size /\ Wrap(len + 1) = len + 1 /\ ~IsAddWrapping(len, 1)
  BY <1>1, OneMore
<1>3. Abort \/ S!Fail \/ Resized(op, len + 1, values)
  BY <1>1, <1>2, ResizeOutcome DEF Push
<1>4. CASE Resized(op, len + 1, values)
  <2>1. len' = len + 1 /\ len \in Nat /\ ItemsOK'
    BY <1>1, <1>4, ItemsTypeNext DEF Resized, ItemsOK
  <2>2. buf'[len] = v /\ \A i \in 0 .. len - 1 : buf'[i] = buf[i]
    <3>1. \A i \in 0 .. len - 1 : i \in DOMAIN buf /\ i \notin DOMAIN values
      BY <1>1 DEF ItemsOK
    <3>2. \A i \in 0 .. len :
             buf'[i] = IF i \in DOMAIN values THEN values[i]
                       ELSE IF i \in DOMAIN buf THEN buf[i] ELSE Junk
      BY <1>4, <2>1 DEF Resized
    <3>3. len \in DOMAIN values /\ values[len] = v
      OBVIOUS
    <3> HIDE DEF values
    <3> QED
      BY <2>1, <3>1, <3>2, <3>3
  <2>3. ASSUME NEW i \in 1 .. len
        PROVE  Items'[i] = Items[i]
    <3>1. i - 1 \in 0 .. len - 1 /\ i \in 1 .. len'
      BY <2>1
    <3> QED
      BY <1>1, <2>1, <2>2, <3>1 DEF ItemsOK
  <2>4. Items'[len + 1] = v
    <3>1. len + 1 \in 1 .. len' /\ (len + 1) - 1 = len
      BY <2>1
    <3> QED
      BY <2>1, <2>2, <3>1 DEF ItemsOK
  <2> DEFINE s == Items'
             t == Append(Items, v)
  <2>5. Items \in Seq(Elements) /\ Len(Items) = len
    BY <1>1 DEF ItemsOK
  <2>6. /\ t \in Seq(Elements) /\ Len(t) = len + 1
        /\ \A i \in 1 .. len : t[i] = Items[i]
        /\ t[len + 1] = v
    BY <1>1, <2>5, AppendProperties
  <2>7. s \in Seq(Elements) /\ Len(s) = len + 1
    BY <2>1 DEF ItemsOK
  <2>8. \A i \in 1 .. len : s[i] = Items[i]
    BY <2>3
  <2>9. s[len + 1] = v
    BY <2>4
  <2> HIDE DEF s, t
  <2>10. \A i \in 1 .. len + 1 : s[i] = t[i]
    BY <2>1, <2>6, <2>8, <2>9
  <2>11. s = t
    BY <2>6, <2>7, <2>10, SeqEqual
  <2>12. Items' = Append(Items, v)
    BY <2>11 DEF s, t
  <2> QED
    BY <1>1, <1>4, <2>12 DEF Resized, S!Push, S!Succeed, Ready
<1> QED
  BY <1>3, <1>4, AbortStutters

LEMMA PopRefines ==
    ASSUME Inv, Inv', Pop
    PROVE  S!Pop
<1>1. /\ ItemsOK /\ ItemsOK' /\ len \in Nat /\ len > 0
      /\ created = TRUE /\ created' = created
      /\ len' = len - 1 /\ buf' = buf /\ popped' = buf[len - 1]
  BY ItemsType, ItemsTypeNext DEF Pop, Ready, Inv, TypeOK, ItemsOK
<1>2. Items \in Seq(Elements) /\ Len(Items) = len
  BY <1>1 DEF ItemsOK
<1>3. Items # <<>>
  BY <1>1, <1>2, EmptySeq
<1>4. popped' = Items[Len(Items)]
  <2>1. len \in 1 .. len
    BY <1>1
  <2> QED
    BY <1>1, <1>2, <2>1 DEF ItemsOK
<1> DEFINE s == Items'
           t == SubSeq(Items, 1, Len(Items) - 1)
<1>5. \A i \in 1 .. len - 1 : Items[i] \in Elements
  <2>1. \A i \in 1 .. len - 1 : i \in 1 .. len
    BY <1>1
  <2> QED
    BY <1>1, <2>1 DEF ItemsOK
<1>6. /\ t \in Seq(Elements) /\ Len(t) = len - 1
      /\ \A i \in 1 .. len - 1 : t[i] = Items[i]
  <2>1. 1 \in Int /\ len - 1 \in Int
    BY <1>1
  <2>2. /\ SubSeq(Items, 1, len - 1) \in Seq(Elements)
        /\ Len(SubSeq(Items, 1, len - 1))
             = IF 1 <= len - 1 THEN len - 1 - 1 + 1 ELSE 0
        /\ \A i \in 1 .. len - 1 - 1 + 1 :
             SubSeq(Items, 1, len - 1)[i] = Items[1 + i - 1]
    BY <1>5, <2>1, SubSeqProperties
  <2>3. \A i \in 1 .. len - 1 : i \in 1 .. len - 1 - 1 + 1 /\ 1 + i - 1 = i
    BY <1>1
  <2>4. (IF 1 <= len - 1 THEN len - 1 - 1 + 1 ELSE 0) = len - 1
    BY <1>1
  <2> QED
    BY <1>2, <2>2, <2>3, <2>4
<1>7. s \in Seq(Elements) /\ Len(s) = len - 1
  BY <1>1 DEF ItemsOK
<1>8. \A i \in 1 .. len - 1 : s[i] = Items[i]
  <2>1. \A i \in 1 .. len - 1 : i \in 1 .. len /\ i \in 1 .. len'
    BY <1>1
  <2> QED
    BY <1>1, <2>1 DEF ItemsOK
<1> HIDE DEF s, t
<1>9. s = t
  BY <1>6, <1>7, <1>8, SeqEqual
<1>10. Items' = SubSeq(Items, 1, Len(Items) - 1)
  BY <1>9 DEF s, t
<1> QED
  BY <1>1, <1>3, <1>4, <1>10 DEF Pop, S!Pop, S!Succeed

LEMMA DestroyRefines ==
    ASSUME Inv', wp_array_destroy
    PROVE  S!Destroy
<1>1. Items' \in Seq(Elements) /\ Len(Items') = 0
  BY ItemsTypeNext DEF ItemsOK, wp_array_destroy
<1>2. Items' = <<>>
  BY <1>1, EmptySeq
<1> QED
  BY <1>2 DEF wp_array_destroy, Ready, S!Destroy, S!Succeed

LEMMA WriteRefines ==
    ASSUME Inv, NEW i \in DOMAIN buf, NEW v \in Values, ClientWrite(i, v)
    PROVE  S!Write(i + 1, v)
<1>1. /\ ItemsOK /\ len \in Nat /\ capacity \in Nat /\ len <= capacity
      /\ i \in 0 .. capacity - 1 /\ i < len
  BY ItemsType DEF ItemsOK, ClientWrite
<1>2. i + 1 \in DOMAIN Items
  BY <1>1 DEF ItemsOK
<1>3. len' = len /\ buf' = [buf EXCEPT ![i] = v]
  BY DEF ClientWrite
<1>4. Items' = [j \in 1 .. len |-> [buf EXCEPT ![i] = v][j - 1]]
  BY <1>3 DEF Items
<1>5. \A j \in 1 .. len : j - 1 \in DOMAIN buf /\ ((j - 1 = i) <=> (j = i + 1))
  BY <1>1 DEF ItemsOK
<1>6. Items' = [Items EXCEPT ![i + 1] = v]
  BY <1>2, <1>4, <1>5 DEF Items
<1> QED
  BY <1>2, <1>6 DEF ClientWrite, Ready, S!Write

\* An array is a stack, whatever its sizes and whenever the allocator fails.
THEOREM ArrayImplementsStack ==
    ASSUME Asserts
    PROVE  Spec => ImplementsStack
<1>1. Inv /\ Init => S!Init
  <2> SUFFICES ASSUME Inv, Init
               PROVE  S!Init
    OBVIOUS
  <2>1. Items \in Seq(Elements) /\ Len(Items) = 0
    BY ItemsType DEF ItemsOK, Init
  <2>2. Items = <<>>
    BY <2>1, EmptySeq
  <2> QED
    BY <2>2 DEF Init, S!Init, Elements
<1>2. Inv /\ Inv' /\ [Next]_vars => [S!Next]_S!stackVars
  <2> SUFFICES ASSUME Inv, Inv', [Next]_vars
               PROVE  S!Next \/ UNCHANGED S!stackVars
    OBVIOUS
  <2>1. ASSUME NEW n \in Lengths, wp_array_create(n)
        PROVE  S!Next \/ UNCHANGED S!stackVars
    BY <2>1, CreateRefines DEF S!Next
  <2>2. ASSUME NEW n \in Lengths, Resize(n)
        PROVE  S!Next \/ UNCHANGED S!stackVars
    BY <2>2, ResizeRefines DEF S!Next
  <2>3. ASSUME NEW n \in Lengths, Extend(n)
        PROVE  S!Next \/ UNCHANGED S!stackVars
    BY <2>3, ExtendRefines DEF S!Next
  <2>4. ASSUME NEW v \in Values, Push(v)
        PROVE  S!Next \/ UNCHANGED S!stackVars
    BY <2>4, PushRefines DEF S!Next, Elements
  <2>5. CASE Pop
    BY <2>5, PopRefines DEF S!Next
  <2>6. CASE wp_array_destroy
    BY <2>6, DestroyRefines DEF S!Next
  <2>7. ASSUME NEW i \in DOMAIN buf, NEW v \in Values, ClientWrite(i, v)
        PROVE  S!Next \/ UNCHANGED S!stackVars
    <3>1. S!Write(i + 1, v)
      BY <2>7, WriteRefines
    <3>2. i + 1 \in DOMAIN Items /\ v \in Elements
      BY <3>1 DEF S!Write, Elements
    <3> QED
      BY <3>1, <3>2 DEF S!Next
  <2>8. CASE UNCHANGED vars
    BY <2>8 DEF vars, S!stackVars, Items
  <2> QED
    BY <2>1, <2>2, <2>3, <2>4, <2>5, <2>6, <2>7, <2>8 DEF Next
<1>3. Spec => []Inv
  BY InvAlways
<1> QED
  BY <1>1, <1>2, <1>3, PTL DEF Spec, ImplementsStack, S!Spec

=============================================================================
