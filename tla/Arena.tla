------------------------------- MODULE Arena -------------------------------
(***************************************************************************)
(* What the linear allocator promises the code that uses it through        *)
(* struct w_alloc (mem.h:51-81): a set of blocks that keep what was        *)
(* written to them whatever happens to the others, calls that take effect  *)
(* at once, and failed calls that take no effect at all.  There are no     *)
(* addresses, pages or reservations here.                                  *)
(***************************************************************************)
EXTENDS Naturals, Sequences

CONSTANTS Blocks, Sizes, Datum(_, _)

VARIABLES
    open,   \* is there an allocator?
    block,  \* what each client pointer designates
    result  \* of the last call

arenaVars == <<open, block, result>>

NoBlock == [held |-> FALSE, size |-> 0, bytes |-> <<>>]

\* A block of size bytes of which the first ones are known.
Block(size, bytes) == [held |-> TRUE, size |-> size, bytes |-> bytes]

Init == /\ open = FALSE
        /\ block = [b \in Blocks |-> NoBlock]
        /\ result = "W_SUCCESS"

Create == /\ ~open
          /\ open' = TRUE
          /\ result' = "W_SUCCESS"
          /\ UNCHANGED block

Destroy == /\ open
           /\ open' = FALSE
           /\ block' = [b \in Blocks |-> NoBlock]
           /\ UNCHANGED result

Succeed(b, new) == /\ open
                   /\ block' = [block EXCEPT ![b] = new]
                   /\ result' = "W_SUCCESS"
                   /\ UNCHANGED open

\* A new block has the size asked for and nothing known in it.
Allocate(b, size) == /\ ~block[b].held
                     /\ Succeed(b, IF size = 0 THEN NoBlock
                                               ELSE Block(size, <<>>))

\* A block that changes size keeps what still fits.
Reallocate(b, size) ==
    LET known == block[b].bytes
        keep  == IF Len(known) < size THEN Len(known) ELSE size
    IN  /\ block[b].held
        /\ Succeed(b, Block(size, SubSeq(known, 1, keep)))

Free(b) == /\ open
           /\ block[b].held
           /\ block' = [block EXCEPT ![b] = NoBlock]
           /\ UNCHANGED <<open, result>>

Write(b) == /\ open
            /\ block[b].held
            /\ block' = [block EXCEPT ![b].bytes =
                           [i \in 1 .. block[b].size |-> Datum(b, i - 1)]]
            /\ UNCHANGED <<open, result>>

Fail == /\ result' = "W_ERROR_ALLOC_FAILED"
        /\ UNCHANGED <<open, block>>

Next ==
    \/ Create
    \/ Destroy
    \/ Fail
    \/ \E b \in Blocks :
         \/ \E size \in Sizes : Allocate(b, size) \/ Reallocate(b, size)
         \/ Reallocate(b, 0)
         \/ Free(b)
         \/ Write(b)

Spec == Init /\ [][Next]_arenaVars

=============================================================================
