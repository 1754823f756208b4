------------------------------- MODULE Stack --------------------------------
(***************************************************************************)
(* What a dynamic array promises (array.h): a sequence that grows and      *)
(* shrinks at its end and keeps the rest, by calls that take effect as a   *)
(* whole or not at all.  There is no capacity and no allocator here.       *)
(***************************************************************************)
EXTENDS Naturals, Sequences

CONSTANTS
    Values,     \* of the items, also before they are set
    Lengths,    \* that clients ask for
    Errors      \* statuses of a failing call

VARIABLES
    open,       \* is there a stack?
    items,
    popped,     \* by the last pop
    call,       \* the last call, with its arguments
    status      \* of the last call

stackVars == <<open, items, popped, call, status>>

Init ==
    /\ open = FALSE
    /\ items = <<>>
    /\ popped \in Values
    /\ call = <<"none">>
    /\ status = "W_SUCCESS"

Succeed(op) ==
    /\ call' = op
    /\ status' = "W_SUCCESS"

\* What lies beyond the former length is anything.
ChangeLength(n) ==
    /\ items' \in [1 .. n -> Values]
    /\ \A i \in DOMAIN items \intersect DOMAIN items' : items'[i] = items[i]

Create(n) ==
    /\ ~open
    /\ open' = TRUE
    /\ items' = <<>>
    /\ Succeed(<<"create", n>>)
    /\ UNCHANGED popped

Destroy ==
    /\ open
    /\ open' = FALSE
    /\ items' = <<>>
    /\ Succeed(<<"destroy">>)
    /\ UNCHANGED popped

Push(v) ==
    /\ open
    /\ items' = Append(items, v)
    /\ Succeed(<<"push", v>>)
    /\ UNCHANGED <<open, popped>>

Pop ==
    /\ open
    /\ items # <<>>
    /\ items' = SubSeq(items, 1, Len(items) - 1)
    /\ popped' = items[Len(items)]
    /\ Succeed(<<"pop">>)
    /\ UNCHANGED open

Resize(n) ==
    /\ open
    /\ ChangeLength(n)
    /\ Succeed(<<"resize", n>>)
    /\ UNCHANGED <<open, popped>>

Extend(n) ==
    /\ open
    /\ ChangeLength(Len(items) + n)
    /\ Succeed(<<"extend", n>>)
    /\ UNCHANGED <<open, popped>>

\* Clients write in place.
Write(i, v) ==
    /\ open
    /\ i \in DOMAIN items
    /\ items' = [items EXCEPT ![i] = v]
    /\ UNCHANGED <<open, popped, call, status>>

Calls ==
    {<<op, n>> : op \in {"create", "resize", "extend"}, n \in Lengths}
        \union {<<"push", v>> : v \in Values}

Fail ==
    /\ call' \in Calls
    /\ status' \in Errors
    /\ UNCHANGED <<open, items, popped>>

Next ==
    \/ \E n \in Lengths : Create(n) \/ Resize(n) \/ Extend(n)
    \/ \E v \in Values : Push(v)
    \/ Destroy
    \/ Pop
    \/ \E i \in DOMAIN items, v \in Values : Write(i, v)
    \/ Fail

Spec == Init /\ [][Next]_stackVars

=============================================================================
