----------------------------- MODULE TraceTable -----------------------------
(***************************************************************************)
(* What a tracer of trace.h promises to the threads that trace their       *)
(* objects with it: a table with room for Capacity data, one per object,   *)
(* whose operations are atomic.  A program stops at an object too many; if *)
(* its assertions are compiled out, that object goes without a datum, and  *)
(* a use of the missing datum may crash the program.                       *)
(***************************************************************************)
EXTENDS Integers, FiniteSets

CONSTANTS
    Threads, Objects, Data,
    NoDatum,
    Capacity,
    SystemFails     \* may the mutex of the tracer fail?

VARIABLES
    asserts,    \* are assertions compiled in?
    created,    \* the objects that are being traced
    datum,      \* per object, its datum or NoDatum
    answer,     \* per thread, what its last look at an object gave
    end         \* "running", or why the program stopped

vars == <<asserts, created, datum, answer, end>>

Recorded == {o \in Objects : datum[o] # NoDatum}

Full == Cardinality(Recorded) = Capacity

Init ==
    /\ asserts \in BOOLEAN
    /\ created = {}
    /\ datum = [o \in Objects |-> NoDatum]
    /\ answer = [t \in Threads |-> NoDatum]
    /\ end = "running"

Attach(o, d) ==
    /\ o \notin created
    /\ created' = created \union {o}
    /\ \/ ~Full /\ datum' = [datum EXCEPT ![o] = d]
       \/ Full /\ ~asserts /\ UNCHANGED datum
    /\ UNCHANGED <<asserts, answer, end>>

Detach(o) ==
    /\ o \in created
    /\ created' = created \ {o}
    /\ datum' = [datum EXCEPT ![o] = NoDatum]
    /\ UNCHANGED <<asserts, answer, end>>

Look(t, o) ==
    /\ o \in created
    /\ answer' = [answer EXCEPT ![t] = datum[o]]
    /\ UNCHANGED <<asserts, created, datum, end>>

Change(o, d) ==
    /\ o \in Recorded
    /\ datum' = [datum EXCEPT ![o] = d]
    /\ UNCHANGED <<asserts, created, answer, end>>

Stop ==
    /\ \/ Full /\ asserts /\ created # Objects /\ end' = "assertion"
       \/ created # Recorded /\ end' = "crash"
       \/ SystemFails /\ end' = "mutex"
    /\ UNCHANGED <<asserts, created, datum, answer>>

Next ==
    /\ end = "running"
    /\ \/ \E o \in Objects, d \in Data : Attach(o, d) \/ Change(o, d)
       \/ \E o \in Objects : Detach(o)
       \/ \E t \in Threads, o \in Objects : Look(t, o)
       \/ Stop

Spec == Init /\ [][Next]_vars

=============================================================================
