------------------------------- MODULE Tracer -------------------------------
(***************************************************************************)
(* A tracer (trace.h, trace.c): a pool shared by the threads of a program, *)
(* with a mutex, here of Windows.  W_TRACER_ATTACH_DATA,                   *)
(* W_TRACER_DETACH_DATA and W_TRACER_FIND_DATA lock the mutex, go through  *)
(* the pool and unlock it.  W_TRACER_FIND_DATA gives the address of an     *)
(* entry, which its caller reads and writes without the mutex (mem.c:285,  *)
(* vmem_unix.c:132).                                                       *)
(*                                                                         *)
(* Objects are allocators and regions: the calls on one of them do not     *)
(* overlap, and it is created before it is used.                           *)
(***************************************************************************)
EXTENDS WinMutex, TracePool

CONSTANTS
    Objects, Data,
    NoObject, NoDatum,
    Capacity        \* pool_capacity

ASSUME TracerAssumption ==
    /\ Capacity \in Nat
    /\ NoObject \notin Objects
    /\ NoDatum \notin Data
    /\ 0 \notin Objects \union Data \union {NoObject, NoDatum}

VARIABLES
    asserts,    \* is W_ASSERT compiled in? (W_ENABLE_TRACING, trace.h:13)
    pool,       \* name##_inst
    created,    \* the objects that are being traced
    op,         \* per thread, the operation it is in
    obj,        \* its argument obj, NoObject outside of a call
    arg,        \* its argument data
    entry,      \* the entry it works on, 0 for the NULL pointer
    answer,     \* what it read last
    end         \* "running", or why the program stopped

callVars == <<op, obj, arg, entry>>

vars == <<mtxVars, pc, asserts, pool, created, callVars, answer, end>>

Init ==
    /\ MtxInit
    /\ pc = [t \in Threads |-> "idle"]
    /\ asserts \in BOOLEAN
    /\ pool = EmptyPool(Capacity)
    /\ created = {}
    /\ op = [t \in Threads |-> "none"]
    /\ obj = [t \in Threads |-> NoObject]
    /\ arg = [t \in Threads |-> NoDatum]
    /\ entry = [t \in Threads |-> 0]
    /\ answer = [t \in Threads |-> NoDatum]
    /\ end = "running"

-----------------------------------------------------------------------------
(* Calls.                                                                  *)

InUse == {obj[t] : t \in Threads}

Begin(t, operation, o, d) ==
    /\ pc[t] = "idle"
    /\ o \notin InUse
    /\ op' = [op EXCEPT ![t] = operation]
    /\ obj' = [obj EXCEPT ![t] = o]
    /\ arg' = [arg EXCEPT ![t] = d]
    /\ GoTo(t, "lock")
    /\ UNCHANGED <<mtxVars, asserts, pool, created, entry, answer, end>>

W_TRACER_ATTACH_DATA(t, o, d) == o \notin created /\ Begin(t, "insert", o, d)

W_TRACER_DETACH_DATA(t, o) == o \in created /\ Begin(t, "remove", o, NoDatum)

\* To read the datum, or to write one to the address found.
W_TRACER_FIND_DATA(t, o, d) == o \in created /\ Begin(t, "find", o, d)

Return(t) ==
    /\ GoTo(t, "idle")
    /\ op' = [op EXCEPT ![t] = "none"]
    /\ obj' = [obj EXCEPT ![t] = NoObject]
    /\ arg' = [arg EXCEPT ![t] = NoDatum]
    /\ entry' = [entry EXCEPT ![t] = 0]

\* The mutex is locked: on to the operation.
Lock(t) ==
    /\ TestHandle(t) \/ Publish(t) \/ CloseOwn(t) \/ Wait(t, op[t])
    /\ UNCHANGED <<asserts, pool, created, callVars, answer, end>>

Stop(reason) ==
    /\ end' = reason
    /\ UNCHANGED <<mtxVars, pc, asserts, pool, created, callVars, answer>>

\* w_abort(W_ERROR_LOCK_FAILED)
LockFailed(t) == pc[t] = "lock_failed" /\ Stop("mutex")

Unlock(t) ==
    /\ pc[t] = "unlock"
    /\ Release(t)
    /\ IF op[t] = "find" THEN GoTo(t, "use") /\ UNCHANGED callVars ELSE Return(t)
    /\ UNCHANGED <<asserts, pool, created, answer, end>>

\* w_abort(W_ERROR_UNLOCK_FAILED)
UnlockFails(t) == pc[t] = "unlock" /\ ReleaseFails(t) /\ Stop("mutex")

-----------------------------------------------------------------------------
(* Under the mutex.                                                        *)

\* Mutant: the loop goes one entry too far.
Mutant_ChooseEntry(t) ==
    /\ pc[t] = "insert"
    /\ \/ \E i \in Vacant(pool) : entry' = [entry EXCEPT ![t] = i]
       \/ Vacant(pool) = {} /\ entry' = [entry EXCEPT ![t] = Capacity + 1]
    /\ GoTo(t, "fill")
    /\ UNCHANGED <<mtxVars, asserts, pool, created, op, obj, arg, answer, end>>

\* wp_trace_pool_insert_data(): the first entry that is not valid.
ChooseEntry(t) ==
    /\ pc[t] = "insert"
    /\ \E i \in Vacant(pool) : entry' = [entry EXCEPT ![t] = i]
    /\ GoTo(t, "fill")
    /\ UNCHANGED <<mtxVars, asserts, pool, created, op, obj, arg, answer, end>>

FillEntry(t) ==
    /\ pc[t] = "fill"
    /\ pool' = Inserted(pool, entry[t], obj[t], arg[t])
    /\ created' = created \union {obj[t]}
    /\ GoTo(t, "unlock")
    /\ UNCHANGED <<mtxVars, asserts, callVars, answer, end>>

\* W_ASSERT(0), and nothing without assertions.
PoolFull(t) ==
    /\ pc[t] = "insert"
    /\ Vacant(pool) = {}
    /\ IF asserts
         THEN Stop("assertion")
         ELSE /\ created' = created \union {obj[t]}
              /\ GoTo(t, "unlock")
              /\ UNCHANGED <<mtxVars, asserts, pool, callVars, answer, end>>

wp_trace_pool_remove_data(t) ==
    /\ pc[t] = "remove"
    /\ \E i \in Found(pool, obj[t]) : pool' = Removed(pool, i)
    /\ created' = created \ {obj[t]}
    /\ GoTo(t, "unlock")
    /\ UNCHANGED <<mtxVars, asserts, callVars, answer, end>>

\* W_ASSERT(0), and nothing without assertions.
NothingToRemove(t) ==
    /\ pc[t] = "remove"
    /\ Found(pool, obj[t]) = {}
    /\ IF asserts
         THEN Stop("assertion")
         ELSE /\ created' = created \ {obj[t]}
              /\ GoTo(t, "unlock")
              /\ UNCHANGED <<mtxVars, asserts, pool, callVars, answer, end>>

wp_trace_pool_find_data(t) ==
    /\ pc[t] = "find"
    /\ \/ \E i \in Found(pool, obj[t]) : entry' = [entry EXCEPT ![t] = i]
       \/ Found(pool, obj[t]) = {} /\ UNCHANGED entry
    /\ GoTo(t, "unlock")
    /\ UNCHANGED <<mtxVars, asserts, pool, created, op, obj, arg, answer, end>>

-----------------------------------------------------------------------------
(* The caller of W_TRACER_FIND_DATA, without the mutex.                    *)

UseDatum(t) ==
    /\ pc[t] = "use"
    /\ entry[t] # 0
    /\ IF arg[t] = NoDatum
         THEN /\ answer' = [answer EXCEPT ![t] = pool[entry[t]].data]
              /\ UNCHANGED pool
         ELSE /\ pool' = [pool EXCEPT ![entry[t]].data = arg[t]]
              /\ UNCHANGED answer
    /\ Return(t)
    /\ UNCHANGED <<mtxVars, asserts, created, end>>

\* Nothing was found: the address is NULL.  Without assertions vmem_unix.c
\* does not use it, mem.c does.
UseNull(t) ==
    /\ pc[t] = "use"
    /\ entry[t] = 0
    /\ \/ /\ ~asserts /\ arg[t] = NoDatum
          /\ answer' = [answer EXCEPT ![t] = NoDatum]
          /\ Return(t)
          /\ UNCHANGED <<mtxVars, asserts, pool, created, end>>
       \/ Stop("crash")

-----------------------------------------------------------------------------

Call(t) ==
    \E o \in Objects :
       \/ \E d \in Data : W_TRACER_ATTACH_DATA(t, o, d)
       \/ W_TRACER_DETACH_DATA(t, o)
       \/ \E d \in Data \union {NoDatum} : W_TRACER_FIND_DATA(t, o, d)

Step(t) ==
    \/ Lock(t) \/ LockFailed(t)
    \/ ChooseEntry(t) \/ FillEntry(t) \/ PoolFull(t)
    \/ wp_trace_pool_remove_data(t) \/ NothingToRemove(t)
    \/ wp_trace_pool_find_data(t)
    \/ Unlock(t) \/ UnlockFails(t)
    \/ UseDatum(t) \/ UseNull(t)

Next == end = "running" /\ \E t \in Threads : Call(t) \/ Step(t)

Spec == Init /\ [][Next]_vars

-----------------------------------------------------------------------------
(* Properties.                                                             *)

\* Between taking the mutex and giving it back.
Locked == {"insert", "fill", "remove", "find", "unlock"}

\* The variables have the shape the code gives them; a thread in a call has an
\* object of its own.
TypeOK ==
    /\ MtxTypeOK
    /\ pc \in [Threads -> MtxLabels \union Locked \union {"idle", "use"}]
    /\ asserts \in BOOLEAN
    /\ pool \in [1 .. Capacity ->
                  [valid : BOOLEAN, key : Objects \union {0},
                   data : Data \union {0}]]
    /\ created \subseteq Objects
    /\ op \in [Threads -> {"none", "insert", "remove", "find"}]
    /\ obj \in [Threads -> Objects \union {NoObject}]
    /\ arg \in [Threads -> Data \union {NoDatum}]
    /\ entry \in [Threads -> 0 .. Capacity]
    /\ answer \in [Threads -> Data \union {NoDatum}]
    /\ end \in {"running", "assertion", "mutex", "crash"}
    /\ \A t \in Threads : (obj[t] = NoObject) <=> (pc[t] = "idle")
    /\ \A t, u \in Threads : obj[t] = obj[u] /\ obj[t] # NoObject => t = u

(* No two threads are in the pool at once, and what a thread works on is   *)
(* its own entry, also after it gave back the mutex (trace.h:128-150): an  *)
(* entry found keeps its object until it is used, whatever the others      *)
(* attach and detach meanwhile.                                            *)
EntriesApart ==
    /\ \A t, u \in Threads : pc[t] \in Locked /\ pc[u] \in Locked => t = u
    /\ \A t \in Threads :
         pc[t] = "use" /\ entry[t] # 0 =>
            pool[entry[t]].valid /\ pool[entry[t]].key = obj[t]
    /\ \A i, j \in 1 .. Capacity :
         pool[i].valid /\ pool[j].valid /\ pool[i].key = pool[j].key => i = j

(* The tracer is a table whose operations are atomic: an object attached   *)
(* keeps its datum until it is detached, entries are not lost, and the     *)
(* program stops only for an object too many or a failing mutex.           *)
Traces(o) == {i \in 1 .. Capacity : pool[i].valid /\ pool[i].key = o}

Table == INSTANCE TraceTable WITH
    SystemFails <- MayFail # {},
    datum <- [o \in Objects |->
                IF Traces(o) = {} THEN NoDatum
                ELSE pool[CHOOSE i \in Traces(o) : TRUE].data]

\* Every behaviour is one of the table.
ImplementsTable == Table!Spec

=============================================================================
