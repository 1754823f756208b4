------------------------------ MODULE WinMutex ------------------------------
(***************************************************************************)
(* The mutexes of platform_windows.c.  One of static storage begins as a   *)
(* null handle; the first w_mtx_lock() creates the mutex of the system     *)
(* that it stands for, and of several threads that do so at once all but   *)
(* one close theirs.                                                       *)
(*                                                                         *)
(* The functions are sequences of steps that each make one access to       *)
(* shared memory or one call to the system.  The thread that calls         *)
(* w_mtx_lock() is put at "lock"; it ends at "lock_failed" or where the    *)
(* caller says.  A mutex of the system belongs to a thread, which may wait *)
(* for it again and must release it as many times.                         *)
(***************************************************************************)
EXTENDS Integers, FiniteSets

CONSTANTS
    Threads,
    Handles,    \* what CreateMutexW() may return
    Null, Free,
    MayFail     \* the calls to the system that may fail, of SystemCalls

SystemCalls == {"create", "close", "wait", "release"}

ASSUME WinMutexAssumption ==
    /\ Null \notin Handles
    /\ Free \notin Threads
    /\ MayFail \subseteq SystemCalls

VARIABLES
    mtx,        \* *mtx, shared by the threads
    live,       \* the handles created and not closed
    owner,      \* per handle, the thread that owns its mutex, or Free
    count,      \* how many times it took it
    handle,     \* per thread, the local of w_mtx_lock()
    pc          \* per thread, where it is

mtxVars == <<mtx, live, owner, count, handle>>

MtxInit ==
    /\ mtx = Null
    /\ live = {}
    /\ owner = [h \in Handles |-> Free]
    /\ count = [h \in Handles |-> 0]
    /\ handle = [t \in Threads |-> Null]

GoTo(t, label) == pc' = [pc EXCEPT ![t] = label]

Failed(t, call) == call \in MayFail /\ GoTo(t, "lock_failed")

-----------------------------------------------------------------------------
(* w_mtx_lock()                                                            *)

\* *mtx is read for the first time.
TestHandle(t) ==
    /\ pc[t] = "lock"
    /\ \/ /\ mtx # Null
          /\ GoTo(t, "wait")
          /\ UNCHANGED <<live, handle>>
       \/ /\ mtx = Null
          /\ \E h \in Handles \ live :
               /\ live' = live \union {h}
               /\ handle' = [handle EXCEPT ![t] = h]
          /\ GoTo(t, "publish")
       \/ /\ mtx = Null
          /\ Failed(t, "create")
          /\ UNCHANGED <<live, handle>>
    /\ UNCHANGED <<mtx, owner, count>>

\* Mutant: an assignment instead of the compare and exchange.
Mutant_Publish(t) ==
    /\ pc[t] = "publish"
    /\ mtx' = handle[t]
    /\ handle' = [handle EXCEPT ![t] = Null]
    /\ GoTo(t, "wait")
    /\ UNCHANGED <<live, owner, count>>

\* InterlockedCompareExchangePointer()
Publish(t) ==
    /\ pc[t] = "publish"
    /\ \/ /\ mtx = Null
          /\ mtx' = handle[t]
          /\ handle' = [handle EXCEPT ![t] = Null]
          /\ GoTo(t, "wait")
       \/ /\ mtx # Null
          /\ GoTo(t, "close")
          /\ UNCHANGED <<mtx, handle>>
    /\ UNCHANGED <<live, owner, count>>

\* Mutant: the mutex of the other thread is closed.
Mutant_CloseOwn(t) ==
    /\ pc[t] = "close"
    /\ live' = live \ {mtx}
    /\ handle' = [handle EXCEPT ![t] = Null]
    /\ GoTo(t, "wait")
    /\ UNCHANGED <<mtx, owner, count>>

\* "Another thread already initialized the mutex."
CloseOwn(t) ==
    /\ pc[t] = "close"
    /\ \/ live' = live \ {handle[t]} /\ GoTo(t, "wait")
       \/ Failed(t, "close") /\ UNCHANGED live
    /\ handle' = [handle EXCEPT ![t] = Null]
    /\ UNCHANGED <<mtx, owner, count>>

\* Mutant: a thread that owns the mutex waits for itself.
Mutant_Wait(t, next) ==
    /\ pc[t] = "wait"
    /\ owner[mtx] = Free
    /\ owner' = [owner EXCEPT ![mtx] = t]
    /\ count' = [count EXCEPT ![mtx] = @ + 1]
    /\ GoTo(t, next)
    /\ UNCHANGED <<mtx, live, handle>>

\* WaitForSingleObject() on what *mtx is by now; a mutex abandoned by a
\* thread that ended is taken like a free one.
Wait(t, next) ==
    /\ pc[t] = "wait"
    /\ \/ /\ mtx \in live
          /\ owner[mtx] \in {Free, t}
          /\ owner' = [owner EXCEPT ![mtx] = t]
          /\ count' = [count EXCEPT ![mtx] = @ + 1]
          /\ GoTo(t, next)
       \/ /\ "wait" \in MayFail \/ mtx \notin live
          /\ GoTo(t, "lock_failed")
          /\ UNCHANGED <<owner, count>>
    /\ UNCHANGED <<mtx, live, handle>>

-----------------------------------------------------------------------------
(* w_mtx_unlock(), in one step of its caller.                              *)

Owns(t) == mtx \in live /\ owner[mtx] = t

Release(t) ==
    /\ Owns(t)
    /\ count' = [count EXCEPT ![mtx] = @ - 1]
    /\ owner' = [owner EXCEPT ![mtx] = IF count[mtx] = 1 THEN Free ELSE t]
    /\ UNCHANGED <<mtx, live, handle>>

ReleaseFails(t) ==
    /\ "release" \in MayFail \/ ~Owns(t)
    /\ UNCHANGED mtxVars

\* The thread ends: what it owns is abandoned.
Abandon(t) ==
    /\ owner' = [h \in Handles |-> IF owner[h] = t THEN Free ELSE owner[h]]
    /\ count' = [h \in Handles |-> IF owner[h] = t THEN 0 ELSE count[h]]
    /\ UNCHANGED <<mtx, live, handle>>

-----------------------------------------------------------------------------

MtxLabels == {"lock", "publish", "close", "wait", "lock_failed"}

MtxTypeOK ==
    /\ mtx \in Handles \union {Null}
    /\ live \subseteq Handles
    /\ owner \in [Handles -> Threads \union {Free}]
    /\ count \in [Handles -> Nat]
    /\ handle \in [Threads -> Handles \union {Null}]

(* However many threads find the mutex not created yet, the one that they  *)
(* all use is never closed, and every other one is, unless closing fails   *)
(* (platform_windows.c:289-312).                                           *)
OneMutexKept ==
    /\ mtx # Null => mtx \in live
    /\ \A t \in Threads : pc[t] = "wait" => mtx # Null
    /\ "close" \in MayFail \/ live \ {mtx} =
         {handle[t] : t \in {u \in Threads : pc[u] \in {"publish", "close"}}}

=============================================================================
