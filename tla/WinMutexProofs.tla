--------------------------- MODULE WinMutexProofs ---------------------------
(***************************************************************************)
(* What the steps of WinMutex preserve, whatever its callers do with the   *)
(* mutex in between, and that OneMutexKept follows from it.                *)
(***************************************************************************)
EXTENDS WinMutex, TLAPS

\* Where a thread has a mutex of its own.
Creating == {"publish", "close"}

(* The inductive part of OneMutexKept: the mutexes that threads created    *)
(* are open, distinct, and not the one that was kept; a mutex that is      *)
(* owned was taken at least once; and locking fails only if a call to the  *)
(* system may.                                                             *)
KeptIsOpen == mtx # Null => mtx \in live

ClosersKnow == \A t \in Threads : pc[t] \in {"wait", "close"} => mtx # Null

OwnHandles ==
    /\ \A t \in Threads : pc[t] \in Creating => handle[t] \in live \ {mtx}
    /\ \A t, u \in Threads :
         pc[t] \in Creating /\ pc[u] \in Creating /\ t # u => handle[t] # handle[u]

NoneForgotten ==
    "close" \in MayFail
        \/ \A h \in live \ {mtx} : \E t \in Threads : pc[t] \in Creating /\ handle[t] = h

OwnedIsCounted == \A h \in Handles : owner[h] # Free => count[h] # 0

FailureHasCause == \A t \in Threads : pc[t] = "lock_failed" => MayFail # {}

MtxInv ==
    /\ KeptIsOpen
    /\ ClosersKnow
    /\ OwnHandles
    /\ NoneForgotten
    /\ OwnedIsCounted
    /\ FailureHasCause

\* A step of w_mtx_lock() that may end at next.
LockStep(t, next) == TestHandle(t) \/ Publish(t) \/ CloseOwn(t) \/ Wait(t, next)

\* What a caller does elsewhere: it goes from one label to another.
CallerStep(t, label) ==
    /\ pc[t] \notin Creating
    /\ label \notin Creating \union {"wait", "lock_failed"}
    /\ GoTo(t, label)
    /\ Release(t) \/ Abandon(t) \/ UNCHANGED mtxVars

-----------------------------------------------------------------------------

(* OneMutexKept is what MtxInv says.                                       *)
LEMMA MtxInvKeeps ==
  ASSUME MtxInv
  PROVE  OneMutexKept
BY DEF MtxInv, OneMutexKept, KeptIsOpen, ClosersKnow, OwnHandles, NoneForgotten,
       Creating

(* The variables keep their types while a thread locks.                    *)
LEMMA LockStepType ==
  ASSUME NEW Labels, pc \in [Threads -> Labels], MtxTypeOK, MtxInv,
         NEW t \in Threads, NEW next, LockStep(t, next)
  PROVE  MtxTypeOK'
<1> USE WinMutexAssumption DEF MtxTypeOK, GoTo, Failed
<1>1. CASE TestHandle(t)
  BY <1>1 DEF TestHandle
<1>2. CASE Publish(t)
  BY <1>2 DEF Publish
<1>3. CASE CloseOwn(t)
  BY <1>3 DEF CloseOwn
<1>4. CASE Wait(t, next)
  <2>1. mtx' = mtx /\ live' = live /\ handle' = handle
    BY <1>4 DEF Wait
  <2>2. CASE owner' = owner /\ count' = count
    BY <2>1, <2>2
  <2>3. CASE mtx \in live /\ owner' = [owner EXCEPT ![mtx] = t]
               /\ count' = [count EXCEPT ![mtx] = @ + 1]
    <3>1. mtx \in Handles
      BY <2>3
    <3>2. owner' \in [Handles -> Threads \union {Free}]
      BY <2>3
    <3>3. count[mtx] + 1 \in Nat
      BY <3>1
    <3>4. count' \in [Handles -> Nat]
      BY <2>3, <3>1, <3>3
    <3>5. QED
      BY <2>1, <3>2, <3>4
  <2>4. QED
    BY <1>4, <2>2, <2>3 DEF Wait
<1>5. QED
  BY <1>1, <1>2, <1>3, <1>4 DEF LockStep

(* So does the invariant: of several threads that find the mutex not       *)
(* created yet, one succeeds with the compare and exchange, and what the   *)
(* others close is their own.                                              *)
LEMMA LockStepInv ==
  ASSUME NEW Labels, pc \in [Threads -> Labels], MtxTypeOK, MtxInv,
         NEW t \in Threads, NEW next, LockStep(t, next),
         next \notin Creating \union {"wait", "lock_failed"}
  PROVE  MtxInv'
<1> USE WinMutexAssumption DEF MtxTypeOK, GoTo, Failed, Creating
<1>1. CASE TestHandle(t)
  <2>1. pc[t] = "lock" /\ mtx' = mtx /\ owner' = owner /\ count' = count
    BY <1>1 DEF TestHandle
  <2>2. CASE mtx # Null /\ GoTo(t, "wait") /\ live' = live /\ handle' = handle
    BY <2>1, <2>2 DEF MtxInv, KeptIsOpen, ClosersKnow, OwnHandles, NoneForgotten,
                      OwnedIsCounted, FailureHasCause
  <2>3. CASE "create" \in MayFail /\ GoTo(t, "lock_failed")
               /\ live' = live /\ handle' = handle
    BY <2>1, <2>3 DEF MtxInv, KeptIsOpen, ClosersKnow, OwnHandles, NoneForgotten,
                      OwnedIsCounted, FailureHasCause
  <2>4. ASSUME NEW h \in Handles \ live, mtx = Null, live' = live \union {h},
               handle' = [handle EXCEPT ![t] = h], GoTo(t, "publish")
        PROVE  MtxInv'
    <3>1. KeptIsOpen' /\ ClosersKnow' /\ OwnedIsCounted' /\ FailureHasCause'
      BY <2>1, <2>4 DEF MtxInv, KeptIsOpen, ClosersKnow, OwnedIsCounted,
                        FailureHasCause
    <3>2. OwnHandles'
      BY <2>1, <2>4 DEF MtxInv, OwnHandles
    <3>3. NoneForgotten'
      BY <2>1, <2>4 DEF MtxInv, NoneForgotten
    <3>4. QED
      BY <3>1, <3>2, <3>3 DEF MtxInv
  <2>5. QED
    BY <1>1, <2>2, <2>3, <2>4 DEF TestHandle
<1>2. CASE Publish(t)
  <2>1. pc[t] = "publish" /\ live' = live /\ owner' = owner /\ count' = count
    BY <1>2 DEF Publish
  <2>2. CASE mtx = Null /\ mtx' = handle[t] /\ handle' = [handle EXCEPT ![t] = Null]
               /\ GoTo(t, "wait")
    <3>1. handle[t] \in live /\ handle[t] # Null
      BY <2>1 DEF MtxInv, OwnHandles
    <3>2. KeptIsOpen' /\ ClosersKnow' /\ OwnedIsCounted' /\ FailureHasCause'
      BY <2>1, <2>2, <3>1 DEF MtxInv, KeptIsOpen, ClosersKnow, OwnedIsCounted,
                              FailureHasCause
    <3>3. OwnHandles'
      BY <2>1, <2>2, <3>1 DEF MtxInv, OwnHandles
    <3>4. NoneForgotten'
      BY <2>1, <2>2, <3>1 DEF MtxInv, NoneForgotten
    <3>5. QED
      BY <3>2, <3>3, <3>4 DEF MtxInv
  <2>3. CASE mtx # Null /\ GoTo(t, "close") /\ mtx' = mtx /\ handle' = handle
    BY <2>1, <2>3 DEF MtxInv, KeptIsOpen, ClosersKnow, OwnHandles, NoneForgotten,
                      OwnedIsCounted, FailureHasCause
  <2>4. QED
    BY <1>2, <2>2, <2>3 DEF Publish
<1>3. CASE CloseOwn(t)
  <2>1. /\ pc[t] = "close" /\ mtx' = mtx /\ owner' = owner /\ count' = count
        /\ handle' = [handle EXCEPT ![t] = Null]
    BY <1>3 DEF CloseOwn
  <2>2. handle[t] \in live \ {mtx} /\ mtx # Null
    BY <2>1 DEF MtxInv, OwnHandles, ClosersKnow
  <2>3. CASE live' = live \ {handle[t]} /\ GoTo(t, "wait")
    <3>1. KeptIsOpen' /\ ClosersKnow' /\ OwnedIsCounted' /\ FailureHasCause'
      BY <2>1, <2>2, <2>3 DEF MtxInv, KeptIsOpen, ClosersKnow, OwnedIsCounted,
                              FailureHasCause
    <3>2. OwnHandles'
      BY <2>1, <2>2, <2>3 DEF MtxInv, OwnHandles
    <3>3. NoneForgotten'
      BY <2>1, <2>2, <2>3 DEF MtxInv, NoneForgotten
    <3>4. QED
      BY <3>1, <3>2, <3>3 DEF MtxInv
  <2>4. CASE "close" \in MayFail /\ GoTo(t, "lock_failed") /\ live' = live
    BY <2>1, <2>2, <2>4 DEF MtxInv, KeptIsOpen, ClosersKnow, OwnHandles,
                            NoneForgotten, OwnedIsCounted, FailureHasCause
  <2>5. QED
    BY <1>3, <2>3, <2>4 DEF CloseOwn
<1>4. CASE Wait(t, next)
  <2>1. pc[t] = "wait" /\ mtx' = mtx /\ live' = live /\ handle' = handle
    BY <1>4 DEF Wait
  <2>2. mtx \in live
    BY <2>1 DEF MtxInv, ClosersKnow, KeptIsOpen
  <2>3. CASE owner' = [owner EXCEPT ![mtx] = t] /\ count' = [count EXCEPT ![mtx] = @ + 1]
               /\ GoTo(t, next)
    <3>1. count[mtx] + 1 # 0
      <4>1. count[mtx] \in Nat
        BY <2>2
      <4>2. QED
        BY <4>1
    <3>2. OwnedIsCounted'
      BY <2>2, <2>3, <3>1 DEF MtxInv, OwnedIsCounted
    <3>3. KeptIsOpen' /\ ClosersKnow' /\ FailureHasCause'
      BY <2>1, <2>2, <2>3 DEF MtxInv, KeptIsOpen, ClosersKnow, FailureHasCause
    <3>4. OwnHandles' /\ NoneForgotten'
      BY <2>1, <2>2, <2>3 DEF MtxInv, OwnHandles, NoneForgotten
    <3>5. QED
      BY <3>2, <3>3, <3>4 DEF MtxInv
  <2>4. CASE "wait" \in MayFail /\ GoTo(t, "lock_failed") /\ owner' = owner
               /\ count' = count
    BY <2>1, <2>2, <2>4 DEF MtxInv, KeptIsOpen, ClosersKnow, OwnHandles,
                            NoneForgotten, OwnedIsCounted, FailureHasCause
  <2>5. QED
    BY <1>4, <2>2, <2>3, <2>4 DEF Wait
<1>5. QED
  BY <1>1, <1>2, <1>3, <1>4 DEF LockStep

(* A thread that owns the mutex keeps it while another one locks,          *)
LEMMA LockStepOwner ==
  ASSUME NEW Labels, pc \in [Threads -> Labels], MtxTypeOK, MtxInv,
         NEW t \in Threads, NEW next, LockStep(t, next),
         NEW u \in Threads, u # t, Owns(u)
  PROVE  Owns(u)'
<1> USE WinMutexAssumption DEF MtxTypeOK, Owns
<1>1. CASE TestHandle(t)
  BY <1>1 DEF TestHandle
<1>2. CASE Publish(t)
  BY <1>2 DEF Publish
<1>3. CASE CloseOwn(t)
  BY <1>3 DEF CloseOwn, MtxInv, OwnHandles, Creating
<1>4. CASE Wait(t, next)
  BY <1>4 DEF Wait
<1>5. QED
  BY <1>1, <1>2, <1>3, <1>4 DEF LockStep

(* and a thread that ends w_mtx_lock() with success owns it.               *)
LEMMA LockStepTakes ==
  ASSUME NEW Labels, pc \in [Threads -> Labels], MtxTypeOK,
         NEW t \in Threads, NEW next, LockStep(t, next),
         next \notin MtxLabels, pc'[t] = next
  PROVE  Owns(t)'
<1> USE WinMutexAssumption DEF MtxTypeOK, Owns, GoTo, Failed, MtxLabels
<1>1. CASE TestHandle(t)
  BY <1>1 DEF TestHandle
<1>2. CASE Publish(t)
  BY <1>2 DEF Publish
<1>3. CASE CloseOwn(t)
  BY <1>3 DEF CloseOwn
<1>4. CASE Wait(t, next)
  BY <1>4 DEF Wait
<1>5. QED
  BY <1>1, <1>2, <1>3, <1>4 DEF LockStep

(* The callers keep the types and the invariant,                           *)
LEMMA CallerStepInv ==
  ASSUME NEW Labels, pc \in [Threads -> Labels], MtxTypeOK, MtxInv,
         NEW t \in Threads, NEW label, CallerStep(t, label)
  PROVE  MtxTypeOK' /\ MtxInv'
<1> USE WinMutexAssumption DEF MtxTypeOK, GoTo, Creating
<1>1. pc' = [pc EXCEPT ![t] = label] /\ pc[t] \notin {"publish", "close"}
        /\ label \notin {"publish", "close", "wait", "lock_failed"}
  BY DEF CallerStep
<1>2. mtx' = mtx /\ live' = live /\ handle' = handle
  BY DEF CallerStep, Release, Abandon, mtxVars
<1>3. KeptIsOpen' /\ ClosersKnow' /\ FailureHasCause'
  BY <1>1, <1>2 DEF MtxInv, KeptIsOpen, ClosersKnow, FailureHasCause
<1>4. OwnHandles'
  BY <1>1, <1>2 DEF MtxInv, OwnHandles
<1>5. NoneForgotten'
  BY <1>1, <1>2 DEF MtxInv, NoneForgotten
<1>6. /\ owner' \in [Handles -> Threads \union {Free}]
      /\ count' \in [Handles -> Nat]
      /\ OwnedIsCounted'
  <2>1. CASE Release(t)
    <3>1. mtx \in Handles /\ owner[mtx] # Free
      BY <2>1 DEF Release, Owns
    <3>2. count[mtx] \in Nat /\ count[mtx] # 0
      BY <3>1 DEF MtxInv, OwnedIsCounted
    <3>3. count[mtx] - 1 \in Nat /\ (count[mtx] # 1 => count[mtx] - 1 # 0)
      BY <3>2
    <3>4. count' = [count EXCEPT ![mtx] = count[mtx] - 1]
            /\ owner' = [owner EXCEPT ![mtx] = IF count[mtx] = 1 THEN Free ELSE t]
      BY <2>1 DEF Release
    <3>5. QED
      BY <3>1, <3>3, <3>4 DEF MtxInv, OwnedIsCounted
  <2>2. CASE Abandon(t)
    BY <2>2 DEF Abandon, MtxInv, OwnedIsCounted
  <2>3. CASE UNCHANGED mtxVars
    BY <2>3 DEF mtxVars, MtxInv, OwnedIsCounted
  <2>4. QED
    BY <2>1, <2>2, <2>3 DEF CallerStep
<1>7. QED
  BY <1>2, <1>3, <1>4, <1>5, <1>6 DEF MtxInv

(* and no thread loses the mutex by what another one does.                 *)
LEMMA CallerStepOwner ==
  ASSUME NEW t \in Threads, NEW label, CallerStep(t, label), MtxTypeOK,
         NEW u \in Threads, u # t, Owns(u)
  PROVE  Owns(u)'
BY DEF CallerStep, Release, Abandon, mtxVars, Owns, MtxTypeOK

(* In the beginning.                                                       *)
LEMMA MtxInitInv ==
  ASSUME MtxInit, \A t \in Threads : pc[t] = "idle"
  PROVE  MtxTypeOK /\ MtxInv
BY WinMutexAssumption DEF MtxInit, MtxTypeOK, MtxInv, KeptIsOpen, ClosersKnow,
   OwnHandles, NoneForgotten, OwnedIsCounted, FailureHasCause, Creating

=============================================================================
