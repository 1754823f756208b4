---------------------------- MODULE TracerProofs ----------------------------
(***************************************************************************)
(* Theorems about Tracer for every number of threads, objects, data and    *)
(* entries: what TypeOK, EntriesApart and ImplementsTable say.             *)
(***************************************************************************)
EXTENDS Tracer, WinMutexProofs, FiniteSetTheorems, WellFoundedInduction

Labels == MtxLabels \union Locked \union {"idle", "use"}

\* Only a thread that owns the mutex is in the pool.
LockedOwns == \A t \in Threads : pc[t] \in Locked => Owns(t)

\* An entry that is valid is the only one of an object that is traced.  With
\* assertions every such object has one.
PoolInv ==
    /\ \A i \in 1 .. Capacity :
         pool[i].valid => /\ pool[i].key \in created
                          /\ pool[i].data \in Data
    /\ \A i, j \in 1 .. Capacity :
         pool[i].valid /\ pool[j].valid /\ pool[i].key = pool[j].key => i = j
    /\ asserts => \A o \in created : Matching(pool, o) # {}

\* The label and the operation of a thread fit each other,
CallInv(t) ==
    /\ pc[t] = "idle" => op[t] = "none"
    /\ pc[t] # "idle" => op[t] # "none"
    /\ pc[t] \in {"insert", "fill"} => op[t] = "insert"
    /\ pc[t] = "remove" => op[t] = "remove"
    /\ pc[t] \in {"find", "use"} => op[t] = "find"
    /\ op[t] = "insert" => arg[t] \in Data

\* its object is traced or not, as the operation wants it,
ObjectInv(t) ==
    /\ op[t] = "insert" /\ pc[t] # "unlock" => obj[t] \notin created
    /\ op[t] = "remove" /\ pc[t] # "unlock" => obj[t] \in created
    /\ op[t] = "find" => obj[t] \in created

\* and the entry that it found or chose still is what it was.
EntryInv(t) ==
    /\ pc[t] = "idle" => entry[t] = 0
    /\ op[t] = "find" /\ pc[t] \notin {"unlock", "use"} => entry[t] = 0
    /\ op[t] = "find" /\ pc[t] \in {"unlock", "use"} /\ entry[t] = 0 =>
         Matching(pool, obj[t]) = {}
    /\ op[t] = "find" /\ pc[t] \in {"unlock", "use"} /\ entry[t] # 0 =>
         pool[entry[t]].valid /\ pool[entry[t]].key = obj[t]
    /\ pc[t] = "fill" => entry[t] # 0 /\ ~pool[entry[t]].valid

Inv ==
    /\ TypeOK
    /\ MtxInv
    /\ LockedOwns
    /\ PoolInv
    /\ \A t \in Threads : CallInv(t) /\ ObjectInv(t) /\ EntryInv(t)

-----------------------------------------------------------------------------
(* The pool.                                                               *)

(* The entry that is chosen is not valid,                                  *)
LEMMA VacantIsInvalid ==
  ASSUME TypeOK, NEW i \in Vacant(pool)
  PROVE  i \in 1 .. Capacity /\ ~pool[i].valid
BY DEF TypeOK, Vacant, First

(* and the one that is found belongs to the object.                        *)
LEMMA FoundMatches ==
  ASSUME TypeOK, NEW o, NEW i \in Found(pool, o)
  PROVE  i \in 1 .. Capacity /\ pool[i].valid /\ pool[i].key = o
BY DEF TypeOK, Found, Matching, First

(* There is an entry to be found unless there is none of the object.       *)
LEMMA FoundIsMatching ==
  ASSUME TypeOK, PoolInv, NEW o
  PROVE  Found(pool, o) = Matching(pool, o)
<1>1. \A i, j \in Matching(pool, o) : i = j
  BY DEF TypeOK, PoolInv, Matching
<1>2. \A i \in Matching(pool, o) : i \in Int
  BY DEF TypeOK, Matching
<1>3. QED
  BY <1>1, <1>2 DEF Found, First

(* The first loop of the pool ends without an entry only if all are valid. *)
LEMMA NoneVacant ==
  ASSUME TypeOK, Vacant(pool) = {}, NEW i \in 1 .. Capacity
  PROVE  pool[i].valid
<1> DEFINE S == {j \in 1 .. Capacity : ~pool[j].valid}
<1>1. SUFFICES ASSUME S # {} PROVE FALSE
  BY DEF TypeOK
<1>2. S \subseteq Nat
  BY TracerAssumption
<1>3. PICK x \in S : \A y \in S : ~(<<y, x>> \in OpToRel(<, Nat))
  <2> HIDE DEF S
  <2>1. QED
    BY <1>1, <1>2, NatLessThanWellFounded, WFMin
<1>4. \A y \in S : ~(y < x)
  BY <1>2, <1>3 DEF OpToRel
<1>5. x \in First(S)
  <2> HIDE DEF S
  <2>1. QED
    BY <1>2, <1>4 DEF First
<1>6. First(S) = Vacant(pool)
  BY DEF Vacant, TypeOK
<1>7. QED
  BY <1>5, <1>6

-----------------------------------------------------------------------------
(* The mutex.                                                              *)

\* What a step may be to the mutex.
MutexStep(t) ==
    \/ LockStep(t, op[t]) /\ UNCHANGED callVars
    \/ \E label \in {"lock", "idle", "use"} : CallerStep(t, label)
    \/ CallerStep(t, "fill") /\ pc[t] \in Locked
    \/ CallerStep(t, "unlock") /\ pc[t] \in Locked
    \/ UNCHANGED <<mtxVars, pc>>

(* Threads in the pool own the mutex, however the others try to create it, *)
(* wait for it and give it back.                                           *)
LEMMA MutexStepInv ==
  ASSUME Inv, NEW t \in Threads, MutexStep(t),
         pc[t] \in Locked /\ pc'[t] \in Locked => UNCHANGED mtxVars
  PROVE  MtxTypeOK' /\ MtxInv' /\ LockedOwns' /\ pc' \in [Threads -> Labels]
<1>1. MtxTypeOK /\ MtxInv /\ pc \in [Threads -> Labels] /\ LockedOwns
  BY DEF Inv, TypeOK, Labels
<1>2. CASE LockStep(t, op[t])
  <2>1. op[t] \in {"insert", "remove", "find"}
    BY <1>2 DEF Inv, TypeOK, CallInv, LockStep, TestHandle, Publish, CloseOwn, Wait
  <2>2. MtxTypeOK' /\ MtxInv'
    <3>1. op[t] \notin Creating \union {"wait", "lock_failed"}
      BY <2>1 DEF Creating
    <3>2. MtxTypeOK'
      BY <1>1, <1>2, LockStepType
    <3>3. MtxInv'
      BY <1>1, <1>2, <3>1, LockStepInv
    <3>4. QED
      BY <3>2, <3>3
  <2>3. /\ pc' \in [Threads -> Labels]
        /\ pc'[t] \in MtxLabels \union {op[t]}
        /\ \A u \in Threads : u # t => pc'[u] = pc[u]
    BY <1>1, <1>2, <2>1 DEF LockStep, TestHandle, Publish, CloseOwn, Wait, GoTo,
       Failed, Labels, MtxLabels, Locked
  <2>4. ASSUME NEW u \in Threads, u # t, pc'[u] \in Locked PROVE Owns(u)'
    <3>1. Owns(u)
      BY <1>1, <2>3, <2>4 DEF LockedOwns
    <3>2. QED
      BY <1>1, <1>2, <2>4, <3>1, LockStepOwner
  <2>5. ASSUME pc'[t] \in Locked PROVE Owns(t)'
    <3>1. pc'[t] = op[t] /\ op[t] \notin MtxLabels
      BY <2>1, <2>3, <2>5 DEF MtxLabels, Locked
    <3>2. QED
      BY <1>1, <1>2, <3>1, LockStepTakes
  <2>6. QED
    BY <2>2, <2>3, <2>4, <2>5 DEF LockedOwns
<1>3. ASSUME NEW label \in {"lock", "idle", "use", "fill", "unlock"},
             CallerStep(t, label),
             label \in {"fill", "unlock"} => pc[t] \in Locked
      PROVE  MtxTypeOK' /\ MtxInv' /\ LockedOwns' /\ pc' \in [Threads -> Labels]
  <2>1. MtxTypeOK' /\ MtxInv'
    BY <1>1, <1>3, CallerStepInv
  <2>2. pc' = [pc EXCEPT ![t] = label]
    BY <1>3 DEF CallerStep, GoTo
  <2>3. ASSUME NEW u \in Threads, u # t, pc'[u] \in Locked PROVE Owns(u)'
    <3>1. Owns(u)
      BY <1>1, <2>2, <2>3 DEF LockedOwns
    <3>2. QED
      BY <1>1, <1>3, <2>3, <3>1, CallerStepOwner
  <2>4. ASSUME pc'[t] \in Locked PROVE Owns(t)'
    <3>1. pc'[t] = label /\ label \in {"fill", "unlock"}
      BY <1>1, <2>2, <2>4 DEF Locked
    <3>2. Owns(t) /\ UNCHANGED mtxVars
      BY <1>1, <1>3, <2>4, <3>1 DEF LockedOwns
    <3>3. QED
      BY <3>2 DEF Owns, mtxVars
  <2>5. pc' \in [Threads -> Labels]
    BY <1>1, <2>2 DEF Labels, MtxLabels, Locked
  <2>6. QED
    BY <2>1, <2>3, <2>4, <2>5 DEF LockedOwns
<1>4. CASE UNCHANGED <<mtxVars, pc>>
  BY <1>1, <1>4 DEF mtxVars, MtxTypeOK, MtxInv, KeptIsOpen, ClosersKnow, OwnHandles,
     NoneForgotten, OwnedIsCounted, FailureHasCause, LockedOwns, Owns
<1>5. QED
  BY <1>2, <1>3, <1>4 DEF MutexStep

(* Two threads are never in the pool at once.                              *)
LEMMA OneInPool ==
  ASSUME Inv, NEW t \in Threads, NEW u \in Threads,
         pc[t] \in Locked, pc[u] \in Locked
  PROVE  t = u
BY DEF Inv, LockedOwns, Owns

(* Every step is one of these to the mutex.                                *)
LEMMA StepIsMutexStep ==
  ASSUME Inv, NEW t \in Threads, Call(t) \/ Step(t)
  PROVE  /\ MutexStep(t)
         /\ pc[t] \in Locked /\ pc'[t] \in Locked => UNCHANGED mtxVars
<1> USE DEF GoTo, Return
<1>0. pc \in [Threads -> Labels]
  BY DEF Inv, TypeOK, Labels
<1>1. CASE Call(t)
  BY <1>0, <1>1 DEF Call, W_TRACER_ATTACH_DATA, W_TRACER_DETACH_DATA,
     W_TRACER_FIND_DATA, Begin, MutexStep, CallerStep, Creating, Locked
<1>2. CASE Lock(t)
  BY <1>2 DEF Lock, MutexStep, LockStep, callVars, TestHandle, Publish, CloseOwn,
     Wait, Locked
<1>3. CASE ChooseEntry(t)
  BY <1>0, <1>3 DEF ChooseEntry, MutexStep, CallerStep, Creating, Locked
<1>4. CASE FillEntry(t)
  BY <1>0, <1>4 DEF FillEntry, MutexStep, CallerStep, Creating, Locked
<1>5. CASE PoolFull(t)
  BY <1>0, <1>5 DEF PoolFull, Stop, MutexStep, CallerStep, Creating, Locked, mtxVars
<1>6. CASE wp_trace_pool_remove_data(t)
  BY <1>0, <1>6 DEF wp_trace_pool_remove_data, MutexStep, CallerStep, Creating, Locked
<1>7. CASE NothingToRemove(t)
  BY <1>0, <1>7 DEF NothingToRemove, Stop, MutexStep, CallerStep, Creating, Locked,
     mtxVars
<1>8. CASE wp_trace_pool_find_data(t)
  BY <1>0, <1>8 DEF wp_trace_pool_find_data, MutexStep, CallerStep, Creating, Locked
<1>9. CASE Unlock(t)
  BY <1>0, <1>9 DEF Unlock, MutexStep, CallerStep, Creating, Locked
<1>10. CASE UseDatum(t)
  BY <1>0, <1>10 DEF UseDatum, MutexStep, CallerStep, Creating, Locked
<1>11. CASE UseNull(t)
  BY <1>0, <1>11 DEF UseNull, Stop, MutexStep, CallerStep, Creating, Locked, mtxVars
<1>12. CASE LockFailed(t) \/ UnlockFails(t)
  BY <1>12 DEF LockFailed, UnlockFails, Stop, MutexStep, mtxVars
<1>13. QED
  BY <1>1, <1>2, <1>3, <1>4, <1>5, <1>6, <1>7, <1>8, <1>9, <1>10, <1>11, <1>12
     DEF Step

-----------------------------------------------------------------------------
(* The calls.                                                              *)

\* What is proved of every step besides MutexStepInv.
Threadwise == \A t \in Threads : CallInv(t) /\ ObjectInv(t) /\ EntryInv(t)

CallsInv == TypeOK /\ PoolInv /\ Threadwise

\* What is in the pool.
Entries == [valid : BOOLEAN, key : Objects \union {0}, data : Data \union {0}]

(* The variables keep their types at the end of a call.                    *)
LEMMA ReturnType ==
  ASSUME TypeOK, NEW t \in Threads, Return(t), MtxTypeOK',
         UNCHANGED <<asserts, created, end>>,
         pool' \in [1 .. Capacity -> Entries],
         answer' \in [Threads -> Data \union {NoDatum}]
  PROVE  TypeOK'
<1>1. /\ pc' = [pc EXCEPT ![t] = "idle"]
      /\ op' = [op EXCEPT ![t] = "none"]
      /\ obj' = [obj EXCEPT ![t] = NoObject]
      /\ arg' = [arg EXCEPT ![t] = NoDatum]
      /\ entry' = [entry EXCEPT ![t] = 0]
  BY DEF Return, GoTo
<1>2. /\ pc' \in [Threads -> MtxLabels \union Locked \union {"idle", "use"}]
      /\ op' \in [Threads -> {"none", "insert", "remove", "find"}]
      /\ obj' \in [Threads -> Objects \union {NoObject}]
      /\ arg' \in [Threads -> Data \union {NoDatum}]
  BY <1>1 DEF TypeOK
<1>3. entry' \in [Threads -> 0 .. Capacity]
  BY <1>1, TracerAssumption DEF TypeOK
<1>4. /\ \A u \in Threads : (obj'[u] = NoObject) <=> (pc'[u] = "idle")
      /\ \A u, v \in Threads : obj'[u] = obj'[v] /\ obj'[u] # NoObject => u = v
  BY <1>1 DEF TypeOK
<1>5. pool' \in [1 .. Capacity -> [valid : BOOLEAN, key : Objects \union {0},
                                  data : Data \union {0}]]
  BY DEF Entries
<1>6. asserts' \in BOOLEAN /\ created' \subseteq Objects
        /\ end' \in {"running", "assertion", "mutex", "crash"}
  BY DEF TypeOK
<1>7. QED
  BY <1>2, <1>3, <1>4, <1>5, <1>6 DEF TypeOK

(* The variables that are not of the mutex keep their types.               *)
LEMMA StepType ==
  ASSUME Inv, NEW t \in Threads, Call(t) \/ Step(t),
         MtxTypeOK', pc' \in [Threads -> Labels]
  PROVE  TypeOK'
<1> USE DEF TypeOK, GoTo, Stop
<1>1. /\ TypeOK /\ PoolInv /\ CallInv(t) /\ ObjectInv(t) /\ EntryInv(t)
      /\ pc' \in [Threads -> MtxLabels \union Locked \union {"idle", "use"}]
  BY DEF Inv, Labels
<1>2. CASE Call(t)
  <2>1. PICK o \in Objects, operation \in {"insert", "remove", "find"},
             d \in Data \union {NoDatum} : Begin(t, operation, o, d)
    BY <1>2 DEF Call, W_TRACER_ATTACH_DATA, W_TRACER_DETACH_DATA, W_TRACER_FIND_DATA
  <2>2. o # NoObject /\ \A u \in Threads : obj[u] # o
    BY <2>1, TracerAssumption DEF Begin, InUse
  <2>3. QED
    BY <1>1, <2>1, <2>2 DEF Begin
<1>3. CASE Lock(t)
  <2>1. pc[t] # "idle" /\ pc'[t] # "idle" /\ \A u \in Threads : u # t => pc'[u] = pc[u]
    BY <1>1, <1>3 DEF Lock, TestHandle, Publish, CloseOwn, Wait, Failed, CallInv
  <2>2. UNCHANGED <<asserts, pool, created, callVars, answer, end>>
    BY <1>3 DEF Lock
  <2>3. QED
    BY <1>1, <2>1, <2>2 DEF callVars
<1>4. CASE ChooseEntry(t)
  BY <1>1, <1>4, VacantIsInvalid DEF ChooseEntry
<1>5. CASE FillEntry(t)
  <2>1. entry[t] \in 1 .. Capacity /\ arg[t] \in Data /\ obj[t] \in Objects
    BY <1>1, <1>5 DEF FillEntry, EntryInv, CallInv
  <2>2. pool' = [pool EXCEPT ![entry[t]] =
                   [valid |-> TRUE, key |-> obj[t], data |-> arg[t]]]
    BY <1>5 DEF FillEntry, Inserted
  <2>3. pool' \in [1 .. Capacity -> [valid : BOOLEAN, key : Objects \union {0},
                                     data : Data \union {0}]]
    BY <1>1, <2>1, <2>2
  <2>4. QED
    BY <1>1, <1>5, <2>1, <2>3 DEF FillEntry, callVars
<1>6. CASE PoolFull(t)
  BY <1>1, <1>6 DEF PoolFull, callVars, mtxVars
<1>7. CASE wp_trace_pool_remove_data(t)
  <2>1. PICK i \in Found(pool, obj[t]) : pool' = [pool EXCEPT ![i].valid = FALSE]
    BY <1>7 DEF wp_trace_pool_remove_data, Removed
  <2>2. i \in 1 .. Capacity
    BY <1>1, FoundMatches
  <2>3. pool' \in [1 .. Capacity -> [valid : BOOLEAN, key : Objects \union {0},
                                     data : Data \union {0}]]
    BY <1>1, <2>1, <2>2
  <2>4. QED
    BY <1>1, <1>7, <2>3 DEF wp_trace_pool_remove_data, callVars
<1>8. CASE NothingToRemove(t)
  BY <1>1, <1>8 DEF NothingToRemove, callVars, mtxVars
<1>9. CASE wp_trace_pool_find_data(t)
  BY <1>1, <1>9, FoundMatches DEF wp_trace_pool_find_data
<1>10. CASE Unlock(t)
  <2>1. CASE op[t] = "find"
    BY <1>1, <1>10, <2>1 DEF Unlock, callVars
  <2>2. CASE op[t] # "find"
    <3>1. Return(t) /\ UNCHANGED <<asserts, pool, created, answer, end>>
      BY <1>10, <2>2 DEF Unlock
    <3>2. QED
      BY <1>1, <3>1, ReturnType DEF Entries
  <2>3. QED
    BY <2>1, <2>2
<1>11. CASE UseDatum(t)
  <2>1. /\ pc[t] = "use" /\ entry[t] \in 1 .. Capacity
        /\ pool[entry[t]].data \in Data
        /\ Return(t) /\ UNCHANGED <<asserts, created, end>>
    BY <1>1, <1>11 DEF UseDatum, EntryInv, CallInv, PoolInv
  <2>2. CASE arg[t] = NoDatum
    <3>1. pool' = pool /\ answer' = [answer EXCEPT ![t] = pool[entry[t]].data]
      BY <1>11, <2>2 DEF UseDatum
    <3>2. QED
      BY <1>1, <2>1, <3>1, ReturnType DEF Entries
  <2>3. CASE arg[t] # NoDatum
    <3>1. /\ pool' = [pool EXCEPT ![entry[t]].data = arg[t]]
          /\ arg[t] \in Data
          /\ answer' = answer
      BY <1>1, <1>11, <2>3 DEF UseDatum
    <3>2. [pool[entry[t]] EXCEPT !.data = arg[t]] \in Entries
      BY <1>1, <2>1, <3>1 DEF Entries
    <3>3. pool' \in [1 .. Capacity -> Entries]
      <4>1. pool \in [1 .. Capacity -> Entries]
        BY <1>1 DEF Entries
      <4>2. QED
        BY <2>1, <3>1, <3>2, <4>1
    <3>4. QED
      BY <1>1, <2>1, <3>1, <3>3, ReturnType
  <2>4. QED
    BY <2>2, <2>3
<1>12. CASE UseNull(t)
  <2>1. CASE Stop("crash")
    BY <1>1, <2>1 DEF callVars, mtxVars
  <2>2. CASE Return(t) /\ UNCHANGED <<mtxVars, asserts, pool, created, end>>
               /\ answer' = [answer EXCEPT ![t] = NoDatum]
    BY <1>1, <2>2, ReturnType DEF Entries
  <2>3. QED
    BY <1>12, <2>1, <2>2 DEF UseNull
<1>13. CASE LockFailed(t) \/ UnlockFails(t)
  BY <1>1, <1>13 DEF LockFailed, UnlockFails, callVars, mtxVars
<1>14. QED
  BY <1>2, <1>3, <1>4, <1>5, <1>6, <1>7, <1>8, <1>9, <1>10, <1>11, <1>12, <1>13
     DEF Step

-----------------------------------------------------------------------------
(* The invariant of the other threads.                                     *)

(* A step changes the locals of its own thread,                            *)
LEMMA OwnLocals ==
  ASSUME Inv, NEW t \in Threads, Call(t) \/ Step(t), NEW u \in Threads, u # t
  PROVE  /\ pc'[u] = pc[u] /\ op'[u] = op[u] /\ obj'[u] = obj[u]
         /\ arg'[u] = arg[u] /\ entry'[u] = entry[u]
<1>1. /\ pc \in [Threads -> Labels]
      /\ op \in [Threads -> {"none", "insert", "remove", "find"}]
      /\ obj \in [Threads -> Objects \union {NoObject}]
      /\ arg \in [Threads -> Data \union {NoDatum}]
      /\ entry \in [Threads -> 0 .. Capacity]
  BY DEF Inv, TypeOK, Labels
<1> USE <1>1 DEF GoTo, Return, Stop, callVars, mtxVars
<1>2. CASE Call(t)
  BY <1>2 DEF Call, W_TRACER_ATTACH_DATA, W_TRACER_DETACH_DATA, W_TRACER_FIND_DATA,
     Begin
<1>3. CASE Lock(t)
  BY <1>3 DEF Lock, TestHandle, Publish, CloseOwn, Wait, Failed
<1>4. CASE ChooseEntry(t) \/ FillEntry(t) \/ PoolFull(t)
  BY <1>4 DEF ChooseEntry, FillEntry, PoolFull
<1>5. CASE wp_trace_pool_remove_data(t) \/ NothingToRemove(t)
             \/ wp_trace_pool_find_data(t)
  BY <1>5 DEF wp_trace_pool_remove_data, NothingToRemove, wp_trace_pool_find_data
<1>6. CASE Unlock(t) \/ UseDatum(t) \/ UseNull(t)
  BY <1>6 DEF Unlock, UseDatum, UseNull
<1>7. CASE LockFailed(t) \/ UnlockFails(t)
  BY <1>7 DEF LockFailed, UnlockFails
<1>8. QED
  BY <1>2, <1>3, <1>4, <1>5, <1>6, <1>7 DEF Step

\* What a step may be to the pool and to the objects that are traced.
Fills(t) ==
    /\ pc[t] = "fill"
    /\ pool' = Inserted(pool, entry[t], obj[t], arg[t])
    /\ created' = created \union {obj[t]}

Removes(t) ==
    /\ pc[t] = "remove"
    /\ \E i \in Found(pool, obj[t]) : pool' = Removed(pool, i)
    /\ created' = created \ {obj[t]}

Writes(t) ==
    /\ pc[t] = "use" /\ entry[t] # 0 /\ arg[t] # NoDatum
    /\ pool' = [pool EXCEPT ![entry[t]].data = arg[t]]
    /\ created' = created

LeavesOut(t) ==
    /\ pc[t] = "insert" /\ Vacant(pool) = {} /\ ~asserts
    /\ created' = created \union {obj[t]}
    /\ pool' = pool

ForgetsNone(t) ==
    /\ pc[t] = "remove" /\ Found(pool, obj[t]) = {} /\ ~asserts
    /\ created' = created \ {obj[t]}
    /\ pool' = pool

PoolStep(t) ==
    \/ Fills(t) \/ Removes(t) \/ Writes(t) \/ LeavesOut(t) \/ ForgetsNone(t)
    \/ UNCHANGED <<pool, created>>

LEMMA StepIsPoolStep ==
  ASSUME NEW t \in Threads, Call(t) \/ Step(t)
  PROVE  PoolStep(t) /\ asserts' = asserts
<1> USE DEF Stop, PoolStep, Fills, Removes, Writes, LeavesOut, ForgetsNone
<1>1. CASE Call(t)
  BY <1>1 DEF Call, W_TRACER_ATTACH_DATA, W_TRACER_DETACH_DATA, W_TRACER_FIND_DATA,
     Begin
<1>2. CASE Lock(t) \/ LockFailed(t) \/ Unlock(t) \/ UnlockFails(t)
  BY <1>2 DEF Lock, LockFailed, Unlock, UnlockFails
<1>3. CASE ChooseEntry(t) \/ FillEntry(t) \/ PoolFull(t)
  BY <1>3 DEF ChooseEntry, FillEntry, PoolFull
<1>4. CASE wp_trace_pool_remove_data(t) \/ NothingToRemove(t)
             \/ wp_trace_pool_find_data(t)
  BY <1>4 DEF wp_trace_pool_remove_data, NothingToRemove, wp_trace_pool_find_data
<1>5. CASE UseDatum(t) \/ UseNull(t)
  BY <1>5 DEF UseDatum, UseNull
<1>6. QED
  BY <1>1, <1>2, <1>3, <1>4, <1>5 DEF Step

(* The object of a thread is not that of another one.                      *)
LEMMA ObjectsApart ==
  ASSUME Inv, NEW t \in Threads, NEW u \in Threads, u # t, pc[u] # "idle"
  PROVE  obj[u] # obj[t] /\ obj[u] \in Objects
BY DEF Inv, TypeOK

(* What changes in the pool is not the entry that another thread found or  *)
(* chose, and not that of its object.                                      *)
LEMMA OthersKeepEntries ==
  ASSUME Inv, NEW t \in Threads, Call(t) \/ Step(t), NEW u \in Threads, u # t
  PROVE  CallInv(u)' /\ ObjectInv(u)' /\ EntryInv(u)'
<1>1. /\ pc'[u] = pc[u] /\ op'[u] = op[u] /\ obj'[u] = obj[u]
      /\ arg'[u] = arg[u] /\ entry'[u] = entry[u]
  BY OwnLocals
<1>2. TypeOK /\ PoolInv /\ CallInv(u) /\ ObjectInv(u) /\ EntryInv(u)
        /\ CallInv(t) /\ ObjectInv(t) /\ EntryInv(t)
  BY DEF Inv
<1>3. CallInv(u)'
  BY <1>1, <1>2 DEF CallInv
<1>4. PoolStep(t)
  BY StepIsPoolStep
<1>5. CASE UNCHANGED <<pool, created>>
  BY <1>1, <1>2, <1>3, <1>5 DEF ObjectInv, EntryInv
<1>6. CASE pc[u] = "idle"
  BY <1>1, <1>2, <1>3, <1>6 DEF CallInv, ObjectInv, EntryInv
<1>7. ASSUME pc[u] # "idle", created' \in {created, created \union {obj[t]},
                                           created \ {obj[t]}}
      PROVE  ObjectInv(u)'
  BY <1>1, <1>2, <1>7, ObjectsApart DEF ObjectInv
<1>8. pc[t] \in Locked /\ pc[u] \in Locked => FALSE
  BY OneInPool
<1>9. pc[u] # "idle" => obj[u] # obj[t]
  BY ObjectsApart
<1>10. CASE Fills(t) /\ pc[u] # "idle"
  <2>1. /\ pool' = [pool EXCEPT ![entry[t]] =
                      [valid |-> TRUE, key |-> obj[t], data |-> arg[t]]]
        /\ entry[t] \in 1 .. Capacity /\ ~pool[entry[t]].valid
        /\ pc[u] # "fill"
    BY <1>2, <1>8, <1>10 DEF Fills, Inserted, EntryInv, TypeOK, Locked
  <2>2. Matching(pool, obj[u]) = {} => Matching(pool', obj[u]) = {}
    BY <1>2, <1>9, <1>10, <2>1 DEF Matching, TypeOK
  <2>3. \A e \in 1 .. Capacity : pool[e].valid => pool'[e] = pool[e]
    BY <1>2, <2>1 DEF TypeOK
  <2>4. entry[u] # 0 => entry[u] \in 1 .. Capacity
    BY <1>2 DEF TypeOK
  <2>5. EntryInv(u)'
    BY <1>1, <1>2, <2>1, <2>2, <2>3, <2>4 DEF EntryInv
  <2>6. QED
    BY <1>3, <1>7, <1>10, <2>5 DEF Fills
<1>11. CASE Removes(t) /\ pc[u] # "idle"
  <2>1. PICK i \in Found(pool, obj[t]) : pool' = [pool EXCEPT ![i].valid = FALSE]
    BY <1>11 DEF Removes, Removed
  <2>2. i \in 1 .. Capacity /\ pool[i].valid /\ pool[i].key = obj[t]
    BY <1>2, FoundMatches
  <2>3. Matching(pool, obj[u]) = {} => Matching(pool', obj[u]) = {}
    BY <1>2, <2>1, <2>2 DEF Matching, TypeOK
  <2>4. pc[u] # "fill"
    BY <1>8, <1>11 DEF Removes, Locked
  <2>5. \A e \in 1 .. Capacity : e # i => pool'[e] = pool[e]
    BY <1>2, <2>1 DEF TypeOK
  <2>6. entry[u] # 0 => entry[u] \in 1 .. Capacity
    BY <1>2 DEF TypeOK
  <2>7. pool[entry[u]].key = obj[u] => entry[u] # i
    BY <1>9, <1>11, <2>2
  <2>8. EntryInv(u)'
    BY <1>1, <1>2, <2>3, <2>4, <2>5, <2>6, <2>7 DEF EntryInv
  <2>9. QED
    BY <1>3, <1>7, <1>11, <2>8 DEF Removes
<1>12. CASE Writes(t) /\ pc[u] # "idle"
  <2>1. pool' = [pool EXCEPT ![entry[t]].data = arg[t]]
    BY <1>12 DEF Writes
  <2>2. DOMAIN pool' = DOMAIN pool
        /\ \A i \in DOMAIN pool : pool'[i].valid = pool[i].valid
                                    /\ pool'[i].key = pool[i].key
    BY <1>2, <2>1 DEF TypeOK
  <2>3. Matching(pool', obj[u]) = Matching(pool, obj[u])
    BY <2>2 DEF Matching
  <2>4. EntryInv(u)'
    BY <1>1, <1>2, <2>2, <2>3 DEF EntryInv, TypeOK
  <2>5. QED
    BY <1>3, <1>7, <1>12, <2>4 DEF Writes
<1>13. CASE (LeavesOut(t) \/ ForgetsNone(t)) /\ pc[u] # "idle"
  <2>1. pool' = pool
    BY <1>13 DEF LeavesOut, ForgetsNone
  <2>2. EntryInv(u)'
    BY <1>1, <1>2, <2>1 DEF EntryInv
  <2>3. QED
    BY <1>3, <1>7, <1>13, <2>2 DEF LeavesOut, ForgetsNone
<1>14. QED
  BY <1>4, <1>5, <1>6, <1>10, <1>11, <1>12, <1>13 DEF PoolStep

-----------------------------------------------------------------------------
(* The invariant of the pool and of the thread itself.                     *)

(* Entries keep apart, and with assertions none is missing.                *)
LEMMA PoolStepInv ==
  ASSUME Inv, NEW t \in Threads, PoolStep(t), asserts' = asserts
  PROVE  PoolInv'
<1>1. TypeOK /\ PoolInv /\ CallInv(t) /\ ObjectInv(t) /\ EntryInv(t)
  BY DEF Inv
<1>2. CASE UNCHANGED <<pool, created>>
  BY <1>1, <1>2 DEF PoolInv
<1>3. CASE Fills(t)
  <2> DEFINE e == entry[t]
  <2>1. /\ e \in 1 .. Capacity /\ ~pool[e].valid
        /\ pool' = [pool EXCEPT ![e] =
                      [valid |-> TRUE, key |-> obj[t], data |-> arg[t]]]
        /\ obj[t] \notin created /\ created' = created \union {obj[t]}
        /\ arg[t] \in Data
    BY <1>1, <1>3 DEF Fills, Inserted, CallInv, ObjectInv, EntryInv, TypeOK
  <2>2. /\ pool'[e].valid /\ pool'[e].key = obj[t] /\ pool'[e].data = arg[t]
        /\ \A i \in 1 .. Capacity : i # e => pool'[i] = pool[i]
        /\ DOMAIN pool = 1 .. Capacity /\ DOMAIN pool' = 1 .. Capacity
    BY <1>1, <2>1 DEF TypeOK
  <2> HIDE DEF e
  <2>3. ASSUME NEW i \in 1 .. Capacity, pool'[i].valid
        PROVE  pool'[i].key \in created' /\ pool'[i].data \in Data
    BY <1>1, <2>1, <2>2, <2>3 DEF PoolInv
  <2>4. ASSUME NEW i \in 1 .. Capacity, NEW j \in 1 .. Capacity,
               pool'[i].valid, pool'[j].valid, pool'[i].key = pool'[j].key
        PROVE  i = j
    BY <1>1, <2>1, <2>2, <2>4 DEF PoolInv
  <2>5. ASSUME asserts, NEW o \in created' PROVE Matching(pool', o) # {}
    <3>1. CASE o = obj[t]
      BY <2>1, <2>2, <3>1 DEF Matching
    <3>2. CASE o # obj[t]
      <4>1. PICK i \in 1 .. Capacity : pool[i].valid /\ pool[i].key = o
        BY <1>1, <2>1, <2>2, <2>5, <3>2 DEF PoolInv, Matching
      <4>2. i # e
        BY <2>1, <4>1
      <4>3. QED
        BY <2>2, <4>1, <4>2 DEF Matching
    <3>3. QED
      BY <3>1, <3>2
  <2>6. QED
    BY <2>3, <2>4, <2>5 DEF PoolInv
<1>4. CASE Removes(t)
  <2>1. PICK e \in Found(pool, obj[t]) : pool' = [pool EXCEPT ![e].valid = FALSE]
    BY <1>4 DEF Removes, Removed
  <2>2. e \in 1 .. Capacity /\ pool[e].valid /\ pool[e].key = obj[t]
    BY <1>1, FoundMatches
  <2>3. /\ ~pool'[e].valid
        /\ \A i \in 1 .. Capacity : i # e => pool'[i] = pool[i]
        /\ DOMAIN pool = 1 .. Capacity /\ DOMAIN pool' = 1 .. Capacity
    BY <1>1, <2>1, <2>2 DEF TypeOK
  <2>4. created' = created \ {obj[t]}
    BY <1>4 DEF Removes
  <2>5. ASSUME NEW i \in 1 .. Capacity, pool'[i].valid
        PROVE  pool'[i].key \in created' /\ pool'[i].data \in Data
    BY <1>1, <2>2, <2>3, <2>4, <2>5 DEF PoolInv
  <2>6. ASSUME NEW i \in 1 .. Capacity, NEW j \in 1 .. Capacity,
               pool'[i].valid, pool'[j].valid, pool'[i].key = pool'[j].key
        PROVE  i = j
    BY <1>1, <2>3, <2>6 DEF PoolInv
  <2>7. ASSUME asserts, NEW o \in created' PROVE Matching(pool', o) # {}
    <3>1. PICK i \in 1 .. Capacity : pool[i].valid /\ pool[i].key = o
      BY <1>1, <2>3, <2>4, <2>7 DEF PoolInv, Matching
    <3>2. i # e
      BY <2>2, <2>4, <3>1
    <3>3. QED
      BY <2>3, <3>1, <3>2 DEF Matching
  <2>8. QED
    BY <2>5, <2>6, <2>7 DEF PoolInv
<1>5. CASE Writes(t)
  <2>1. /\ pool' = [pool EXCEPT ![entry[t]].data = arg[t]]
        /\ arg[t] \in Data /\ created' = created
    BY <1>1, <1>5 DEF Writes, TypeOK
  <2>2. /\ DOMAIN pool' = DOMAIN pool /\ DOMAIN pool = 1 .. Capacity
        /\ \A i \in 1 .. Capacity :
             /\ pool'[i].valid = pool[i].valid /\ pool'[i].key = pool[i].key
             /\ pool'[i].data \in {pool[i].data, arg[t]}
    BY <1>1, <2>1 DEF TypeOK
  <2>3. \A o : Matching(pool', o) = Matching(pool, o)
    BY <2>2 DEF Matching
  <2>4. ASSUME NEW i \in 1 .. Capacity, pool'[i].valid
        PROVE  pool'[i].key \in created' /\ pool'[i].data \in Data
    <3>1. pool[i].key \in created /\ pool[i].data \in Data
      BY <1>1, <2>2, <2>4 DEF PoolInv
    <3>2. QED
      BY <2>1, <2>2, <3>1
  <2>5. ASSUME NEW i \in 1 .. Capacity, NEW j \in 1 .. Capacity,
               pool'[i].valid, pool'[j].valid, pool'[i].key = pool'[j].key
        PROVE  i = j
    BY <1>1, <2>2, <2>5 DEF PoolInv
  <2>6. asserts => \A o \in created' : Matching(pool', o) # {}
    BY <1>1, <2>1, <2>3 DEF PoolInv
  <2>7. QED
    BY <2>4, <2>5, <2>6 DEF PoolInv
<1>6. CASE LeavesOut(t)
  BY <1>1, <1>6 DEF LeavesOut, PoolInv
<1>7. CASE ForgetsNone(t)
  <2>1. Matching(pool, obj[t]) = {}
    BY <1>1, <1>7, FoundIsMatching DEF ForgetsNone
  <2>2. \A i \in 1 .. Capacity : pool[i].valid => pool[i].key # obj[t]
    BY <1>1, <2>1 DEF Matching, TypeOK
  <2>3. QED
    BY <1>1, <1>7, <2>2 DEF ForgetsNone, PoolInv
<1>8. QED
  BY <1>2, <1>3, <1>4, <1>5, <1>6, <1>7 DEF PoolStep

(* The thread that takes the step goes on as its operation wants.          *)
LEMMA OwnStepInv ==
  ASSUME Inv, NEW t \in Threads, Call(t) \/ Step(t)
  PROVE  CallInv(t)' /\ ObjectInv(t)' /\ EntryInv(t)'
<1>1. TypeOK /\ PoolInv /\ CallInv(t) /\ ObjectInv(t) /\ EntryInv(t)
  BY DEF Inv
<1>2. /\ pc \in [Threads -> Labels]
      /\ op \in [Threads -> {"none", "insert", "remove", "find"}]
      /\ obj \in [Threads -> Objects \union {NoObject}]
      /\ arg \in [Threads -> Data \union {NoDatum}]
      /\ entry \in [Threads -> 0 .. Capacity]
  BY <1>1 DEF TypeOK, Labels
<1>3. CASE Call(t)
  <2>1. pc[t] = "idle" /\ pc' = [pc EXCEPT ![t] = "lock"] /\ UNCHANGED <<entry, created>>
    BY <1>3 DEF Call, W_TRACER_ATTACH_DATA, W_TRACER_DETACH_DATA,
       W_TRACER_FIND_DATA, Begin, GoTo
  <2>2. CallInv(t)' /\ ObjectInv(t)'
    BY <1>2, <1>3, <2>1 DEF Call, W_TRACER_ATTACH_DATA, W_TRACER_DETACH_DATA,
       W_TRACER_FIND_DATA, Begin, CallInv, ObjectInv
  <2>3. QED
    BY <1>1, <1>2, <2>1, <2>2 DEF EntryInv
<1>4. CASE Lock(t)
  BY <1>1, <1>2, <1>4 DEF Lock, TestHandle, Publish, CloseOwn, Wait, Failed, GoTo,
     callVars, CallInv, ObjectInv, EntryInv
<1>5. CASE ChooseEntry(t)
  <2>1. PICK i \in Vacant(pool) : entry' = [entry EXCEPT ![t] = i]
    BY <1>5 DEF ChooseEntry
  <2>2. i \in 1 .. Capacity /\ ~pool[i].valid
    BY <1>1, VacantIsInvalid
  <2>3. i # 0
    BY <2>2
  <2>4. QED
    BY <1>1, <1>2, <1>5, <2>1, <2>2, <2>3 DEF ChooseEntry, GoTo, CallInv, ObjectInv,
       EntryInv
<1>6. CASE FillEntry(t)
  BY <1>1, <1>2, <1>6 DEF FillEntry, GoTo, callVars, CallInv, ObjectInv, EntryInv
<1>7. CASE PoolFull(t)
  BY <1>1, <1>2, <1>7 DEF PoolFull, Stop, GoTo, callVars, CallInv, ObjectInv, EntryInv
<1>8. CASE wp_trace_pool_remove_data(t)
  BY <1>1, <1>2, <1>8 DEF wp_trace_pool_remove_data, GoTo, callVars, CallInv,
     ObjectInv, EntryInv
<1>9. CASE NothingToRemove(t)
  BY <1>1, <1>2, <1>9 DEF NothingToRemove, Stop, GoTo, callVars, CallInv, ObjectInv,
     EntryInv
<1>10. CASE wp_trace_pool_find_data(t)
  <2>1. /\ pc[t] = "find" /\ op[t] = "find" /\ entry[t] = 0
        /\ pc' = [pc EXCEPT ![t] = "unlock"]
        /\ UNCHANGED <<pool, created, op, obj, arg>>
    BY <1>1, <1>10 DEF wp_trace_pool_find_data, GoTo, CallInv, EntryInv
  <2>2. CallInv(t)' /\ ObjectInv(t)'
    BY <1>1, <1>2, <2>1 DEF CallInv, ObjectInv
  <2>3. CASE Found(pool, obj[t]) = {} /\ entry' = entry
    <3>1. Matching(pool, obj[t]) = {}
      BY <1>1, <2>3, FoundIsMatching
    <3>2. QED
      BY <1>2, <2>1, <2>2, <2>3, <3>1 DEF EntryInv
  <2>4. ASSUME NEW i \in Found(pool, obj[t]), entry' = [entry EXCEPT ![t] = i]
        PROVE  EntryInv(t)'
    <3>1. i \in 1 .. Capacity /\ pool[i].valid /\ pool[i].key = obj[t]
      BY <1>1, FoundMatches
    <3>2. i # 0
      BY <3>1
    <3>3. QED
      BY <1>2, <2>1, <2>4, <3>1, <3>2 DEF EntryInv
  <2>5. QED
    BY <1>10, <2>2, <2>3, <2>4 DEF wp_trace_pool_find_data
<1>11. CASE Unlock(t)
  BY <1>1, <1>2, <1>11 DEF Unlock, Return, GoTo, callVars, CallInv, ObjectInv, EntryInv
<1>12. CASE UseDatum(t) \/ UseNull(t)
  BY <1>1, <1>2, <1>12 DEF UseDatum, UseNull, Stop, Return, GoTo, callVars, CallInv,
     ObjectInv, EntryInv
<1>13. CASE LockFailed(t) \/ UnlockFails(t)
  BY <1>1, <1>2, <1>13 DEF LockFailed, UnlockFails, Stop, callVars, CallInv, ObjectInv,
     EntryInv
<1>14. QED
  BY <1>3, <1>4, <1>5, <1>6, <1>7, <1>8, <1>9, <1>10, <1>11, <1>12, <1>13 DEF Step

-----------------------------------------------------------------------------
(* The theorems.                                                           *)

LEMMA InitInv ==
  ASSUME Init
  PROVE  Inv
<1>1. MtxTypeOK /\ MtxInv
  BY MtxInitInv DEF Init
<1>2. pool \in [1 .. Capacity -> Entries] /\ \A i \in 1 .. Capacity : ~pool[i].valid
  BY DEF Init, EmptyPool, Zeroed, Entries
<1>3. TypeOK
  BY <1>1, <1>2, TracerAssumption DEF Init, TypeOK, Entries
<1>4. PoolInv
  BY <1>2 DEF Init, PoolInv
<1>5. LockedOwns /\ \A t \in Threads : CallInv(t) /\ ObjectInv(t) /\ EntryInv(t)
  BY DEF Init, LockedOwns, Locked, CallInv, ObjectInv, EntryInv
<1>6. QED
  BY <1>1, <1>3, <1>4, <1>5 DEF Inv

LEMMA NextInv ==
  ASSUME Inv, [Next]_vars
  PROVE  Inv'
<1>1. ASSUME NEW t \in Threads, Call(t) \/ Step(t) PROVE Inv'
  <2>1. MtxTypeOK' /\ MtxInv' /\ LockedOwns' /\ pc' \in [Threads -> Labels]
    BY <1>1, StepIsMutexStep, MutexStepInv
  <2>2. TypeOK'
    BY <1>1, <2>1, StepType
  <2>3. PoolInv'
    BY <1>1, StepIsPoolStep, PoolStepInv
  <2>4. CallInv(t)' /\ ObjectInv(t)' /\ EntryInv(t)'
    BY <1>1, OwnStepInv
  <2>5. \A u \in Threads : u # t => CallInv(u)' /\ ObjectInv(u)' /\ EntryInv(u)'
    BY <1>1, OthersKeepEntries
  <2>6. \A u \in Threads : CallInv(u)' /\ ObjectInv(u)' /\ EntryInv(u)'
    BY <2>4, <2>5
  <2>7. QED
    BY <2>1, <2>2, <2>3, <2>6 DEF Inv
<1>2. CASE UNCHANGED vars
  <2>1. UNCHANGED <<mtx, live, owner, count, handle, pc, asserts, pool, created,
                    op, obj, arg, entry, answer, end>>
    BY <1>2 DEF vars, mtxVars, callVars
  <2>2. TypeOK' /\ PoolInv'
    BY <2>1 DEF Inv, TypeOK, MtxTypeOK, PoolInv
  <2>3. MtxInv' /\ LockedOwns'
    BY <2>1 DEF Inv, MtxInv, KeptIsOpen, ClosersKnow, OwnHandles, NoneForgotten,
       OwnedIsCounted, FailureHasCause, LockedOwns, Owns
  <2>4. ASSUME NEW u \in Threads PROVE CallInv(u)' /\ ObjectInv(u)' /\ EntryInv(u)'
    BY <2>1 DEF Inv, CallInv, ObjectInv, EntryInv
  <2>5. QED
    BY <2>2, <2>3, <2>4 DEF Inv
<1>3. QED
  BY <1>1, <1>2 DEF Next

LEMMA InvAlways == Spec => []Inv
BY InitInv, NextInv, PTL DEF Spec

(* The variables have the shape the code gives them, for every number of   *)
(* threads, objects and entries (trace.c, trace.h:84-150).                 *)
THEOREM TypeCorrect == Spec => []TypeOK
<1>1. Inv => TypeOK
  BY DEF Inv
<1>2. QED
  BY <1>1, InvAlways, PTL

(* One thread at a time is in the pool, an entry found is that of its      *)
(* object for as long as its address is used, without the mutex, and no    *)
(* object has two (trace.h:128-150, trace.c:13-107).                       *)
THEOREM EntriesStayApart == Spec => []EntriesApart
<1>1. ASSUME Inv PROVE EntriesApart
  <2>1. \A t, u \in Threads : pc[t] \in Locked /\ pc[u] \in Locked => t = u
    BY <1>1, OneInPool
  <2>2. ASSUME NEW t \in Threads, pc[t] = "use", entry[t] # 0
        PROVE  pool[entry[t]].valid /\ pool[entry[t]].key = obj[t]
    BY <1>1, <2>2 DEF Inv, CallInv, EntryInv
  <2>3. QED
    BY <1>1, <2>1, <2>2 DEF Inv, PoolInv, EntriesApart
<1>2. QED
  BY <1>1, InvAlways, PTL

-----------------------------------------------------------------------------
(* The table that the pool is.                                             *)

\* The datum of every object, as ImplementsTable maps it.
Datum ==
    [o \in Objects |->
        IF Traces(o) = {} THEN NoDatum ELSE pool[CHOOSE i \in Traces(o) : TRUE].data]

\* It is that of the entry of the object, if it has one.
DatumFacts ==
    \A o \in Objects :
        /\ (\A i \in 1 .. Capacity : pool[i].valid => pool[i].key # o) =>
             Datum[o] = NoDatum
        /\ \A i \in 1 .. Capacity :
             pool[i].valid /\ pool[i].key = o =>
               Datum[o] = pool[i].data /\ Datum[o] # NoDatum

LEMMA DatumIsInPool == Inv => DatumFacts
<1> SUFFICES ASSUME Inv, NEW o \in Objects
             PROVE  /\ (\A i \in 1 .. Capacity : pool[i].valid => pool[i].key # o) =>
                         Datum[o] = NoDatum
                    /\ \A i \in 1 .. Capacity :
                         pool[i].valid /\ pool[i].key = o =>
                           Datum[o] = pool[i].data /\ Datum[o] # NoDatum
  BY DEF DatumFacts
<1>1. ASSUME \A i \in 1 .. Capacity : pool[i].valid => pool[i].key # o
      PROVE  Datum[o] = NoDatum
  BY <1>1 DEF Datum, Traces
<1>2. ASSUME NEW i \in 1 .. Capacity, pool[i].valid, pool[i].key = o
      PROVE  Datum[o] = pool[i].data /\ Datum[o] # NoDatum
  <2>1. \A j \in Traces(o) : j = i
    BY <1>2 DEF Inv, PoolInv, Traces
  <2>2. i \in Traces(o)
    BY <1>2 DEF Traces
  <2>3. (CHOOSE j \in Traces(o) : TRUE) = i
    BY <2>1, <2>2
  <2>4. Datum[o] = pool[i].data
    BY <2>2, <2>3 DEF Datum
  <2>5. pool[i].data \in Data
    BY <1>2 DEF Inv, PoolInv
  <2>6. QED
    BY <2>4, <2>5, TracerAssumption
<1>3. QED
  BY <1>1, <1>2

LEMMA DatumIsInPoolNext == Inv' => DatumFacts'
BY DatumIsInPool, PTL

(* The table is full when every entry is valid: the entries and the        *)
(* objects that have one are as many.                                      *)
LEMMA FullIsFull ==
  ASSUME Inv
  PROVE  Table!Full <=> \A i \in 1 .. Capacity : pool[i].valid
<1> DEFINE V == {i \in 1 .. Capacity : pool[i].valid}
           R == {o \in Objects : Datum[o] # NoDatum}
           f == [i \in V |-> pool[i].key]
<1>1. Table!Full <=> Cardinality(R) = Capacity
  <2>1. R = Table!Recorded
    BY DEF Table!Recorded, Datum
  <2> HIDE DEF R
  <2>2. Table!Cardinality(R) = Cardinality(R)
    BY DEF Table!Cardinality, Cardinality
  <2>3. QED
    BY <2>1, <2>2 DEF Table!Full
<1>2. \A i \in V : pool[i].key \in Objects
  BY DEF Inv, TypeOK, PoolInv
<1>3. f \in [V -> R]
  BY <1>2, DatumIsInPool DEF DatumFacts
<1>4. \A i, j \in V : f[i] = f[j] => i = j
  BY DEF Inv, PoolInv
<1>5. \A o \in R : \E i \in V : f[i] = o
  BY DatumIsInPool DEF DatumFacts
<1>6. V \in SUBSET (1 .. Capacity)
  OBVIOUS
<1>7. (\A i \in 1 .. Capacity : pool[i].valid) <=> V = 1 .. Capacity
  OBVIOUS
<1> HIDE DEF V, R, f
<1>8. ExistsBijection(V, R)
  BY <1>3, <1>4, <1>5 DEF ExistsBijection, Bijection, Injection, Surjection, IsInjective
<1>9. IsFiniteSet(1 .. Capacity) /\ Cardinality(1 .. Capacity) = Capacity
  BY FS_Interval, TracerAssumption
<1>10. /\ IsFiniteSet(V)
       /\ Cardinality(1 .. Capacity) = Cardinality(V) => 1 .. Capacity = V
  BY <1>6, <1>9, FS_Subset
<1>11. Cardinality(R) = Cardinality(V)
  BY <1>8, <1>10, FS_Bijection
<1>12. QED
  BY <1>1, <1>7, <1>9, <1>10, <1>11

(* What a step is to the table.                                            *)
LEMMA PoolStepRefines ==
  ASSUME Inv, Inv', NEW t \in Threads, PoolStep(t), asserts' = asserts,
         UNCHANGED <<answer, end>>
  PROVE  \/ \E o \in Objects, d \in Data : Table!Attach(o, d) \/ Table!Change(o, d)
         \/ \E o \in Objects : Table!Detach(o)
         \/ UNCHANGED Table!vars
<1>1. TypeOK /\ PoolInv /\ CallInv(t) /\ ObjectInv(t) /\ EntryInv(t)
  BY DEF Inv
<1>2. DatumFacts /\ DatumFacts'
  BY DatumIsInPool, DatumIsInPoolNext
<1>3. /\ \A o \in Objects, d \in Data :
           /\ o \notin created /\ created' = created \union {o}
           /\ \/ ~Table!Full /\ Datum' = [Datum EXCEPT ![o] = d]
              \/ Table!Full /\ ~asserts /\ Datum' = Datum
           => Table!Attach(o, d)
      /\ \A o \in Objects, d \in Data :
           Datum[o] # NoDatum /\ Datum' = [Datum EXCEPT ![o] = d] /\ created' = created
           => Table!Change(o, d)
      /\ \A o \in Objects :
           /\ o \in created /\ created' = created \ {o}
           /\ Datum' = [Datum EXCEPT ![o] = NoDatum]
           => Table!Detach(o)
      /\ UNCHANGED <<created, Datum>> => UNCHANGED Table!vars
  BY DEF Table!Attach, Table!Change, Table!Detach, Table!Recorded, Table!vars, Datum
<1>4. Datum = [o \in Objects |-> Datum[o]] /\ Datum' = [o \in Objects |-> Datum'[o]]
  BY DEF Datum
<1>5. CASE UNCHANGED <<pool, created>>
  BY <1>3, <1>5 DEF Datum, Traces
<1>6. CASE Fills(t)
  <2>1. /\ entry[t] \in 1 .. Capacity /\ ~pool[entry[t]].valid
        /\ pool' = [pool EXCEPT ![entry[t]] =
                      [valid |-> TRUE, key |-> obj[t], data |-> arg[t]]]
        /\ obj[t] \in Objects \ created /\ created' = created \union {obj[t]}
        /\ arg[t] \in Data
    BY <1>1, <1>6 DEF Fills, Inserted, CallInv, ObjectInv, EntryInv, TypeOK
  <2>2. /\ \A i \in 1 .. Capacity : i # entry[t] => pool'[i] = pool[i]
        /\ pool'[entry[t]] = [valid |-> TRUE, key |-> obj[t], data |-> arg[t]]
    BY <1>1, <2>1 DEF TypeOK
  <2>3. Datum'[obj[t]] = arg[t]
    BY <1>2, <2>1, <2>2 DEF DatumFacts
  <2>4. ASSUME NEW o \in Objects, o # obj[t] PROVE Datum'[o] = Datum[o]
    <3>1. CASE \E i \in 1 .. Capacity : pool[i].valid /\ pool[i].key = o
      BY <1>2, <2>1, <2>2, <2>4, <3>1 DEF DatumFacts
    <3>2. CASE \A i \in 1 .. Capacity : pool[i].valid => pool[i].key # o
      BY <1>2, <2>1, <2>2, <2>4, <3>2 DEF DatumFacts
    <3>3. QED
      BY <3>1, <3>2
  <2>5. Datum' = [Datum EXCEPT ![obj[t]] = arg[t]]
    BY <1>4, <2>1, <2>3, <2>4
  <2>6. ~Table!Full
    BY <2>1, FullIsFull
  <2>7. QED
    BY <1>3, <2>1, <2>5, <2>6
<1>7. CASE Removes(t)
  <2>1. PICK e \in Found(pool, obj[t]) : pool' = [pool EXCEPT ![e].valid = FALSE]
    BY <1>7 DEF Removes, Removed
  <2>2. e \in 1 .. Capacity /\ pool[e].valid /\ pool[e].key = obj[t]
    BY <1>1, FoundMatches
  <2>3. ~pool'[e].valid /\ \A i \in 1 .. Capacity : i # e => pool'[i] = pool[i]
    BY <1>1, <2>1, <2>2 DEF TypeOK
  <2>4. obj[t] \in created /\ obj[t] \in Objects /\ created' = created \ {obj[t]}
    BY <1>1, <1>7 DEF Removes, CallInv, ObjectInv, TypeOK
  <2>5. Datum'[obj[t]] = NoDatum
    BY <1>1, <1>2, <2>2, <2>3, <2>4 DEF DatumFacts, PoolInv
  <2>6. ASSUME NEW o \in Objects, o # obj[t] PROVE Datum'[o] = Datum[o]
    <3>1. CASE \E i \in 1 .. Capacity : pool[i].valid /\ pool[i].key = o
      BY <1>2, <2>2, <2>3, <2>6, <3>1 DEF DatumFacts
    <3>2. CASE \A i \in 1 .. Capacity : pool[i].valid => pool[i].key # o
      BY <1>2, <2>2, <2>3, <2>6, <3>2 DEF DatumFacts
    <3>3. QED
      BY <3>1, <3>2
  <2>7. Datum' = [Datum EXCEPT ![obj[t]] = NoDatum]
    BY <1>4, <2>4, <2>5, <2>6
  <2>8. QED
    BY <1>3, <2>4, <2>7
<1>8. CASE Writes(t)
  <2>1. /\ pool' = [pool EXCEPT ![entry[t]].data = arg[t]] /\ created' = created
        /\ entry[t] \in 1 .. Capacity
        /\ pool[entry[t]].valid /\ pool[entry[t]].key = obj[t]
        /\ obj[t] \in Objects /\ arg[t] \in Data
    BY <1>1, <1>8 DEF Writes, CallInv, ObjectInv, EntryInv, TypeOK
  <2>2. /\ \A i \in 1 .. Capacity : i # entry[t] => pool'[i] = pool[i]
        /\ pool'[entry[t]].valid = pool[entry[t]].valid
        /\ pool'[entry[t]].key = pool[entry[t]].key
        /\ pool'[entry[t]].data = arg[t]
    BY <1>1, <2>1 DEF TypeOK
  <2>3. Datum[obj[t]] # NoDatum /\ Datum'[obj[t]] = arg[t]
    BY <1>2, <2>1, <2>2 DEF DatumFacts
  <2>4. ASSUME NEW o \in Objects, o # obj[t] PROVE Datum'[o] = Datum[o]
    <3>1. CASE \E i \in 1 .. Capacity : pool[i].valid /\ pool[i].key = o
      BY <1>2, <2>1, <2>2, <2>4, <3>1 DEF DatumFacts
    <3>2. CASE \A i \in 1 .. Capacity : pool[i].valid => pool[i].key # o
      BY <1>2, <2>1, <2>2, <2>4, <3>2 DEF DatumFacts
    <3>3. QED
      BY <3>1, <3>2
  <2>5. Datum' = [Datum EXCEPT ![obj[t]] = arg[t]]
    BY <1>4, <2>1, <2>3, <2>4
  <2>6. QED
    BY <1>3, <2>1, <2>3, <2>5
<1>9. CASE LeavesOut(t)
  <2>1. Table!Full
    BY <1>1, <1>9, NoneVacant, FullIsFull DEF LeavesOut
  <2>2. /\ obj[t] \in Objects \ created /\ arg[t] \in Data
        /\ created' = created \union {obj[t]} /\ ~asserts /\ pool' = pool
    BY <1>1, <1>9 DEF LeavesOut, CallInv, ObjectInv, TypeOK
  <2>3. Datum' = Datum
    BY <2>2 DEF Datum, Traces
  <2>4. QED
    BY <1>3, <2>1, <2>2, <2>3
<1>10. CASE ForgetsNone(t)
  <2>1. /\ obj[t] \in created /\ obj[t] \in Objects /\ created' = created \ {obj[t]}
        /\ pool' = pool /\ Found(pool, obj[t]) = {}
    BY <1>1, <1>10 DEF ForgetsNone, CallInv, ObjectInv, TypeOK
  <2>2. Matching(pool, obj[t]) = {}
    BY <1>1, <2>1, FoundIsMatching
  <2>3. \A i \in 1 .. Capacity : pool[i].valid => pool[i].key # obj[t]
    BY <1>1, <2>2 DEF Matching, TypeOK
  <2>4. Datum[obj[t]] = NoDatum
    BY <1>2, <2>1, <2>3 DEF DatumFacts
  <2>5. Datum' = Datum
    BY <2>1 DEF Datum, Traces
  <2>6. Datum' = [Datum EXCEPT ![obj[t]] = NoDatum]
    BY <1>4, <2>1, <2>4, <2>5
  <2>7. QED
    BY <1>3, <2>1, <2>6
<1>11. QED
  BY <1>5, <1>6, <1>7, <1>8, <1>9, <1>10 DEF PoolStep

(* What is left are the looks at the table, and the ways in which the      *)
(* program stops.                                                          *)
LEMMA StepRefines ==
  ASSUME Inv, Inv', end = "running", NEW t \in Threads, Call(t) \/ Step(t)
  PROVE  Table!Next \/ UNCHANGED Table!vars
<1>1. TypeOK /\ PoolInv /\ CallInv(t) /\ ObjectInv(t) /\ EntryInv(t) /\ DatumFacts
  BY DatumIsInPool DEF Inv
<1>2. CASE UNCHANGED <<answer, end>>
  BY <1>2, StepIsPoolStep, PoolStepRefines DEF Table!Next
<1>3. ASSUME NEW why \in {"assertion", "mutex", "crash"}, Stop(why),
             \/ why = "assertion" /\ Table!Full /\ asserts /\ created # Objects
             \/ why = "crash" /\ created # Table!Recorded
             \/ why = "mutex" /\ MayFail # {}
      PROVE  Table!Next
  <2>1. end' = why /\ UNCHANGED <<asserts, created, Datum, answer>>
    BY <1>3 DEF Stop, Datum, Traces
  <2>2. Table!Stop
    BY <1>3, <2>1 DEF Table!Stop, Datum
  <2>3. QED
    BY <2>2 DEF Table!Next
<1>4. ASSUME obj[t] \in created, UNCHANGED <<asserts, created, pool, end>>,
             answer' = [answer EXCEPT ![t] = Datum[obj[t]]]
      PROVE  Table!Next
  <2>1. UNCHANGED Datum /\ obj[t] \in Objects
    BY <1>1, <1>4 DEF Datum, Traces, TypeOK
  <2>2. Table!Look(t, obj[t])
    BY <1>4, <2>1 DEF Table!Look, Datum
  <2>3. QED
    BY <2>1, <2>2 DEF Table!Next
<1>5. CASE PoolFull(t)
  <2>1. CASE asserts
    <3>1. Table!Full
      BY <1>1, <1>5, NoneVacant, FullIsFull DEF PoolFull
    <3>2. obj[t] \in Objects \ created
      BY <1>1, <1>5 DEF PoolFull, CallInv, ObjectInv, TypeOK
    <3>3. QED
      BY <1>3, <1>5, <2>1, <3>1, <3>2 DEF PoolFull
  <2>2. QED
    BY <1>2, <1>5, <2>1 DEF PoolFull
<1>6. CASE NothingToRemove(t)
  <2>1. CASE asserts
    <3>1. Matching(pool, obj[t]) = {}
      BY <1>1, <1>6, FoundIsMatching DEF NothingToRemove
    <3>2. obj[t] \in created
      BY <1>1, <1>6 DEF NothingToRemove, CallInv, ObjectInv
    <3>3. QED
      BY <1>1, <2>1, <3>1, <3>2 DEF PoolInv
  <2>2. QED
    BY <1>2, <1>6, <2>1 DEF NothingToRemove
<1>7. CASE UseDatum(t)
  <2>1. CASE arg[t] = NoDatum
    <3>1. /\ entry[t] \in 1 .. Capacity
          /\ pool[entry[t]].valid /\ pool[entry[t]].key = obj[t]
          /\ obj[t] \in created /\ obj[t] \in Objects
      BY <1>1, <1>7 DEF UseDatum, CallInv, ObjectInv, EntryInv, TypeOK
    <3>2. Datum[obj[t]] = pool[entry[t]].data
      BY <1>1, <3>1 DEF DatumFacts
    <3>3. QED
      BY <1>4, <1>7, <2>1, <3>1, <3>2 DEF UseDatum
  <2>2. QED
    BY <1>2, <1>7, <2>1 DEF UseDatum
<1>8. CASE UseNull(t)
  <2>1. Matching(pool, obj[t]) = {} /\ obj[t] \in created /\ obj[t] \in Objects
    BY <1>1, <1>8 DEF UseNull, CallInv, ObjectInv, EntryInv, TypeOK
  <2>2. \A i \in 1 .. Capacity : pool[i].valid => pool[i].key # obj[t]
    BY <1>1, <2>1 DEF Matching, TypeOK
  <2>3. Datum[obj[t]] = NoDatum
    BY <1>1, <2>1, <2>2 DEF DatumFacts
  <2>4. CASE Stop("crash")
    <3>1. obj[t] \notin Table!Recorded
      BY <2>1, <2>3 DEF Table!Recorded, Datum
    <3>2. created # Table!Recorded
      BY <2>1, <3>1
    <3>3. QED
      BY <1>3, <2>4, <3>2
  <2>5. QED
    BY <1>4, <1>8, <2>1, <2>3, <2>4 DEF UseNull
<1>9. CASE LockFailed(t)
  BY <1>3, <1>9 DEF LockFailed, Inv, MtxInv, FailureHasCause
<1>10. CASE UnlockFails(t)
  <2>1. Owns(t)
    BY <1>10 DEF UnlockFails, Inv, LockedOwns, Locked
  <2>2. MayFail # {}
    BY <1>10, <2>1 DEF UnlockFails, ReleaseFails
  <2>3. QED
    BY <1>3, <1>10, <2>2 DEF UnlockFails
<1>11. CASE Call(t)
  BY <1>2, <1>11 DEF Call, W_TRACER_ATTACH_DATA, W_TRACER_DETACH_DATA,
     W_TRACER_FIND_DATA, Begin
<1>12. CASE Lock(t) \/ ChooseEntry(t) \/ FillEntry(t)
              \/ wp_trace_pool_remove_data(t) \/ wp_trace_pool_find_data(t) \/ Unlock(t)
  BY <1>2, <1>12 DEF Lock, ChooseEntry, FillEntry, wp_trace_pool_remove_data,
     wp_trace_pool_find_data, Unlock
<1>13. QED
  BY <1>5, <1>6, <1>7, <1>8, <1>9, <1>10, <1>11, <1>12 DEF Step

(* A tracer is a table with atomic operations, however many threads use    *)
(* it, whichever of them creates its mutex, and although an entry that was *)
(* found is read and written without the mutex (trace.h:84-150).           *)
THEOREM TracerImplementsTable == Spec => ImplementsTable
<1>1. Init => Table!Init
  <2> SUFFICES ASSUME Init PROVE Table!Init
    OBVIOUS
  <2>1. Inv /\ \A i \in 1 .. Capacity : ~pool[i].valid
    BY InitInv DEF Init, EmptyPool, Zeroed
  <2>2. \A o \in Objects : Datum[o] = NoDatum
    BY <2>1, DatumIsInPool DEF DatumFacts
  <2>3. Datum = [o \in Objects |-> NoDatum]
    BY <2>2 DEF Datum
  <2>4. QED
    BY <2>3 DEF Init, Table!Init, Datum
<1>2. Inv /\ Inv' /\ [Next]_vars => [Table!Next]_Table!vars
  <2> SUFFICES ASSUME Inv, Inv', [Next]_vars
               PROVE  Table!Next \/ UNCHANGED Table!vars
    OBVIOUS
  <2>1. CASE Next
    BY <2>1, StepRefines DEF Next
  <2>2. CASE UNCHANGED vars
    BY <2>2 DEF vars, Table!vars, Traces
  <2>3. QED
    BY <2>1, <2>2
<1>3. QED
  BY <1>1, <1>2, InvAlways, PTL DEF Spec, ImplementsTable, Table!Spec

=============================================================================
