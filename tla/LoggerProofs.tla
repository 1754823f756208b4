---------------------------- MODULE LoggerProofs ----------------------------
(***************************************************************************)
(* Theorems about Logger for every number of threads, slots, ids and       *)
(* levels.  One inductive invariant says what each thread may rely on: it  *)
(* is in a critical step only with the mutex, its label fits its call, and *)
(* the handles given so far are those below the ids of the slots.          *)
(***************************************************************************)
EXTENDS Logger, TLAPS

-----------------------------------------------------------------------------
(* The inductive invariant.                                                *)

\* Only the holder of the mutex is in a critical step.
Exclusive == \A t \in Threads : pc[t] \in Critical => mtx = t

\* The call a label belongs to.
OpOf(t, op) == request[t] \in AllRequests /\ request[t].op = op

Labels ==
    \A t \in Threads :
        /\ pc[t] = "idle" <=> request[t] = NoRequest
        /\ pc[t] = "lock" => i[t] = 0 /\ printed[t] = {}
        /\ pc[t] = "scan" => OpOf(t, "log")
        /\ pc[t] \in {"find_slot", "fill"} => OpOf(t, "register")
        /\ pc[t] \in {"find", "invalidate"} => OpOf(t, "deregister")
        /\ pc[t] = "clear" => OpOf(t, "deregister_all")
        /\ pc[t] \in {"fill", "invalidate"} => i[t] \in Slots
        /\ pc[t] \in {"idle", "unlock"} <=> status[t] # Pending

\* The handles given are those up to the id of each slot, and a logger has
\* one of them.
Handed ==
    /\ issued = {h \in AllHandles : h[2] <= pool[h[1]].id}
    /\ \A s \in Slots : pool[s].valid => pool[s].id >= 1

IInv ==
    /\ TypeOK
    /\ Labels
    /\ Exclusive
    /\ Handed
    /\ MessageSeesOnePool
    /\ FoundStillHolds

-----------------------------------------------------------------------------

\* The fields of a request are those of its operation.
LEMMA RequestFields ==
    ASSUME NEW r \in AllRequests
    PROVE  /\ r.op \in {"log", "register", "deregister", "deregister_all"}
           /\ r.op \in {"log", "register"} => r.lvl \in Levels
           /\ r.op = "deregister" => r.handle \in AllHandles \union {ZeroHandle}
  BY DEF AllRequests

\* The invariant holds before the first call.
LEMMA IInvInit == Init => IInv
  <1> SUFFICES ASSUME Init PROVE IInv
    OBVIOUS
  <1> USE LoggerAssumption DEF Init
  <1>1. TypeOK
    BY DEF TypeOK, Slots, PrintErrors
  <1>2. Labels
    BY DEF Labels, Pending
  <1>3. Exclusive
    BY DEF Exclusive, Critical
  <1>4. Handed
    BY DEF Handed, AllHandles
  <1>5. MessageSeesOnePool /\ FoundStillHolds
    BY DEF MessageSeesOnePool, FoundStillHolds
  <1>. QED
    BY <1>1, <1>2, <1>3, <1>4, <1>5 DEF IInv

-----------------------------------------------------------------------------
(* Steps that leave the pool alone.                                        *)

\* A call begins: its thread is outside the mutex.
LEMMA CallNext ==
    ASSUME IInv, NEW t \in Threads, Call(t)
    PROVE  IInv'
  <1> USE LoggerAssumption DEF Call, IInv
  <1>1. PICK r \in Requests : request' = [request EXCEPT ![t] = r]
    OBVIOUS
  <1>2. r \in AllRequests
    BY DEF Requests, AllRequests, TypeOK
  <1>3. TypeOK'
    BY <1>1, <1>2 DEF TypeOK
  <1>4. Labels'
    BY <1>1, <1>2, RequestAssumption DEF Labels, OpOf, TypeOK, Pending
  <1>5. Exclusive'
    BY DEF Exclusive, Critical, TypeOK
  <1>6. Handed'
    BY DEF Handed
  <1>7. MessageSeesOnePool'
    BY <1>1 DEF MessageSeesOnePool, TypeOK, Accepts, Handle
  <1>8. FoundStillHolds'
    BY <1>1 DEF FoundStillHolds, TypeOK, Available, Designates
  <1>. QED
    BY <1>3, <1>4, <1>5, <1>6, <1>7, <1>8

\* A system error without a message.
LEMMA SystemErrorNext ==
    ASSUME IInv, NEW t \in Threads, wp_log_system_error(t)
    PROVE  IInv'
  <1> USE LoggerAssumption DEF wp_log_system_error, IInv
  <1>1. PICK s \in {"W_SUCCESS", "W_ERROR"} :
          status' = [status EXCEPT ![t] = s]
    OBVIOUS
  <1>2. TypeOK'
    BY <1>1 DEF TypeOK
  <1>3. Labels'
    BY <1>1 DEF Labels, OpOf, TypeOK, Pending
  <1>4. Exclusive' /\ Handed'
    BY DEF Exclusive, Handed
  <1>5. MessageSeesOnePool'
    BY DEF MessageSeesOnePool, TypeOK, Accepts, Handle
  <1>6. FoundStillHolds'
    BY DEF FoundStillHolds, Available, Designates
  <1>. QED
    BY <1>2, <1>3, <1>4, <1>5, <1>6

\* Taking the mutex: no other thread is in a critical step.
LEMMA LockNext ==
    ASSUME IInv, NEW t \in Threads, w_mtx_lock(t)
    PROVE  IInv'
  <1> USE LoggerAssumption DEF w_mtx_lock, IInv, GoTo, locals
  <1>1. request[t] \in AllRequests
    BY RequestAssumption DEF Labels, TypeOK
  <1>2. /\ Entry(request[t].op) \in
             {"scan", "find_slot", "find", "clear"}
        /\ Entry(request[t].op) = "scan" => request[t].op = "log"
        /\ Entry(request[t].op) = "find_slot" => request[t].op = "register"
        /\ Entry(request[t].op) = "find" => request[t].op = "deregister"
        /\ Entry(request[t].op) = "clear" => request[t].op = "deregister_all"
    BY <1>1, RequestFields DEF Entry
  <1>3. TypeOK'
    BY <1>2 DEF TypeOK, Critical
  <1>4. Labels'
    BY <1>1, <1>2 DEF Labels, OpOf, TypeOK
  <1>5. Exclusive'
    BY <1>2 DEF Exclusive, Critical, TypeOK
  <1>6. Handed'
    BY DEF Handed
  <1>7. MessageSeesOnePool'
    <2>1. i[t] = 0 /\ printed[t] = {}
      BY DEF Labels
    <2>. QED
      BY <1>2, <2>1 DEF MessageSeesOnePool, TypeOK, Accepts, Handle, Slots
  <1>8. FoundStillHolds'
    BY <1>2 DEF FoundStillHolds, TypeOK, Available, Designates
  <1>. QED
    BY <1>3, <1>4, <1>5, <1>6, <1>7, <1>8

\* A call ends, with the mutex unlocked or never locked.
LEMMA LeaveNext ==
    ASSUME IInv, NEW t \in Threads, LockFailed(t) \/ w_mtx_unlock(t)
    PROVE  IInv'
  <1> USE LoggerAssumption DEF LockFailed, w_mtx_unlock, IInv, GoTo
  <1>1. TypeOK'
    BY DEF TypeOK
  <1>2. Labels'
    BY DEF Labels, OpOf, TypeOK, Pending
  <1>3. Exclusive'
    BY DEF Exclusive, Critical, TypeOK
  <1>4. Handed'
    BY DEF Handed
  <1>5. MessageSeesOnePool'
    BY DEF MessageSeesOnePool, TypeOK, Accepts, Handle
  <1>6. FoundStillHolds'
    BY DEF FoundStillHolds, TypeOK, Available, Designates
  <1>. QED
    BY <1>1, <1>2, <1>3, <1>4, <1>5, <1>6

-----------------------------------------------------------------------------
(* Steps under the mutex: every other thread is outside its critical steps *)
(* and relies on nothing in the pool.                                      *)

\* What a thread about to act may use: it holds the mutex, alone.
LEMMA Holder ==
    ASSUME IInv, NEW t \in Threads, pc[t] \in Critical
    PROVE  /\ mtx = t
           /\ \A u \in Threads \ {t} : pc[u] \notin Critical
  BY LoggerAssumption DEF IInv, Exclusive

\* w_logger_register() looks for a slot.
LEMMA FindSlotNext ==
    ASSUME IInv, NEW t \in Threads, FindSlot(t)
    PROVE  IInv'
  <1> USE LoggerAssumption DEF FindSlot, IInv, GoTo, Exit
  <1>1. TypeOK'
    <2>1. Slots \subseteq 0 .. PoolSize
      BY DEF Slots
    <2>2. i' \in [Threads -> 0 .. PoolSize]
      BY <2>1 DEF TypeOK
    <2>3. /\ pc' \in [Threads -> Critical \union {"idle", "lock"}]
          /\ status' = status
               \/ status' = [status EXCEPT ![t] = "W_ERROR_BUF_FULL"]
      BY DEF TypeOK, Critical
    <2>. QED
      BY <2>2, <2>3 DEF TypeOK
  <1>2. Labels'
    BY DEF Labels, OpOf, TypeOK, Pending
  <1>3. Exclusive'
    BY DEF Exclusive, Critical, TypeOK
  <1>4. Handed'
    BY DEF Handed
  <1>5. MessageSeesOnePool'
    BY DEF MessageSeesOnePool, TypeOK, Accepts, Handle
  <1>6. FoundStillHolds'
    BY DEF FoundStillHolds, TypeOK, Available, Designates
  <1>. QED
    BY <1>1, <1>2, <1>3, <1>4, <1>5, <1>6

\* It takes the slot it found; its handle is a new one.
LEMMA FillSlotNext ==
    ASSUME IInv, NEW t \in Threads, FillSlot(t)
    PROVE  IInv'
  <1> USE LoggerAssumption DEF IInv
  <1> DEFINE s == i[t]
             n == pool[s].id + 1
  <1>1. /\ pc[t] = "fill" /\ s \in Slots
        /\ ~pool[s].valid /\ n \in 1 .. MaxId
    BY DEF FillSlot, Labels, FoundStillHolds, Available, TypeOK
  <1>2. request[t].lvl \in Nat
    BY <1>1, RequestFields DEF Labels, OpOf
  <1>3. /\ pool' = [pool EXCEPT ![s] = [lvl |-> request[t].lvl, id |-> n,
                                       valid |-> TRUE]]
        /\ issued' = issued \union {<<s, n>>}
        /\ pc' = [pc EXCEPT ![t] = "unlock"]
        /\ status' = [status EXCEPT ![t] = "W_SUCCESS"]
        /\ UNCHANGED <<mtx, request, i, printed>>
    BY DEF FillSlot, Exit, GoTo
  <1>4. \A u \in Threads \ {t} : pc[u] \notin Critical /\ pc'[u] = pc[u]
    BY <1>1, <1>3, Holder DEF Critical, TypeOK
  <1>5. <<s, n>> \in AllHandles
    BY <1>1 DEF AllHandles
  <1> HIDE DEF n, s
  <1>6. TypeOK'
    BY <1>1, <1>2, <1>3, <1>5 DEF TypeOK, Critical
  <1>7. Labels'
    BY <1>1, <1>3 DEF Labels, OpOf, TypeOK, Pending
  <1>8. Exclusive'
    BY <1>1, <1>3 DEF Exclusive, Critical, TypeOK
  <1>9. Handed'
    <2>1. n = pool[s].id + 1 /\ pool[s].id \in Nat
      BY <1>1 DEF n, s, TypeOK
    <2>2. pool'[s].id = n /\ \A r \in Slots \ {s} : pool'[r] = pool[r]
      BY <1>1, <1>3 DEF TypeOK
    <2>3. ASSUME NEW h \in AllHandles
          PROVE  h \in issued' <=> h[2] <= pool'[h[1]].id
      <3>1. h[1] \in Slots /\ h[2] \in Nat /\ h = <<h[1], h[2]>>
        BY DEF AllHandles
      <3>2. CASE h[1] # s
        BY <1>3, <2>2, <3>1, <3>2 DEF Handed
      <3>3. CASE h[1] = s
        <4>1. h \in issued <=> h[2] <= pool[s].id
          BY <3>3 DEF Handed
        <4>2. h[2] = n <=> h = <<s, n>>
          BY <3>1, <3>3
        <4>. QED
          BY <1>3, <2>1, <2>2, <3>1, <3>3, <4>1, <4>2
      <3>. QED
        BY <3>2, <3>3
    <2>4. \A r \in Slots : pool'[r].valid => pool'[r].id >= 1
      BY <1>1, <2>2 DEF Handed
    <2>5. issued' \subseteq AllHandles
      BY <1>3, <1>5 DEF TypeOK
    <2>. QED
      BY <2>3, <2>4, <2>5 DEF Handed
  <1>10. MessageSeesOnePool'
    BY <1>1, <1>3, <1>4 DEF MessageSeesOnePool, Critical, TypeOK
  <1>11. FoundStillHolds'
    BY <1>1, <1>3, <1>4 DEF FoundStillHolds, Critical, TypeOK
  <1>. QED
    BY <1>6, <1>7, <1>8, <1>9, <1>10, <1>11

\* wp_log_logger_find(), for w_logger_deregister().
LEMMA FindLoggerNext ==
    ASSUME IInv, NEW t \in Threads, FindLogger(t)
    PROVE  IInv'
  <1> USE LoggerAssumption DEF FindLogger, IInv, GoTo, Exit
  <1>0. /\ pc[t] = "find"
        /\ request[t].handle \in AllHandles \union {ZeroHandle}
    BY RequestFields DEF Labels, OpOf
  <1>1. request[t].handle[1] \in Slots
    BY <1>0 DEF AllHandles, ZeroHandle, Slots
  <1>2. TypeOK'
    <2>1. Slots \subseteq 0 .. PoolSize
      BY DEF Slots
    <2>2. i' \in [Threads -> 0 .. PoolSize]
      BY <1>1, <2>1 DEF TypeOK
    <2>3. /\ pc' \in [Threads -> Critical \union {"idle", "lock"}]
          /\ status' = status
               \/ status' = [status EXCEPT ![t] = "W_ERROR_NOT_FOUND"]
      BY DEF TypeOK, Critical
    <2>. QED
      BY <2>2, <2>3 DEF TypeOK
  <1>3. Labels'
    BY <1>1 DEF Labels, OpOf, TypeOK, Pending
  <1>4. Exclusive'
    BY DEF Exclusive, Critical, TypeOK
  <1>5. Handed'
    BY DEF Handed
  <1>6. MessageSeesOnePool'
    BY DEF MessageSeesOnePool, TypeOK, Accepts, Handle
  <1>7. FoundStillHolds'
    BY DEF FoundStillHolds, TypeOK, Available, Designates
  <1>. QED
    BY <1>2, <1>3, <1>4, <1>5, <1>6, <1>7

\* Loggers become invalid and keep their ids.
LEMMA InvalidateNext ==
    ASSUME IInv, NEW t \in Threads, Invalidate(t) \/ InvalidateAll(t)
    PROVE  IInv'
  <1> USE LoggerAssumption DEF IInv
  <1>1. /\ pc[t] \in {"invalidate", "clear"}
        /\ pc' = [pc EXCEPT ![t] = "unlock"]
        /\ status' = [status EXCEPT ![t] = "W_SUCCESS"]
        /\ UNCHANGED <<mtx, issued, request, i, printed>>
    BY DEF Invalidate, InvalidateAll, Exit, GoTo
  <1>2. pool' \in [Slots -> [lvl : Nat, id : 0 .. MaxId, valid : BOOLEAN]]
    <2>1. CASE Invalidate(t)
      BY <2>1 DEF Invalidate, TypeOK
    <2>2. CASE InvalidateAll(t)
      BY <2>2 DEF InvalidateAll, TypeOK
    <2>. QED
      BY <2>1, <2>2
  <1>3. \A r \in Slots : /\ pool'[r].id = pool[r].id
                         /\ pool'[r].valid => pool[r].valid
    BY DEF Invalidate, InvalidateAll, TypeOK
  <1>4. \A u \in Threads \ {t} : pc[u] \notin Critical /\ pc'[u] = pc[u]
    BY <1>1, Holder DEF Critical, TypeOK
  <1>5. TypeOK'
    BY <1>1, <1>2 DEF TypeOK, Critical
  <1>6. Labels'
    BY <1>1 DEF Labels, OpOf, TypeOK, Pending
  <1>7. Exclusive'
    BY <1>1 DEF Exclusive, Critical, TypeOK
  <1>8. Handed'
    BY <1>1, <1>3 DEF Handed, AllHandles
  <1>9. MessageSeesOnePool' /\ FoundStillHolds'
    BY <1>1, <1>4 DEF MessageSeesOnePool, FoundStillHolds, Critical, TypeOK
  <1>. QED
    BY <1>5, <1>6, <1>7, <1>8, <1>9

-----------------------------------------------------------------------------
(* Logging: the pool is only read.                                         *)

\* The scan advances over a logger that does not accept the level.
LEMMA SkipNext ==
    ASSUME IInv, NEW t \in Threads, Skip(t)
    PROVE  IInv'
  <1> USE LoggerAssumption DEF Skip, IInv
  <1>1. i[t] + 1 \in 0 .. PoolSize
    BY DEF Slots
  <1>2. TypeOK'
    BY <1>1 DEF TypeOK
  <1>3. Labels'
    BY DEF Labels, OpOf, TypeOK
  <1>4. Exclusive' /\ Handed'
    BY DEF Exclusive, Handed
  <1>5. MessageSeesOnePool'
    <2>1. SUFFICES ASSUME NEW u \in Threads, pc[u] = "scan"
                   PROVE  printed[u] =
                            {Handle(s) : s \in {r \in Slots : r < i'[u]
                                             /\ Accepts(r, request[u].lvl)}}
      BY DEF MessageSeesOnePool, Handle, Accepts
    <2>2. {r \in Slots : r < i'[u] /\ Accepts(r, request[u].lvl)}
            = {r \in Slots : r < i[u] /\ Accepts(r, request[u].lvl)}
      BY DEF TypeOK, Slots
    <2>. QED
      BY <2>1, <2>2 DEF MessageSeesOnePool
  <1>6. FoundStillHolds'
    BY DEF FoundStillHolds, TypeOK, Available, Designates
  <1>. QED
    BY <1>2, <1>3, <1>4, <1>5, <1>6

\* The message is printed to one more logger, or ends.
LEMMA PrintNext ==
    ASSUME IInv, NEW t \in Threads, PrintTo(t)
    PROVE  IInv'
  <1> USE LoggerAssumption DEF IInv
  <1>1. /\ pc[t] = "scan" /\ i[t] \in Slots
        /\ Accepts(i[t], request[t].lvl)
        /\ UNCHANGED <<mtx, pool, issued, request>>
    BY DEF PrintTo
  <1>2. CASE /\ printed' = [printed EXCEPT ![t] = @ \union {Handle(i[t])}]
             /\ i' = [i EXCEPT ![t] = @ + 1]
             /\ UNCHANGED <<pc, status>>
    <2>1. i[t] + 1 \in 0 .. PoolSize
      BY <1>1 DEF Slots
    <2>2. Handle(i[t]) \in AllHandles
      <3>1. pool[i[t]].id \in 1 .. MaxId
        BY <1>1 DEF TypeOK, Handed, Accepts
      <3>. QED
        BY <1>1, <3>1 DEF Handle, AllHandles
    <2>3. TypeOK'
      BY <1>1, <1>2, <2>1, <2>2 DEF TypeOK
    <2>4. Labels'
      BY <1>1, <1>2 DEF Labels, OpOf, TypeOK
    <2>5. Exclusive' /\ Handed'
      BY <1>1, <1>2 DEF Exclusive, Handed
    <2>6. MessageSeesOnePool'
      <3>1. SUFFICES ASSUME NEW u \in Threads, pc[u] = "scan"
                     PROVE  printed'[u] =
                              {Handle(s) : s \in {r \in Slots : r < i'[u]
                                               /\ Accepts(r, request[u].lvl)}}
        BY <1>1, <1>2 DEF MessageSeesOnePool, Handle, Accepts
      <3>2. CASE u # t
        BY <1>2, <3>1, <3>2 DEF MessageSeesOnePool, TypeOK
      <3>3. CASE u = t
        <4>1. {r \in Slots : r < i[t] + 1 /\ Accepts(r, request[t].lvl)}
                = {r \in Slots : r < i[t] /\ Accepts(r, request[t].lvl)}
                    \union {i[t]}
          BY <1>1 DEF Slots
        <4>2. printed'[t] = printed[t] \union {Handle(i[t])} /\ i'[t] = i[t] + 1
          BY <1>2 DEF TypeOK
        <4>. QED
          BY <3>1, <3>3, <4>1, <4>2 DEF MessageSeesOnePool
      <3>. QED
        BY <3>2, <3>3
    <2>7. FoundStillHolds'
      BY <1>1, <1>2 DEF FoundStillHolds, TypeOK, Available, Designates
    <2>. QED
      BY <2>3, <2>4, <2>5, <2>6, <2>7
  <1>3. CASE \E e \in PrintErrors : Exit(t, e) /\ UNCHANGED <<printed, i>>
    <2> PICK e \in PrintErrors : Exit(t, e) /\ UNCHANGED <<printed, i>>
      BY <1>3
    <2> USE DEF Exit, GoTo
    <2>1. TypeOK'
      BY <1>1 DEF TypeOK, Critical
    <2>2. Labels'
      BY <1>1 DEF Labels, OpOf, TypeOK, Pending, PrintErrors
    <2>3. Exclusive'
      BY <1>1 DEF Exclusive, Critical, TypeOK
    <2>4. Handed'
      BY <1>1 DEF Handed
    <2>5. MessageSeesOnePool'
      BY <1>1 DEF MessageSeesOnePool, TypeOK, Accepts, Handle
    <2>6. FoundStillHolds'
      BY <1>1 DEF FoundStillHolds, TypeOK, Available, Designates
    <2>. QED
      BY <2>1, <2>2, <2>3, <2>4, <2>5, <2>6
  <1>. QED
    BY <1>2, <1>3 DEF PrintTo

\* The message is at its end, through the default logger or not.
LEMMA MessageEndNext ==
    ASSUME IInv, NEW t \in Threads, ScanDone(t) \/ Fallback(t)
    PROVE  IInv'
  <1> USE LoggerAssumption DEF IInv
  <1>1. /\ pc[t] = "scan"
        /\ pc' = [pc EXCEPT ![t] = "unlock"]
        /\ UNCHANGED <<mtx, pool, issued, request, i>>
    BY DEF ScanDone, Fallback, Exit, GoTo
  <1>2. PICK s \in PrintErrors \union {"W_SUCCESS"} :
          status' = [status EXCEPT ![t] = s]
    BY DEF ScanDone, Fallback, Exit
  <1>3. printed' = printed \/ printed' = [printed EXCEPT ![t] = {Default}]
    BY DEF ScanDone, Fallback
  <1>4. TypeOK'
    BY <1>1, <1>2, <1>3 DEF TypeOK, Critical
  <1>5. Labels'
    BY <1>1, <1>2, <1>3 DEF Labels, OpOf, TypeOK, Pending, PrintErrors
  <1>6. Exclusive'
    BY <1>1 DEF Exclusive, Critical, TypeOK
  <1>7. Handed'
    BY <1>1 DEF Handed
  <1>8. MessageSeesOnePool'
    BY <1>1, <1>3 DEF MessageSeesOnePool, TypeOK, Accepts, Handle
  <1>9. FoundStillHolds'
    BY <1>1 DEF FoundStillHolds, TypeOK, Available, Designates
  <1>. QED
    BY <1>4, <1>5, <1>6, <1>7, <1>8, <1>9

\* Every step of every thread keeps the invariant.
LEMMA IInvNext == IInv /\ [Next]_vars => IInv'
  <1>1. ASSUME IInv, UNCHANGED vars
        PROVE  IInv'
    BY <1>1 DEF vars, IInv, TypeOK, Labels, OpOf, Exclusive, Handed,
       MessageSeesOnePool, FoundStillHolds, Accepts, Handle, Available,
       Designates
  <1>. QED
    BY <1>1, CallNext, SystemErrorNext, LockNext, LeaveNext, FindSlotNext,
       FillSlotNext, FindLoggerNext, InvalidateNext, SkipNext, PrintNext,
       MessageEndNext DEF Next, Step, Body

\* The invariant holds in every state of every behaviour.
THEOREM IInvAlways == Spec => []IInv
  BY IInvInit, IInvNext, PTL DEF Spec

-----------------------------------------------------------------------------
(* What follows from it.                                                   *)

\* The variables keep their types; the 16 bits of an id never overflow
\* (log.c:360-364).
THEOREM TypeCorrect == Spec => []TypeOK
  <1>1. IInv => TypeOK
    BY DEF IInv
  <1>. QED
    BY <1>1, IInvAlways, PTL

\* No two threads are ever both between taking and giving back the mutex.
THEOREM MutualExclusion ==
    Spec => [](\A t, u \in Threads :
                 pc[t] \in Critical /\ pc[u] \in Critical => t = u)
  <1>1. IInv => \A t, u \in Threads :
                  pc[t] \in Critical /\ pc[u] \in Critical => t = u
    BY DEF IInv, Exclusive
  <1>. QED
    BY <1>1, IInvAlways, PTL

\* A message is printed to just the accepting loggers of one state of the
\* pool, however long its prints take (log.c:243-274).
THEOREM MessageSeesOnePoolAlways == Spec => []MessageSeesOnePool
  <1>1. IInv => MessageSeesOnePool
    BY DEF IInv
  <1>. QED
    BY <1>1, IInvAlways, PTL

\* A slot found available stays so until it is taken, a logger found stays
\* until it is removed (log.c:353-374, 401-405).
THEOREM FoundStillHoldsAlways == Spec => []FoundStillHolds
  <1>1. IInv => FoundStillHolds
    BY DEF IInv
  <1>. QED
    BY <1>1, IInvAlways, PTL

\* No step lets a handle that designates no logger designate one again.
LEMMA StaleStep ==
    ASSUME IInv, Next, NEW h \in issued, ~Designates(h)
    PROVE  ~Designates(h)'
  <1>1. h \in AllHandles /\ h[1] \in Slots /\ h[2] \in Nat
    BY DEF IInv, TypeOK, AllHandles
  <1>2. CASE UNCHANGED pool
    BY <1>2 DEF Designates
  <1>3. ASSUME NEW t \in Threads, FillSlot(t)
        PROVE  ~Designates(h)'
    <2>1. i[t] \in Slots /\ pool[i[t]].id \in Nat
      BY <1>3 DEF FillSlot, IInv, Labels, TypeOK
    <2>2. h[2] <= pool[h[1]].id
      BY DEF IInv, Handed
    <2>3. pool' = [pool EXCEPT ![i[t]] =
                     [lvl |-> request[t].lvl, id |-> pool[i[t]].id + 1,
                      valid |-> TRUE]]
      BY <1>3 DEF FillSlot
    <2>4. CASE h[1] # i[t]
      BY <1>1, <2>1, <2>3, <2>4 DEF Designates, IInv, TypeOK
    <2>5. CASE h[1] = i[t]
      <3>1. pool'[h[1]].id = pool[h[1]].id + 1
        BY <1>1, <2>1, <2>3, <2>5 DEF IInv, TypeOK
      <3>. QED
        BY <1>1, <2>1, <2>2, <2>5, <3>1 DEF Designates
    <2>. QED
      BY <2>4, <2>5
  <1>4. ASSUME NEW t \in Threads, Invalidate(t) \/ InvalidateAll(t)
        PROVE  ~Designates(h)'
    <2>1. /\ pool'[h[1]].id = pool[h[1]].id
          /\ pool'[h[1]].valid => pool[h[1]].valid
      BY <1>1, <1>4 DEF Invalidate, InvalidateAll, IInv, TypeOK
    <2>. QED
      BY <2>1 DEF Designates
  <1>5. ASSUME NEW t \in Threads,
               \/ Call(t) \/ wp_log_system_error(t)
               \/ w_mtx_lock(t) \/ LockFailed(t) \/ w_mtx_unlock(t)
               \/ FindSlot(t) \/ FindLogger(t)
               \/ Skip(t) \/ PrintTo(t) \/ ScanDone(t) \/ Fallback(t)
        PROVE  UNCHANGED pool
    BY <1>5 DEF Call, wp_log_system_error, w_mtx_lock, LockFailed,
       w_mtx_unlock, FindSlot, FindLogger, Skip, PrintTo, ScanDone, Fallback
  <1>. QED
    BY <1>2, <1>3, <1>4, <1>5 DEF Next, Step, Body

\* A stale handle is stale for good: w_logger_deregister() with it never
\* removes another logger (log.c:101-120, 360-365).
THEOREM StaleHandlesStayStale == Spec => StaleForever
  <1>1. IInv /\ [Next]_vars
          => [\A h \in issued : ~Designates(h) => ~Designates(h)']_vars
    BY StaleStep DEF vars
  <1>. QED
    BY <1>1, IInvAlways, PTL DEF Spec, StaleForever

-----------------------------------------------------------------------------
(* Refinement: the step that gives a call its answer is the call of the    *)
(* registry; the steps before it change nothing that the registry sees.    *)

\* No logger is registered, and no message printed, at the beginning.
LEMMA RegistryInit == Init => Registry!Init
  BY DEF Init, Registry!Init, Active, Delivered

\* Steps that leave the pool alone leave the registered loggers alone.
LEMMA ActiveStable == UNCHANGED pool => UNCHANGED Active
  BY DEF Active, Handle

\* A call is invoked in the registry when it is made.
LEMMA RefineCall ==
    ASSUME IInv, NEW t \in Threads, Call(t)
    PROVE  Registry!Invoke(t)
  <1>1. request[t] = NoRequest
    BY DEF Call, IInv, Labels
  <1>2. \E r \in Registry!Requests : request' = [request EXCEPT ![t] = r]
    BY DEF Call, Requests, Registry!Requests, ZeroHandle
  <1>3. Delivered' = [Delivered EXCEPT ![t] = {}]
    BY DEF Call, Delivered, IInv, TypeOK
  <1>4. UNCHANGED <<Active, issued>>
    BY ActiveStable DEF Call
  <1>. QED
    BY <1>1, <1>2, <1>3, <1>4
       DEF Call, Registry!Invoke, Pending, Registry!Pending

\* A system error without a message is declined.
LEMMA RefineSystemError ==
    ASSUME IInv, NEW t \in Threads, wp_log_system_error(t)
    PROVE  Registry!Decline(t)
  <1>1. request[t] = NoRequest
    BY DEF wp_log_system_error, IInv, Labels
  <1>2. Delivered' = [Delivered EXCEPT ![t] = {}]
    BY DEF wp_log_system_error, Delivered, IInv, TypeOK
  <1>3. UNCHANGED <<Active, issued>>
    BY ActiveStable DEF wp_log_system_error
  <1>. QED
    BY <1>1, <1>2, <1>3 DEF wp_log_system_error, Registry!Decline

\* A call leaves as it does in the registry.
LEMMA RefineLeave ==
    ASSUME IInv, NEW t \in Threads
    PROVE  /\ LockFailed(t) => Registry!Refuse(t)
           /\ w_mtx_unlock(t) => Registry!Return(t)
  <1>1. ASSUME LockFailed(t) \/ w_mtx_unlock(t)
        PROVE  UNCHANGED <<Active, issued, Delivered>>
    <2>1. UNCHANGED <<Active, issued>>
      BY <1>1, ActiveStable DEF LockFailed, w_mtx_unlock
    <2>2. UNCHANGED Delivered
      BY <1>1 DEF LockFailed, w_mtx_unlock, GoTo, Delivered, IInv, TypeOK
    <2>. QED
      BY <2>1, <2>2
  <1>2. pc[t] = "lock" => request[t] # NoRequest /\ status[t] = Pending
    BY DEF IInv, Labels
  <1>3. pc[t] = "unlock" => request[t] # NoRequest /\ status[t] # Pending
    BY DEF IInv, Labels
  <1>4. LockFailed(t) => Registry!Refuse(t)
    BY <1>1, <1>2 DEF LockFailed, Registry!Refuse, Pending, Registry!Pending
  <1>5. w_mtx_unlock(t) => Registry!Return(t)
    BY <1>1, <1>3 DEF w_mtx_unlock, Registry!Return, Pending, Registry!Pending
  <1>. QED
    BY <1>4, <1>5

\* A thread in a critical step that is not the last is running its call.
LEMMA RunningCall ==
    ASSUME IInv, NEW t \in Threads, NEW op, OpOf(t, op),
           pc[t] \in Critical \ {"unlock"}
    PROVE  Registry!Running(t, op)
  BY RequestAssumption
     DEF IInv, Labels, OpOf, Registry!Running, Pending, Registry!Pending,
         Critical

\* The loggers of the registry are those of the valid slots, one per slot.
LEMMA ActiveSlots ==
    ASSUME IInv
    PROVE  /\ \A r \in Active : r.handle[1] \in Slots /\ pool[r.handle[1]].valid
                               /\ r.handle = Handle(r.handle[1])
           /\ \A s \in Slots : pool[s].valid =>
                  \E r \in Active : r.handle = Handle(s) /\ r.handle[1] = s
  <1>1. ASSUME NEW r \in Active
        PROVE  /\ r.handle[1] \in Slots /\ pool[r.handle[1]].valid
               /\ r.handle = Handle(r.handle[1])
    <2>1. PICK s \in Slots : /\ pool[s].valid
                             /\ r = [handle |-> Handle(s), lvl |-> pool[s].lvl]
      BY DEF Active
    <2>2. r.handle = Handle(s) /\ Handle(s)[1] = s
      BY <2>1 DEF Handle
    <2>. QED
      BY <2>1, <2>2
  <1>2. ASSUME NEW s \in Slots, pool[s].valid
        PROVE  \E r \in Active : r.handle = Handle(s) /\ r.handle[1] = s
    <2> DEFINE r == [handle |-> Handle(s), lvl |-> pool[s].lvl]
    <2>1. r \in Active
      BY <1>2 DEF Active
    <2>2. r.handle = Handle(s) /\ r.handle[1] = s
      BY DEF Handle
    <2>. QED
      BY <2>1, <2>2
  <1>. QED
    BY <1>1, <1>2

\* Taking a slot registers a logger under a handle never given before.
LEMMA RefineFillSlot ==
    ASSUME IInv, NEW t \in Threads, FillSlot(t)
    PROVE  Registry!Register(t)
  <1> DEFINE s == i[t]
             n == pool[s].id + 1
             new == [handle |-> <<s, n>>, lvl |-> request[t].lvl]
  <1>1. /\ pc[t] = "fill" /\ s \in Slots /\ OpOf(t, "register")
        /\ ~pool[s].valid /\ n \in 1 .. MaxId /\ pool[s].id \in Nat
    BY DEF FillSlot, IInv, Labels, FoundStillHolds, Available, TypeOK
  <1>2. /\ pool' = [pool EXCEPT ![s] = [lvl |-> request[t].lvl, id |-> n,
                                       valid |-> TRUE]]
        /\ issued' = issued \union {<<s, n>>}
        /\ pc' = [pc EXCEPT ![t] = "unlock"]
        /\ status' = [status EXCEPT ![t] = "W_SUCCESS"]
        /\ UNCHANGED <<request, printed>>
    BY DEF FillSlot, Exit, GoTo
  <1>3. Registry!Running(t, "register")
    BY <1>1, RunningCall DEF Critical
  <1>4. <<s, n>> \in Registry!Handles \ issued
    BY <1>1 DEF IInv, Handed, Registry!Handles
  <1>5. \A r \in Active : r.handle[1] # s
    BY <1>1, ActiveSlots
  <1>6. Active' = Active \union {new}
    <2>1. pool'[s] = [lvl |-> request[t].lvl, id |-> n, valid |-> TRUE]
      BY <1>1, <1>2 DEF IInv, TypeOK
    <2>2. \A r \in Slots \ {s} : pool'[r] = pool[r]
      BY <1>1, <1>2 DEF IInv, TypeOK
    <2>3. {r \in Slots : pool'[r].valid} = {r \in Slots : pool[r].valid} \union {s}
      BY <1>1, <2>1, <2>2
    <2>4. s \notin {r \in Slots : pool[r].valid}
      BY <1>1
    <2> DEFINE V == {r \in Slots : pool[r].valid}
    <2>5. V \subseteq Slots \ {s} /\ {r \in Slots : pool'[r].valid} = V \union {s}
      BY <2>3, <2>4
    <2>6. Active = {[handle |-> <<r, pool[r].id>>, lvl |-> pool[r].lvl] : r \in V}
      BY DEF Active, Handle
    <2>7. Active' = {[handle |-> <<r, pool'[r].id>>, lvl |-> pool'[r].lvl] :
                       r \in V \union {s}}
      BY <2>3 DEF Active, Handle
    <2> HIDE DEF V, s, n
    <2>. QED
      BY <2>1, <2>2, <2>5, <2>6, <2>7
  <1>7. UNCHANGED Delivered
    BY <1>1, <1>2 DEF Delivered, IInv, TypeOK
  <1>. QED
    BY <1>2, <1>3, <1>4, <1>5, <1>6, <1>7
       DEF Registry!Register, Registry!Answer

\* A slot is found, or the registry is full.
LEMMA RefineFindSlot ==
    ASSUME IInv, NEW t \in Threads, FindSlot(t)
    PROVE  Registry!RegisterFull(t) \/ UNCHANGED Registry!vars
  <1>1. /\ pc[t] = "find_slot"
        /\ UNCHANGED <<pool, issued, request, printed>>
    BY DEF FindSlot
  <1>2. UNCHANGED <<Active, Delivered>>
    <2>1. pc' = [pc EXCEPT ![t] = "fill"] \/ pc' = [pc EXCEPT ![t] = "unlock"]
      BY DEF FindSlot, GoTo, Exit
    <2>2. UNCHANGED Delivered
      BY <1>1, <2>1 DEF Delivered, IInv, TypeOK
    <2>. QED
      BY <1>1, <2>2, ActiveStable
  <1>3. CASE UNCHANGED status
    BY <1>1, <1>2, <1>3 DEF Registry!vars
  <1>4. CASE /\ \A s \in Slots : ~Available(s)
             /\ Exit(t, "W_ERROR_BUF_FULL")
    <2>1. Registry!Running(t, "register")
      BY <1>1, RunningCall DEF IInv, Labels, Critical
    <2>2. ASSUME NEW s \in Slots
          PROVE  \/ \E r \in Active : r.handle[1] = s
                 \/ \A id \in 1 .. MaxId : <<s, id>> \in issued
      <3>1. CASE pool[s].valid
        BY <3>1, ActiveSlots
      <3>2. CASE ~pool[s].valid
        <4>1. pool[s].id \in 0 .. MaxId /\ ~(pool[s].id + 1 <= MaxId)
          BY <1>4, <3>2 DEF Available, IInv, TypeOK
        <4>2. pool[s].id = MaxId
          BY <4>1, LoggerAssumption
        <4>. QED
          BY <4>2 DEF IInv, Handed, AllHandles
      <3>. QED
        BY <3>1, <3>2
    <2>3. status' = [status EXCEPT ![t] = "W_ERROR_BUF_FULL"]
      BY <1>4 DEF Exit
    <2>. QED
      BY <1>1, <1>2, <2>1, <2>2, <2>3
         DEF Registry!RegisterFull, Registry!Answer
  <1>. QED
    BY <1>3, <1>4 DEF FindSlot

\* A logger is found, or there is none with this handle.
LEMMA RefineFindLogger ==
    ASSUME IInv, NEW t \in Threads, FindLogger(t)
    PROVE  Registry!Deregister(t) \/ UNCHANGED Registry!vars
  <1> DEFINE h == request[t].handle
  <1>1. /\ pc[t] = "find" /\ OpOf(t, "deregister")
        /\ UNCHANGED <<pool, issued, request, printed>>
    BY DEF FindLogger, IInv, Labels
  <1>2. UNCHANGED <<Active, Delivered>>
    <2>1. \/ pc' = [pc EXCEPT ![t] = "invalidate"]
          \/ pc' = [pc EXCEPT ![t] = "unlock"]
      BY DEF FindLogger, GoTo, Exit
    <2>2. UNCHANGED Delivered
      BY <1>1, <2>1 DEF Delivered, IInv, TypeOK
    <2>. QED
      BY <1>1, <2>2, ActiveStable
  <1>3. CASE UNCHANGED status
    BY <1>1, <1>2, <1>3 DEF Registry!vars
  <1>4. CASE ~Designates(h) /\ Exit(t, "W_ERROR_NOT_FOUND")
    <2>1. Registry!Running(t, "deregister")
      BY <1>1, RunningCall DEF Critical
    <2>2. ASSUME NEW r \in Active
          PROVE  r.handle # h
      BY <1>4, ActiveSlots DEF Designates, Handle
    <2>3. Active' = {r \in Active : r.handle # h}
      BY <1>2, <2>2
    <2>4. status' = [status EXCEPT ![t] = "W_ERROR_NOT_FOUND"]
      BY <1>4 DEF Exit
    <2>. QED
      BY <1>1, <1>2, <2>1, <2>3, <2>4
         DEF Registry!Deregister, Registry!Answer
  <1>. QED
    BY <1>3, <1>4 DEF FindLogger

\* Invalidating slots deregisters their loggers.
LEMMA RefineInvalidate ==
    ASSUME IInv, NEW t \in Threads
    PROVE  /\ Invalidate(t) => Registry!Deregister(t)
           /\ InvalidateAll(t) => Registry!DeregisterAll(t)
  <1>1. ASSUME Invalidate(t)
        PROVE  Registry!Deregister(t)
    <2> DEFINE s == i[t]
               h == request[t].handle
    <2>1. /\ pc[t] = "invalidate" /\ OpOf(t, "deregister") /\ s \in Slots
          /\ s = h[1] /\ pool[s].valid /\ pool[s].id = h[2]
      BY <1>1 DEF Invalidate, IInv, Labels, FoundStillHolds, Designates
    <2>2. /\ pool' = [pool EXCEPT ![s].valid = FALSE]
          /\ pc' = [pc EXCEPT ![t] = "unlock"]
          /\ status' = [status EXCEPT ![t] = "W_SUCCESS"]
          /\ UNCHANGED <<issued, request, printed>>
      BY <1>1 DEF Invalidate, Exit, GoTo
    <2>3. Registry!Running(t, "deregister")
      BY <2>1, RunningCall DEF Critical
    <2>4. h = Handle(s)
      BY <2>1, RequestFields DEF OpOf, Handle, AllHandles, ZeroHandle
    <2>5. /\ ~pool'[s].valid
          /\ \A r \in Slots \ {s} : pool'[r] = pool[r]
      BY <2>1, <2>2 DEF IInv, TypeOK
    <2>6. {r \in Slots : pool'[r].valid} = {r \in Slots : pool[r].valid} \ {s}
      BY <2>1, <2>5
    <2> HIDE DEF s, h
    <2>7. Active' = {r \in Active : r.handle # h}
      <3>1. Active' = {[handle |-> <<r, pool'[r].id>>, lvl |-> pool'[r].lvl] :
                         r \in {q \in Slots : pool[q].valid} \ {s}}
        BY <2>6 DEF Active, Handle
      <3>2. Active' = {[handle |-> Handle(r), lvl |-> pool[r].lvl] :
                         r \in {q \in Slots : pool[q].valid} \ {s}}
        BY <3>1, <2>5 DEF Handle
      <3>3. \A r \in Slots : Handle(r) = h <=> r = s
        BY <2>4 DEF Handle
      <3>. QED
        BY <3>2, <3>3 DEF Active
    <2>8. Active' # Active
      <3>1. PICK r \in Active : r.handle = Handle(s)
        BY <2>1, ActiveSlots
      <3>. QED
        BY <2>4, <2>7, <3>1
    <2>9. UNCHANGED Delivered
      BY <2>1, <2>2 DEF Delivered, IInv, TypeOK
    <2>. QED
      BY <2>2, <2>3, <2>7, <2>8, <2>9
         DEF Registry!Deregister, Registry!Answer, h
  <1>2. ASSUME InvalidateAll(t)
        PROVE  Registry!DeregisterAll(t)
    <2>1. pc[t] = "clear" /\ OpOf(t, "deregister_all")
      BY <1>2 DEF InvalidateAll, IInv, Labels
    <2>2. /\ \A s \in Slots : ~pool'[s].valid
          /\ pc' = [pc EXCEPT ![t] = "unlock"]
          /\ status' = [status EXCEPT ![t] = "W_SUCCESS"]
          /\ UNCHANGED <<issued, request, printed>>
      BY <1>2 DEF InvalidateAll, Exit, GoTo, IInv, TypeOK
    <2>3. Registry!Running(t, "deregister_all")
      BY <2>1, RunningCall DEF Critical
    <2>4. Active' = {}
      BY <2>2 DEF Active
    <2>5. UNCHANGED Delivered
      BY <2>1, <2>2 DEF Delivered, IInv, TypeOK
    <2>. QED
      BY <2>2, <2>3, <2>4, <2>5 DEF Registry!DeregisterAll, Registry!Answer
  <1>. QED
    BY <1>1, <1>2

\* The loggers that accept a level.
LEMMA AcceptingSlots ==
    ASSUME IInv, NEW lvl
    PROVE  Registry!Accepting(lvl) =
             {Handle(s) : s \in {r \in Slots : Accepts(r, lvl)}}
  <1> DEFINE S == {r \in Slots : Accepts(r, lvl)}
  <1>1. ASSUME NEW h \in Registry!Accepting(lvl)
        PROVE  h \in {Handle(s) : s \in S}
    <2>1. PICK r \in Active : r.lvl >= lvl /\ h = r.handle
      BY DEF Registry!Accepting
    <2>2. PICK s \in Slots : /\ pool[s].valid
                             /\ r = [handle |-> Handle(s), lvl |-> pool[s].lvl]
      BY DEF Active
    <2>. QED
      BY <2>1, <2>2 DEF Accepts
  <1>2. ASSUME NEW s \in S
        PROVE  Handle(s) \in Registry!Accepting(lvl)
    <2> DEFINE r == [handle |-> Handle(s), lvl |-> pool[s].lvl]
    <2>1. r \in Active /\ r.lvl >= lvl
      BY DEF Active, Accepts
    <2>2. r \in {x \in Active : x.lvl >= lvl} /\ r.handle = Handle(s)
      BY <2>1
    <2> HIDE DEF r
    <2>. QED
      BY <2>2 DEF Registry!Accepting
  <1>. QED
    BY <1>1, <1>2

\* The loggers that the code has a message of a level reach.
Goal(lvl) == IF Registry!Accepting(lvl) = {}
               THEN {Default} ELSE Registry!Accepting(lvl)

\* A message comes to success if it was printed to all that it had to reach.
LEMMA RefineMessage ==
    ASSUME IInv, NEW t \in Threads, pc[t] = "scan",
           UNCHANGED <<pool, issued, request>>,
           NEW a \in PrintErrors \union {"W_SUCCESS"}, Exit(t, a),
           printed' = [printed EXCEPT ![t] = printed'[t]],
           printed'[t] \subseteq Goal(request[t].lvl),
           printed'[t] = Goal(request[t].lvl) <=> a = "W_SUCCESS"
    PROVE  Registry!Log(t)
  <1> DEFINE d == printed'[t]
             goal == Goal(request[t].lvl)
  <1>1. Registry!Running(t, "log")
    BY RunningCall DEF IInv, Labels, Critical
  <1>2. Delivered' = [Delivered EXCEPT ![t] = d]
    BY DEF Delivered, Exit, GoTo, IInv, TypeOK
  <1>3. UNCHANGED Active
    BY ActiveStable
  <1>4. a \in IF d = goal THEN {"W_SUCCESS"} ELSE PrintErrors
    BY DEF PrintErrors
  <1>5. Registry!Answer(t, a)
    BY DEF Exit, Registry!Answer
  <1>6. goal \in Registry!Goals(request[t].lvl)
    BY DEF Goal, Default, Registry!Default, Registry!Goals
  <1>7. d \in SUBSET goal
    OBVIOUS
  <1> HIDE DEF d, goal
  <1>. QED
    BY <1>1, <1>2, <1>3, <1>4, <1>5, <1>6, <1>7
       DEF Registry!Log, Registry!PrintErrors, PrintErrors

\* A print is part of the message, or ends it.
LEMMA RefinePrint ==
    ASSUME IInv, NEW t \in Threads, PrintTo(t)
    PROVE  Registry!Log(t) \/ UNCHANGED Registry!vars
  <1>1. /\ pc[t] = "scan" /\ i[t] \in Slots
        /\ Accepts(i[t], request[t].lvl)
        /\ UNCHANGED <<mtx, pool, issued, request>>
    BY DEF PrintTo
  <1>2. CASE /\ printed' = [printed EXCEPT ![t] = @ \union {Handle(i[t])}]
             /\ UNCHANGED <<pc, status>>
    <2>1. UNCHANGED Delivered
      BY <1>1, <1>2 DEF Delivered, IInv, TypeOK
    <2>. QED
      BY <1>1, <1>2, <2>1, ActiveStable DEF Registry!vars
  <1>3. CASE \E e \in PrintErrors : Exit(t, e) /\ UNCHANGED printed
    <2> DEFINE lvl == request[t].lvl
               goal == Registry!Accepting(lvl)
    <2>1. PICK e \in PrintErrors : Exit(t, e) /\ UNCHANGED printed
      BY <1>3
    <2>2. goal = {Handle(s) : s \in {r \in Slots : Accepts(r, lvl)}}
      BY AcceptingSlots
    <2>3. printed[t] = {Handle(s) : s \in {r \in Slots : r < i[t]
                                                     /\ Accepts(r, lvl)}}
      BY <1>1 DEF IInv, MessageSeesOnePool
    <2>4. Handle(i[t]) \in goal
      BY <1>1, <2>2
    <2>5. Handle(i[t]) \notin printed[t]
      <3>1. \A s \in Slots : Handle(s) = Handle(i[t]) => s = i[t]
        BY DEF Handle
      <3>2. ~(i[t] < i[t])
        BY <1>1 DEF Slots
      <3>. QED
        BY <1>1, <2>3, <3>1, <3>2
    <2>6. printed[t] \subseteq goal
      BY <2>2, <2>3
    <2>7. /\ printed'[t] = printed[t]
          /\ printed' = [printed EXCEPT ![t] = printed'[t]]
      BY <2>1 DEF IInv, TypeOK
    <2>8. e # "W_SUCCESS"
      BY DEF PrintErrors
    <2>9. goal # {} /\ printed[t] # goal
      BY <2>4, <2>5
    <2>10. goal = Goal(request[t].lvl)
      BY <2>9 DEF Goal
    <2> HIDE DEF goal
    <2>. QED
      BY <1>1, <2>1, <2>6, <2>7, <2>8, <2>9, <2>10, RefineMessage
  <1>. QED
    BY <1>2, <1>3 DEF PrintTo

\* After the last slot the message has reached all the accepting loggers, or
\* there are none.
LEMMA RefineMessageEnd ==
    ASSUME IInv, NEW t \in Threads, ScanDone(t) \/ Fallback(t)
    PROVE  Registry!Log(t)
  <1> DEFINE lvl == request[t].lvl
             accepting == Registry!Accepting(lvl)
  <1>1. /\ pc[t] = "scan" /\ i[t] = PoolSize
        /\ UNCHANGED <<mtx, pool, issued, request>>
    BY DEF ScanDone, Fallback
  <1>2. printed[t] = accepting
    <2>1. {r \in Slots : r < i[t] /\ Accepts(r, lvl)}
            = {r \in Slots : Accepts(r, lvl)}
      BY <1>1, LoggerAssumption DEF Slots
    <2>2. printed[t] = {Handle(s) : s \in {r \in Slots : r < i[t]
                                                     /\ Accepts(r, lvl)}}
      BY <1>1 DEF IInv, MessageSeesOnePool
    <2>. QED
      BY <2>1, <2>2, AcceptingSlots
  <1>3. CASE ScanDone(t)
    <2>1. printed[t] # {} /\ Exit(t, "W_SUCCESS") /\ UNCHANGED printed
      BY <1>3 DEF ScanDone
    <2>2. printed' = [printed EXCEPT ![t] = printed'[t]]
      BY <2>1 DEF IInv, TypeOK
    <2>3. printed'[t] = Goal(request[t].lvl)
      BY <1>2, <2>1 DEF Goal
    <2>. QED
      BY <1>1, <2>1, <2>2, <2>3, RefineMessage
  <1>4. CASE Fallback(t)
    <2>1. Goal(request[t].lvl) = {Default}
      BY <1>2, <1>4 DEF Fallback, Goal
    <2>2. CASE /\ printed' = [printed EXCEPT ![t] = {Default}]
               /\ Exit(t, "W_SUCCESS")
      <3>1. printed' = [printed EXCEPT ![t] = printed'[t]]
            /\ printed'[t] = {Default}
        BY <2>2 DEF IInv, TypeOK
      <3>. QED
        BY <1>1, <2>1, <2>2, <3>1, RefineMessage
    <2>3. CASE \E e \in PrintErrors : Exit(t, e) /\ UNCHANGED printed
      <3>1. PICK e \in PrintErrors : Exit(t, e) /\ UNCHANGED printed
        BY <2>3
      <3>2. printed' = [printed EXCEPT ![t] = printed'[t]] /\ printed'[t] = {}
        BY <1>4, <3>1 DEF Fallback, IInv, TypeOK
      <3>3. e # "W_SUCCESS"
        BY DEF PrintErrors
      <3>. QED
        BY <1>1, <2>1, <3>1, <3>2, <3>3, RefineMessage
    <2>. QED
      BY <1>4, <2>2, <2>3 DEF Fallback
  <1>. QED
    BY <1>3, <1>4

\* Taking the mutex and passing over a logger are invisible to the registry.
LEMMA InvisibleSteps ==
    ASSUME IInv, NEW t \in Threads, w_mtx_lock(t) \/ Skip(t)
    PROVE  UNCHANGED Registry!vars
  <1>1. UNCHANGED <<pool, issued, request, printed, status>>
    BY DEF w_mtx_lock, Skip, locals
  <1>2. UNCHANGED Delivered
    <2>1. CASE w_mtx_lock(t)
      BY <1>1, <2>1 DEF w_mtx_lock, GoTo, Delivered, IInv, Labels, TypeOK
    <2>2. CASE Skip(t)
      BY <1>1, <2>2 DEF Skip, Delivered
    <2>. QED
      BY <2>1, <2>2
  <1>. QED
    BY <1>1, <1>2, ActiveStable DEF Registry!vars

\* Every step is one of the registry or changes nothing it knows of.
LEMMA RegistryNext ==
    ASSUME IInv, [Next]_vars
    PROVE  [Registry!Next]_(Registry!vars)
  <1>1. CASE UNCHANGED vars
    <2>1. UNCHANGED Delivered
      BY <1>1 DEF vars, Delivered
    <2>. QED
      BY <1>1, <2>1, ActiveStable DEF vars, Registry!vars
  <1>2. ASSUME NEW t \in Threads, Body(t)
        PROVE  [Registry!Next]_(Registry!vars)
    BY <1>2, RefineFindSlot, RefineFillSlot, RefineFindLogger,
       RefineInvalidate, RefinePrint, RefineMessageEnd, InvisibleSteps
       DEF Body, Registry!Next
  <1>3. ASSUME NEW t \in Threads,
               \/ Call(t) \/ wp_log_system_error(t)
               \/ w_mtx_lock(t) \/ LockFailed(t) \/ w_mtx_unlock(t)
        PROVE  [Registry!Next]_(Registry!vars)
    BY <1>3, RefineCall, RefineSystemError, RefineLeave, InvisibleSteps
       DEF Registry!Next
  <1>. QED
    BY <1>1, <1>2, <1>3 DEF Next, Step

\* The logger implements the registry: whatever the threads interleave, their
\* calls take effect one at a time, each between its beginning and its end.
THEOREM LoggerImplementsRegistry == Spec => ImplementsRegistry
  <1>1. Init => Registry!Init
    BY RegistryInit
  <1>2. IInv /\ [Next]_vars => [Registry!Next]_(Registry!vars)
    BY RegistryNext
  <1>. QED
    BY <1>1, <1>2, IInvAlways, PTL DEF Spec, Registry!Spec, ImplementsRegistry

-----------------------------------------------------------------------------
(* What the registry leaves open.                                          *)

\* A message comes to success when it was printed by all the registered loggers
\* that accept its level, and by the default one just when none does.
MessageReachesGoal ==
    [][\A t \in Threads :
         /\ request[t] \in [op : {"log"}, lvl : Levels]
         /\ status[t] = Pending /\ status'[t] = "W_SUCCESS"
         => printed'[t] = Goal(request[t].lvl)]_vars

\* A step that brings a message to success is one of the two ends of its scan.
LEMMA SuccessfulStep ==
    ASSUME IInv, NEW t \in Threads, Next,
           request[t] \in [op : {"log"}, lvl : Levels],
           status[t] = Pending, status'[t] = "W_SUCCESS"
    PROVE  /\ ScanDone(t) \/ Fallback(t)
           /\ pc[t] = "scan"
  <1>1. request[t].op = "log" /\ pc[t] \in {"lock", "scan"}
    BY DEF IInv, Labels, OpOf, TypeOK, Critical
  <1>2. PICK u \in Threads : Call(u) \/ wp_log_system_error(u) \/ Step(u)
    BY DEF Next
  <1>3. CASE u # t
    <2>1. \A s : status' = [status EXCEPT ![u] = s] => status'[t] = status[t]
      BY <1>3 DEF IInv, TypeOK
    <2>2. (\E s : status' = [status EXCEPT ![u] = s]) \/ UNCHANGED status
      BY <1>2 DEF Call, wp_log_system_error, Step, w_mtx_lock, LockFailed,
         w_mtx_unlock, Body, FindSlot, FillSlot, FindLogger, Invalidate,
         InvalidateAll, Skip, PrintTo, ScanDone, Fallback, Exit, locals
    <2>. QED
      BY <2>1, <2>2 DEF Pending
  <1>4. CASE u = t
    <2>1. ~Call(t) /\ ~wp_log_system_error(t) /\ ~w_mtx_unlock(t)
      BY <1>1 DEF Call, wp_log_system_error, w_mtx_unlock
    <2>2. ~(FindSlot(t) \/ FillSlot(t) \/ FindLogger(t) \/ Invalidate(t)
              \/ InvalidateAll(t))
      BY <1>1 DEF FindSlot, FillSlot, FindLogger, Invalidate, InvalidateAll
    <2>3. ~(w_mtx_lock(t) \/ Skip(t))
      BY DEF w_mtx_lock, Skip, locals, Pending
    <2>4. ~LockFailed(t)
      BY DEF LockFailed, IInv, TypeOK
    <2>5. ~PrintTo(t)
      BY DEF PrintTo, Exit, IInv, TypeOK, Pending, PrintErrors
    <2>6. ScanDone(t) \/ Fallback(t)
      BY <1>2, <1>4, <2>1, <2>2, <2>3, <2>4, <2>5 DEF Step, Body
    <2>. QED
      BY <2>6 DEF ScanDone, Fallback
  <1>. QED
    BY <1>3, <1>4

\* Also where the registry leaves it open: a message that succeeds was printed
\* by every logger that accepts its level at that time, and when there is none
\* by the default logger, whether others are registered or not (log.c:242-293).
THEOREM MessageReachesGoalAlways == Spec => MessageReachesGoal
  <1>1. ASSUME IInv, Next, NEW t \in Threads,
               request[t] \in [op : {"log"}, lvl : Levels],
               status[t] = Pending, status'[t] = "W_SUCCESS"
        PROVE  printed'[t] = Goal(request[t].lvl)
    <2>1. (ScanDone(t) \/ Fallback(t)) /\ pc[t] = "scan"
      BY <1>1, SuccessfulStep
    <2>2. printed[t] = Registry!Accepting(request[t].lvl)
      <3>1. i[t] = PoolSize
        BY <2>1 DEF ScanDone, Fallback
      <3>2. {r \in Slots : r < i[t] /\ Accepts(r, request[t].lvl)}
              = {r \in Slots : Accepts(r, request[t].lvl)}
        BY <3>1, LoggerAssumption DEF Slots
      <3>3. printed[t] = {Handle(s) : s \in {r \in Slots : r < i[t]
                                         /\ Accepts(r, request[t].lvl)}}
        BY <1>1, <2>1 DEF IInv, MessageSeesOnePool
      <3>. QED
        BY <1>1, <3>2, <3>3, AcceptingSlots
    <2>3. CASE ScanDone(t)
      BY <2>2, <2>3 DEF ScanDone, Goal
    <2>4. CASE Fallback(t)
      <3>1. printed[t] = {} /\ Goal(request[t].lvl) = {Default}
        BY <2>2, <2>4 DEF Fallback, Goal
      <3>2. printed' = [printed EXCEPT ![t] = {Default}]
        BY <1>1, <2>4 DEF Fallback, Exit, PrintErrors, IInv, TypeOK
      <3>. QED
        BY <1>1, <3>1, <3>2 DEF IInv, TypeOK
    <2>. QED
      BY <2>1, <2>3, <2>4
  <1>2. IInv /\ [Next]_vars
          => [\A t \in Threads :
                /\ request[t] \in [op : {"log"}, lvl : Levels]
                /\ status[t] = Pending /\ status'[t] = "W_SUCCESS"
                => printed'[t] = Goal(request[t].lvl)]_vars
    BY <1>1 DEF vars
  <1>. QED
    BY <1>2, IInvAlways, PTL DEF Spec, MessageReachesGoal

=============================================================================
