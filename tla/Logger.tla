------------------------------- MODULE Logger -------------------------------
(***************************************************************************)
(* The pool of loggers of log.c and the threads that register, deregister  *)
(* and log.  Everything happens under one mutex; a thread holding it stops *)
(* at every call to the system and between what it reads and what it       *)
(* writes, so that only the mutex keeps the threads apart.                 *)
(*                                                                         *)
(* Where and how a logger prints (its stream and its format) is left out;  *)
(* a print succeeds or fails.                                              *)
(***************************************************************************)
EXTENDS Integers

CONSTANTS
    Threads,
    PoolSize,   \* length of wp_log_logger_pool
    MaxId,      \* UINT16_MAX
    Levels,     \* enum w_log_lvl
    NoRequest, Free,
    MayFail     \* may w_mtx_lock() and w_mtx_unlock() fail?

ASSUME LoggerAssumption ==
    /\ PoolSize \in Nat \ {0}
    /\ MaxId \in Nat \ {0}
    /\ Levels \subseteq Nat
    /\ Free \notin Threads
    /\ MayFail \in BOOLEAN

Slots == 0 .. (PoolSize - 1)

VARIABLES
    mtx,        \* the thread that holds wp_log_mtx, or Free
    pool,       \* wp_log_logger_pool
    issued,     \* the handles written to a client's variable so far
    pc,         \* per thread, where it is in its call
    request,    \* its call
    i,          \* its local i, or the slot of its local logger
    printed,    \* the loggers its message was printed to so far
    status      \* its local status, then what the call returned

vars == <<mtx, pool, issued, pc, request, i, printed, status>>

locals == <<request, i, printed, status>>

Pending == "pending"

PrintErrors == {"W_ERROR_IO_FAILED", "W_ERROR_STR_FORMATTING_FAILED"}

\* WP_LOG_SET_HANDLE, kept as a pair.
Handle(s) == <<s, pool[s].id>>

\* A handle variable of static storage that no call has filled.
ZeroHandle == <<0, 0>>

\* Stands for the default logger, which has no slot.
Default == <<-1, 0>>

Init ==
    /\ mtx = Free
    /\ pool = [s \in Slots |-> [lvl |-> 0, id |-> 0, valid |-> FALSE]]
    /\ issued = {}
    /\ pc = [t \in Threads |-> "idle"]
    /\ request = [t \in Threads |-> NoRequest]
    /\ i = [t \in Threads |-> 0]
    /\ printed = [t \in Threads |-> {}]
    /\ status = [t \in Threads |-> "W_SUCCESS"]

-----------------------------------------------------------------------------
(* Calls, and the mutex around each of them.                               *)

Requests ==
    [op : {"log"}, lvl : Levels] \union
    [op : {"register"}, lvl : Levels] \union
    [op : {"deregister"}, handle : issued \union {ZeroHandle}] \union
    [op : {"deregister_all"}]

Call(t) ==
    /\ pc[t] = "idle"
    /\ \E r \in Requests : request' = [request EXCEPT ![t] = r]
    /\ pc' = [pc EXCEPT ![t] = "lock"]
    /\ i' = [i EXCEPT ![t] = 0]
    /\ printed' = [printed EXCEPT ![t] = {}]
    /\ status' = [status EXCEPT ![t] = Pending]
    /\ UNCHANGED <<mtx, pool, issued>>

(* wp_log_system_error() of no error, or of one without a message, does    *)
(* not come to logging; of any other it is a message like the others.      *)
wp_log_system_error(t) ==
    /\ pc[t] = "idle"
    /\ \E s \in {"W_SUCCESS", "W_ERROR"} : status' = [status EXCEPT ![t] = s]
    /\ printed' = [printed EXCEPT ![t] = {}]
    /\ UNCHANGED <<mtx, pool, issued, pc, request, i>>

GoTo(t, label) == pc' = [pc EXCEPT ![t] = label]

\* To the end of the call, with the value it will return.
Exit(t, s) ==
    /\ GoTo(t, "unlock")
    /\ status' = [status EXCEPT ![t] = s]

Entry(op) ==
    CASE op = "log"            -> "scan"
      [] op = "register"       -> "find_slot"
      [] op = "deregister"     -> "find"
      [] op = "deregister_all" -> "clear"

\* Mutant: deregistering all the loggers does not wait for the mutex.
Mutant_w_mtx_lock(t) ==
    /\ pc[t] = "lock"
    /\ \/ mtx = Free /\ mtx' = t
       \/ request[t].op = "deregister_all" /\ UNCHANGED mtx
    /\ GoTo(t, Entry(request[t].op))
    /\ UNCHANGED <<pool, issued, locals>>

w_mtx_lock(t) ==
    /\ pc[t] = "lock"
    /\ mtx = Free
    /\ mtx' = t
    /\ GoTo(t, Entry(request[t].op))
    /\ UNCHANGED <<pool, issued, locals>>

LockFailed(t) ==
    /\ MayFail
    /\ pc[t] = "lock"
    /\ GoTo(t, "idle")
    /\ request' = [request EXCEPT ![t] = NoRequest]
    /\ status' = [status EXCEPT ![t] = "W_ERROR_LOCK_FAILED"]
    /\ UNCHANGED <<mtx, pool, issued, i, printed>>

(* A mutex that could not be unlocked stays locked; the effect of the call *)
(* stays as well.                                                          *)
w_mtx_unlock(t) ==
    /\ pc[t] = "unlock"
    /\ \/ mtx' = Free /\ UNCHANGED status
       \/ /\ MayFail
          /\ status' = [status EXCEPT ![t] = "W_ERROR_UNLOCK_FAILED"]
          /\ UNCHANGED mtx
    /\ GoTo(t, "idle")
    /\ request' = [request EXCEPT ![t] = NoRequest]
    /\ UNCHANGED <<pool, issued, i, printed>>

-----------------------------------------------------------------------------
(* w_logger_register()                                                     *)

\* Mutant: a slot is taken again however often it was.
Mutant_Available(s) == ~pool[s].valid

Available(s) == ~pool[s].valid /\ pool[s].id + 1 <= MaxId

\* The first slot available.
FindSlot(t) ==
    /\ pc[t] = "find_slot"
    /\ \/ \E s \in Slots :
            /\ Available(s)
            /\ \A r \in 0 .. (s - 1) : ~Available(r)
            /\ i' = [i EXCEPT ![t] = s]
            /\ GoTo(t, "fill")
            /\ UNCHANGED status
       \/ /\ \A s \in Slots : ~Available(s)
          /\ Exit(t, "W_ERROR_BUF_FULL")
          /\ UNCHANGED i
    /\ UNCHANGED <<mtx, pool, issued, request, printed>>

FillSlot(t) ==
    /\ pc[t] = "fill"
    /\ pool' = [pool EXCEPT ![i[t]] =
                  [lvl |-> request[t].lvl, id |-> @.id + 1, valid |-> TRUE]]
    /\ issued' = issued \union {<<i[t], pool[i[t]].id + 1>>}
    /\ Exit(t, "W_SUCCESS")
    /\ UNCHANGED <<mtx, request, i, printed>>

-----------------------------------------------------------------------------
(* w_logger_deregister() and w_logger_deregister_all()                     *)

\* Mutant: the id is not compared.
Mutant_Designates(h) == h[1] \in Slots /\ pool[h[1]].valid

\* wp_log_logger_find(): is there a logger with this handle?
Designates(h) == pool[h[1]].valid /\ pool[h[1]].id = h[2]

FindLogger(t) ==
    /\ pc[t] = "find"
    /\ \/ /\ Designates(request[t].handle)
          /\ i' = [i EXCEPT ![t] = request[t].handle[1]]
          /\ GoTo(t, "invalidate")
          /\ UNCHANGED status
       \/ /\ ~Designates(request[t].handle)
          /\ Exit(t, "W_ERROR_NOT_FOUND")
          /\ UNCHANGED i
    /\ UNCHANGED <<mtx, pool, issued, request, printed>>

Invalidate(t) ==
    /\ pc[t] = "invalidate"
    /\ pool' = [pool EXCEPT ![i[t]].valid = FALSE]
    /\ Exit(t, "W_SUCCESS")
    /\ UNCHANGED <<mtx, issued, request, i, printed>>

\* Mutant: the slots are cleared, their ids with them.
Mutant_InvalidateAll(t) ==
    /\ pc[t] = "clear"
    /\ pool' = [s \in Slots |-> [lvl |-> 0, id |-> 0, valid |-> FALSE]]
    /\ Exit(t, "W_SUCCESS")
    /\ UNCHANGED <<mtx, issued, request, i, printed>>

InvalidateAll(t) ==
    /\ pc[t] = "clear"
    /\ pool' = [s \in Slots |-> [pool[s] EXCEPT !.valid = FALSE]]
    /\ Exit(t, "W_SUCCESS")
    /\ UNCHANGED <<mtx, issued, request, i, printed>>

-----------------------------------------------------------------------------
(* wp_log_va()                                                             *)

Accepts(s, lvl) == pool[s].valid /\ pool[s].lvl >= lvl

\* Mutant: passing over a logger does not go on to the next one.
Mutant_Skip(t) ==
    /\ pc[t] = "scan"
    /\ i[t] \in Slots
    /\ ~Accepts(i[t], request[t].lvl)
    /\ UNCHANGED vars

Skip(t) ==
    /\ pc[t] = "scan"
    /\ i[t] \in Slots
    /\ ~Accepts(i[t], request[t].lvl)
    /\ i' = [i EXCEPT ![t] = @ + 1]
    /\ UNCHANGED <<mtx, pool, issued, pc, request, printed, status>>

\* The message goes to the next logger; a failing print ends the call.
PrintTo(t) ==
    /\ pc[t] = "scan"
    /\ i[t] \in Slots
    /\ Accepts(i[t], request[t].lvl)
    /\ \/ /\ printed' = [printed EXCEPT ![t] = @ \union {Handle(i[t])}]
          /\ i' = [i EXCEPT ![t] = @ + 1]
          /\ UNCHANGED <<pc, status>>
       \/ /\ \E e \in PrintErrors : Exit(t, e)
          /\ UNCHANGED <<printed, i>>
    /\ UNCHANGED <<mtx, pool, issued, request>>

ScanDone(t) ==
    /\ pc[t] = "scan"
    /\ i[t] = PoolSize
    /\ printed[t] # {}
    /\ Exit(t, "W_SUCCESS")
    /\ UNCHANGED <<mtx, pool, issued, request, i, printed>>

\* No logger accepted the level, were there some or not: the default one, on
\* the standard error.
Fallback(t) ==
    /\ pc[t] = "scan"
    /\ i[t] = PoolSize
    /\ printed[t] = {}
    /\ \/ /\ printed' = [printed EXCEPT ![t] = {Default}]
          /\ Exit(t, "W_SUCCESS")
       \/ /\ \E e \in PrintErrors : Exit(t, e)
          /\ UNCHANGED printed
    /\ UNCHANGED <<mtx, pool, issued, request, i>>

-----------------------------------------------------------------------------

Body(t) ==
    \/ FindSlot(t) \/ FillSlot(t)
    \/ FindLogger(t) \/ Invalidate(t)
    \/ InvalidateAll(t)
    \/ Skip(t) \/ PrintTo(t) \/ ScanDone(t) \/ Fallback(t)

Step(t) == w_mtx_lock(t) \/ LockFailed(t) \/ Body(t) \/ w_mtx_unlock(t)

Next == \E t \in Threads : Call(t) \/ wp_log_system_error(t) \/ Step(t)

Spec == Init /\ [][Next]_vars

(* The system runs every thread that is not blocked, and its prints return *)
(* (log.c calls nothing else that could wait while it holds the mutex).    *)
Fairness == \A t \in Threads : WF_vars(Step(t))

FairSpec == Spec /\ Fairness

-----------------------------------------------------------------------------
(* Properties.                                                             *)

\* The labels between taking the mutex and giving it back.
Critical == {"scan", "find_slot", "fill", "find", "invalidate", "clear",
             "unlock"}

AllHandles == Slots \X (1 .. MaxId)

AllRequests ==
    [op : {"log"}, lvl : Levels] \union
    [op : {"register"}, lvl : Levels] \union
    [op : {"deregister"}, handle : AllHandles \union {ZeroHandle}] \union
    [op : {"deregister_all"}]

ASSUME RequestAssumption == NoRequest \notin AllRequests

\* The variables have the shape the code gives them; in particular an id
\* stays in its 16 bits.
TypeOK ==
    /\ mtx \in Threads \union {Free}
    /\ pool \in [Slots -> [lvl : Nat, id : 0 .. MaxId, valid : BOOLEAN]]
    /\ issued \subseteq AllHandles
    /\ pc \in [Threads -> Critical \union {"idle", "lock"}]
    /\ request \in [Threads -> AllRequests \union {NoRequest}]
    /\ i \in [Threads -> 0 .. PoolSize]
    /\ printed \in [Threads -> SUBSET (AllHandles \union {Default})]
    /\ status \in [Threads -> {Pending, "W_SUCCESS", "W_ERROR",
                     "W_ERROR_LOCK_FAILED", "W_ERROR_UNLOCK_FAILED",
                     "W_ERROR_BUF_FULL", "W_ERROR_NOT_FOUND"}
                     \union PrintErrors]

(* While a message is printed, logger after logger, no other thread        *)
(* changes the pool: it has reached just those loggers below i that are    *)
(* registered now and accept its level (log.c:243-274).                    *)
MessageSeesOnePool ==
    \A t \in Threads :
        pc[t] = "scan" =>
            printed[t] = {Handle(s) : s \in
                            {r \in Slots : r < i[t] /\ Accepts(r, request[t].lvl)}}

(* What a thread found in the pool still holds when it acts on it: the     *)
(* slot it is about to take is available, the logger it is about to        *)
(* remove is the one it was asked to (log.c:353-365, 401-405).             *)
FoundStillHolds ==
    \A t \in Threads :
        /\ pc[t] = "fill" => Available(i[t])
        /\ pc[t] = "invalidate" =>
             i[t] = request[t].handle[1] /\ Designates(request[t].handle)

(* A handle whose logger is gone never designates a logger again, so that  *)
(* deregistering twice harms nobody: neither the reuse of the slot nor     *)
(* deregistering all brings a handle back (log.c:114, 360-365).            *)
StaleForever ==
    [][\A h \in issued : ~Designates(h) => ~Designates(h)']_vars

\* The registered loggers, as the registry knows them.
Active == {[handle |-> Handle(s), lvl |-> pool[s].lvl] :
             s \in {r \in Slots : pool[r].valid}}

\* A message counts once all of its prints are done.
Delivered == [t \in Threads |-> IF pc[t] = "scan" THEN {} ELSE printed[t]]

(* The calls take effect one at a time and keep the promises of the        *)
(* registry, which leaves open what becomes of a message that no           *)
(* registered logger accepts (log.c:276).                                  *)
Registry == INSTANCE LogRegistry WITH
    active    <- Active,
    spent     <- issued,
    answer    <- status,
    delivered <- Delivered

\* Every behaviour is one of the registry.
ImplementsRegistry == Registry!Spec

(* Every call that took the mutex returns, and gives the mutex back on     *)
(* each of its ways out unless unlocking it fails (log.c:295-301).         *)
HolderReleases ==
    \A t \in Threads :
        pc[t] \in Critical
            ~> pc[t] = "idle" /\ (mtx # t \/ status[t] = "W_ERROR_UNLOCK_FAILED")

=============================================================================
