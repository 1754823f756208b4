---------------------------- MODULE LogRegistry ----------------------------
(***************************************************************************)
(* What log.c promises to the threads that call it: registrations and      *)
(* messages that take effect one at a time, each between its call and its  *)
(* return.                                                                 *)
(*                                                                         *)
(* A registration is answered with a handle that was never given before,   *)
(* so that the handle of a logger that is gone never designates another    *)
(* one.  A message goes to all the loggers that accept its level, or to    *)
(* none but the default one when there is no logger; the first failing     *)
(* print ends it.  Where loggers are registered and none accepts the       *)
(* level, the comment at log.c:276 and the code after it say different     *)
(* things, and the registry leaves open who prints the message.            *)
(***************************************************************************)
EXTENDS Integers

CONSTANTS
    Threads,
    Slots,      \* places for loggers
    MaxId,      \* handles per place
    Levels,
    NoRequest,
    MayFail     \* may taking or giving back the mutex fail?

VARIABLES
    active,     \* the registered loggers
    spent,      \* the handles given so far
    request,    \* per thread, the call in progress
    answer,     \* per thread, what its last call came to
    delivered   \* per thread, the loggers its last message reached

vars == <<active, spent, request, answer, delivered>>

Handles == Slots \X (1 .. MaxId)

\* Stands for the default logger, which has no slot.
Default == <<-1, 0>>

Pending == "pending"

PrintErrors == {"W_ERROR_IO_FAILED", "W_ERROR_STR_FORMATTING_FAILED"}

Accepting(lvl) == {r.handle : r \in {x \in active : x.lvl >= lvl}}

Init ==
    /\ active = {}
    /\ spent = {}
    /\ request = [t \in Threads |-> NoRequest]
    /\ answer = [t \in Threads |-> "W_SUCCESS"]
    /\ delivered = [t \in Threads |-> {}]

Requests ==
    [op : {"log"}, lvl : Levels] \union
    [op : {"register"}, lvl : Levels] \union
    [op : {"deregister"}, handle : spent \union {<<0, 0>>}] \union
    [op : {"deregister_all"}]

Invoke(t) ==
    /\ request[t] = NoRequest
    /\ \E r \in Requests : request' = [request EXCEPT ![t] = r]
    /\ answer' = [answer EXCEPT ![t] = Pending]
    /\ delivered' = [delivered EXCEPT ![t] = {}]
    /\ UNCHANGED <<active, spent>>

\* A system error that needs no message, or that has none.
Decline(t) ==
    /\ request[t] = NoRequest
    /\ \E a \in {"W_SUCCESS", "W_ERROR"} : answer' = [answer EXCEPT ![t] = a]
    /\ delivered' = [delivered EXCEPT ![t] = {}]
    /\ UNCHANGED <<active, spent, request>>

Running(t, op) ==
    /\ request[t] # NoRequest
    /\ request[t].op = op
    /\ answer[t] = Pending

Answer(t, a) ==
    /\ answer' = [answer EXCEPT ![t] = a]
    /\ UNCHANGED request

Register(t) ==
    /\ Running(t, "register")
    /\ \E h \in Handles \ spent :
         /\ \A r \in active : r.handle[1] # h[1]
         /\ active' = active \union {[handle |-> h, lvl |-> request[t].lvl]}
         /\ spent' = spent \union {h}
    /\ Answer(t, "W_SUCCESS")
    /\ UNCHANGED delivered

\* Every place is taken or has given all of its handles.
RegisterFull(t) ==
    /\ Running(t, "register")
    /\ \A s \in Slots :
         \/ \E r \in active : r.handle[1] = s
         \/ \A id \in 1 .. MaxId : <<s, id>> \in spent
    /\ Answer(t, "W_ERROR_BUF_FULL")
    /\ UNCHANGED <<active, spent, delivered>>

Deregister(t) ==
    /\ Running(t, "deregister")
    /\ active' = {r \in active : r.handle # request[t].handle}
    /\ Answer(t, IF active' # active THEN "W_SUCCESS" ELSE "W_ERROR_NOT_FOUND")
    /\ UNCHANGED <<spent, delivered>>

DeregisterAll(t) ==
    /\ Running(t, "deregister_all")
    /\ active' = {}
    /\ Answer(t, "W_SUCCESS")
    /\ UNCHANGED <<spent, delivered>>

\* Whom a message of a level may have to reach: the default logger when none
\* is registered (log.c:276); it or nobody when none of those accepts the level.
Goals(lvl) ==
    IF Accepting(lvl) # {} THEN {Accepting(lvl)}
    ELSE IF active = {} THEN {{Default}}
    ELSE {{Default}, {}}

Log(t) ==
    /\ Running(t, "log")
    /\ \E goal \in Goals(request[t].lvl) : \E d \in SUBSET goal :
         /\ delivered' = [delivered EXCEPT ![t] = d]
         /\ \E a \in IF d = goal THEN {"W_SUCCESS"} ELSE PrintErrors :
              Answer(t, a)
    /\ UNCHANGED <<active, spent>>

Return(t) ==
    /\ request[t] # NoRequest
    /\ answer[t] # Pending
    /\ request' = [request EXCEPT ![t] = NoRequest]
    /\ \/ UNCHANGED answer
       \/ MayFail /\ answer' = [answer EXCEPT ![t] = "W_ERROR_UNLOCK_FAILED"]
    /\ UNCHANGED <<active, spent, delivered>>

\* The call could not even start.
Refuse(t) ==
    /\ MayFail
    /\ request[t] # NoRequest
    /\ answer[t] = Pending
    /\ request' = [request EXCEPT ![t] = NoRequest]
    /\ answer' = [answer EXCEPT ![t] = "W_ERROR_LOCK_FAILED"]
    /\ UNCHANGED <<active, spent, delivered>>

Next ==
    \E t \in Threads :
        \/ Invoke(t) \/ Decline(t)
        \/ Register(t) \/ RegisterFull(t)
        \/ Deregister(t) \/ DeregisterAll(t)
        \/ Log(t)
        \/ Return(t) \/ Refuse(t)

Spec == Init /\ [][Next]_vars

=============================================================================
