----------------------------- MODULE WinConsole -----------------------------
(***************************************************************************)
(* w_print() of platform_windows.c: several threads print to one device,   *)
(* each message chunk after chunk, under a mutex that the first of them    *)
(* creates.  The device is a console, or a file (which a pipe is, too).    *)
(*                                                                         *)
(* A wide character stands for the place in the message of the bytes that  *)
(* it was converted from.  Surrogate pairs are left out.                   *)
(***************************************************************************)
EXTENDS WinMutex, Text, Functions

CONSTANTS
    Messages,   \* valid UTF-8 with complete escape sequences
    NoMessage,
    BufLen,     \* length of buf
    Devices,    \* what the stream may be
    MaxPrints   \* bound: prints of all the threads

\* Every escape sequence has its second byte and the one that ends it.
Complete(text) ==
    \A p \in DOMAIN text : text[p] = "esc" =>
        /\ p < Len(text) /\ text[p + 1] = "["
        /\ \E last \in (p + 2) .. Len(text) : text[last] \notin {"1", "sp"}

ASSUME WinConsoleAssumption ==
    /\ BufLen \in Nat \ {0, 1}
    /\ Messages \subseteq Seq({"esc", "[", "1", "sp", "a", "lead", "cont"})
    /\ \A m \in Messages : Complete(m)
    /\ NoMessage \notin Messages
    /\ Devices \subseteq {"console", "file"}
    /\ MaxPrints \in Nat

VARIABLES
    stream,         \* the kind of the device
    initialized,    \* was the mode of the console set?
    msg,            \* per thread, its message
    print,          \* how many prints it began
    i,              \* its local i
    narrow_len,     \* its local narrow_len
    written,        \* its local written, in characters
    kept,           \* history: threads that returned with the mutex
    spoilt,         \* history: did the file accept only a part of a write?
    status,         \* its local status, then what the print returned
    device          \* the characters that came out, with their print

locals == <<msg, print, i, narrow_len, written, spoilt, status>>

vars == <<mtxVars, pc, stream, initialized, kept, locals, device>>

Init ==
    /\ MtxInit
    /\ pc = [t \in Threads |-> "idle"]
    /\ stream \in Devices
    /\ initialized = FALSE
    /\ kept = {}
    /\ msg = [t \in Threads |-> NoMessage]
    /\ print = [t \in Threads |-> 0]
    /\ i = [t \in Threads |-> 0]
    /\ narrow_len = [t \in Threads |-> 0]
    /\ written = [t \in Threads |-> 0]
    /\ spoilt = [t \in Threads |-> FALSE]
    /\ status = [t \in Threads |-> "success"]
    /\ device = <<>>

\* Of the bytes first+1 .. last, those that begin a character.
Wide(text, first, last) ==
    LET wide[n \in Nat] ==
          IF n = 0 THEN <<>>
          ELSE IF At(text, first + n - 1) = "cont" THEN wide[n - 1]
          ELSE Append(wide[n - 1], first + n)
    IN  wide[last - first]

\* buf: the chunk of t, then null characters, then what is not of buf.
NullChar == 0
Outside == -1
Chunk(t) == Wide(msg[t], i[t], i[t] + narrow_len[t])

InBuf(t, k) ==
    IF k <= Len(Chunk(t)) THEN Chunk(t)[k]
    ELSE IF k <= BufLen THEN NullChar ELSE Outside

-----------------------------------------------------------------------------
(* A call, and the mutex.                                                  *)

Prints == FoldFunction(+, 0, print)

w_print(t) ==
    /\ pc[t] = "idle"
    /\ Prints < MaxPrints
    /\ \E m \in Messages : msg' = [msg EXCEPT ![t] = m]
    /\ print' = [print EXCEPT ![t] = @ + 1]
    /\ status' = [status EXCEPT ![t] = "pending"]
    /\ GoTo(t, "lock")
    /\ UNCHANGED <<mtxVars, stream, initialized, kept, i, narrow_len, written, spoilt,
                   device>>

Lock(t) ==
    /\ TestHandle(t) \/ Publish(t) \/ CloseOwn(t) \/ Wait(t, "mode")
    /\ UNCHANGED <<stream, initialized, kept, locals, device>>

\* The end of the call; the locals are gone.
Return(t, s) ==
    /\ GoTo(t, "idle")
    /\ status' = [status EXCEPT ![t] = s]
    /\ msg' = [msg EXCEPT ![t] = NoMessage]
    /\ i' = [i EXCEPT ![t] = 0]
    /\ narrow_len' = [narrow_len EXCEPT ![t] = 0]
    /\ written' = [written EXCEPT ![t] = 0]
    /\ spoilt' = [spoilt EXCEPT ![t] = FALSE]
    /\ UNCHANGED <<stream, print, device>>

LockFailed(t) ==
    /\ pc[t] = "lock_failed"
    /\ Return(t, "failure")
    /\ UNCHANGED <<mtxVars, initialized, kept>>

\* To the label exit, with the value to return.
Exit(t, s) ==
    /\ GoTo(t, "exit")
    /\ status' = [status EXCEPT ![t] = s]

\* Mutant: a print that failed does not unlock.
Mutant_Unlock(t) ==
    /\ pc[t] = "exit"
    /\ \/ status[t] = "success" /\ Release(t)
       \/ status[t] = "failure" /\ UNCHANGED mtxVars
    /\ Return(t, status[t])
    /\ UNCHANGED <<initialized, kept>>

Unlock(t) ==
    /\ pc[t] = "exit"
    /\ \/ Release(t) /\ Return(t, status[t]) /\ UNCHANGED kept
       \/ ReleaseFails(t) /\ Return(t, "failure") /\ kept' = kept \union {t}
    /\ UNCHANGED initialized

\* A thread between two prints ends.
Leave(t) ==
    /\ pc[t] = "idle"
    /\ Abandon(t)
    /\ GoTo(t, "gone")
    /\ kept' = kept \ {t}
    /\ UNCHANGED <<stream, initialized, locals, device>>

-----------------------------------------------------------------------------
(* The print itself.                                                       *)

\* The first print sets the mode of the console of the standard error.
\* Where there is none the print returns, and keeps the mutex.
ConsoleMode(t) ==
    /\ pc[t] = "mode"
    /\ \/ /\ initialized' = TRUE
          /\ GoTo(t, "chunk")
          /\ UNCHANGED <<stream, kept, locals, device>>
       \/ /\ ~initialized
          /\ kept' = kept \union {t}
          /\ Return(t, "failure")
          /\ UNCHANGED initialized
    /\ UNCHANGED mtxVars

NextChunk(t) ==
    /\ pc[t] = "chunk"
    /\ At(msg[t], i[t]) # "nul"
    /\ narrow_len' = [narrow_len EXCEPT ![t] =
                        wp_platform_break_str(msg[t], i[t], BufLen - 1)]
    /\ \/ narrow_len'[t] > 0 /\ GoTo(t, "write") /\ UNCHANGED status
       \/ narrow_len'[t] = 0 /\ Exit(t, "failure")
    /\ UNCHANGED <<mtxVars, stream, initialized, kept, msg, print, i, written, spoilt,
                   device>>

\* Mutant: the status is not set after the last chunk.
Mutant_PrintDone(t) ==
    /\ pc[t] = "chunk"
    /\ At(msg[t], i[t]) = "nul"
    /\ GoTo(t, "exit")
    /\ UNCHANGED <<mtxVars, stream, initialized, kept, locals, device>>

PrintDone(t) ==
    /\ pc[t] = "chunk"
    /\ At(msg[t], i[t]) = "nul"
    /\ Exit(t, "success")
    /\ UNCHANGED <<mtxVars, stream, initialized, kept, msg, print, i, narrow_len,
                   written, spoilt, device>>

\* Mutant: what is written does not begin after what was written.
Mutant_Place(t) == 0

(* wp_platform_write_console() and wp_platform_write_file() go on until    *)
(* everything is written.  The file counts bytes, two for a character      *)
(* (here: whole characters), but uses the count as an index of characters. *)
Place(t) == IF stream = "file" THEN 2 * written[t] ELSE written[t]

Write(t) ==
    /\ pc[t] = "write"
    /\ written[t] < Len(Chunk(t))
    /\ \E n \in 1 .. (Len(Chunk(t)) - written[t]) :
         /\ device' = device \o [k \in 1 .. n |->
                        <<<<t, print[t]>>, InBuf(t, Place(t) + k)>>]
         /\ written' = [written EXCEPT ![t] = @ + n]
         /\ spoilt' = [spoilt EXCEPT ![t] =
                         @ \/ (stream = "file" /\ written[t] > 0)]
    /\ UNCHANGED <<mtxVars, pc, stream, initialized, kept, msg, print, i, narrow_len,
                   status>>

WriteFails(t) ==
    /\ pc[t] = "write"
    /\ written[t] < Len(Chunk(t))
    /\ Exit(t, "failure")
    /\ UNCHANGED <<mtxVars, stream, initialized, kept, msg, print, i, narrow_len,
                   written, spoilt, device>>

ChunkDone(t) ==
    /\ pc[t] = "write"
    /\ written[t] = Len(Chunk(t))
    /\ i' = [i EXCEPT ![t] = @ + narrow_len[t]]
    /\ narrow_len' = [narrow_len EXCEPT ![t] = 0]
    /\ written' = [written EXCEPT ![t] = 0]
    /\ GoTo(t, "chunk")
    /\ UNCHANGED <<mtxVars, stream, initialized, kept, msg, print, spoilt, status,
                   device>>

-----------------------------------------------------------------------------

Step(t) ==
    \/ Lock(t) \/ LockFailed(t) \/ Unlock(t)
    \/ ConsoleMode(t)
    \/ NextChunk(t) \/ PrintDone(t)
    \/ Write(t) \/ WriteFails(t) \/ ChunkDone(t)

Next == \E t \in Threads : w_print(t) \/ Step(t) \/ Leave(t)

Spec == Init /\ [][Next]_vars

\* The system runs every thread that does not wait for the mutex, and its
\* calls return.
FairSpec == Spec /\ \A t \in Threads : WF_vars(Step(t))

-----------------------------------------------------------------------------
(* Properties.                                                             *)

Printing == {"mode", "chunk", "write", "exit"}

\* The variables have the shape the code gives them, and a print that ends
\* has a status.
TypeOK ==
    /\ MtxTypeOK
    /\ pc \in [Threads -> MtxLabels \union Printing \union {"idle", "gone"}]
    /\ stream \in {"console", "file"}
    /\ initialized \in BOOLEAN
    /\ msg \in [Threads -> Messages \union {NoMessage}]
    /\ print \in [Threads -> Nat]
    /\ kept \subseteq Threads
    /\ i \in [Threads -> Nat]
    /\ narrow_len \in [Threads -> Nat]
    /\ written \in [Threads -> Nat]
    /\ spoilt \in [Threads -> BOOLEAN]
    /\ status \in [Threads -> {"pending", "success", "failure"}]
    /\ \A t \in Threads :
         /\ status[t] # "pending" <=> pc[t] \in {"exit", "idle", "gone"}
         /\ msg[t] = NoMessage <=> pc[t] \in {"idle", "gone"}

(* One thread at a time is between taking the mutex and giving it back     *)
(* (platform_windows.c:377-472), which is what makes the steps of a print  *)
(* one piece.                                                              *)
OneThreadPrints ==
    \A t, u \in Threads : pc[t] \in Printing /\ pc[u] \in Printing => t = u

\* How many characters of the message of t came out.
Shown(t) ==
    IF msg[t] = NoMessage THEN 0 ELSE Len(Wide(msg[t], 0, i[t])) + written[t]

(* "in which case we want to avoid interleaved output coming from multiple *)
(* threads" (platform_windows.c:418): the messages come out one after the  *)
(* other, whole when the print succeeds and cut otherwise, whatever the    *)
(* chunks and the parts in which the console accepts them.                 *)
Device == INSTANCE Terminal WITH
    Chars    <- [m \in Messages |-> Wide(m, 0, Len(m))],
    printing <- msg,
    shown    <- [t \in Threads |-> Shown(t)],
    answer   <- status

\* Every behaviour is one of such a device.
ImplementsTerminal == Device!Spec

(* A thread that waits for the mutex gets it, unless a print returned with *)
(* it because the mode of the console could not be set, or because it      *)
(* could not be released; then it waits until that thread ends             *)
(* (platform_windows.c:393-401).                                           *)
WaitEnds ==
    \A t \in Threads : pc[t] = "wait" ~> pc[t] # "wait" \/ kept # {}

(* The threads never all wait for each other: even when a print kept the   *)
(* mutex, another print of the same thread returns.                        *)
SomePrintReturns ==
    (\A t \in Threads : pc[t] \notin {"idle", "gone"})
        ~> (\E t \in Threads : pc[t] \in {"idle", "gone"})

=============================================================================
