------------------------------- MODULE FileRun -------------------------------
(***************************************************************************)
(* The program cli/main.c: it asks for the size of a file, allocates as    *)
(* much, reads the file and closes it (fs_unix.c, fs_windows.c), while     *)
(* another program may change the file.                                    *)
(*                                                                         *)
(* On Windows the file is opened with a share mode of 0: no other program  *)
(* opens it until it is closed.  The linear allocator is what LinearAlloc  *)
(* and TracedAlloc make of it: an allocation may fail, one larger than the *)
(* first reservation moves it, and with tracing the program stops when the *)
(* null pointer is freed or an allocator that moved is destroyed.          *)
(***************************************************************************)
EXTENDS Integers, Sequences

CONSTANTS
    Systems,        \* what it is built for: a subset of {"unix", "windows"}
    Bytes,          \* what a byte of the file may be
    MaxLen,         \* bound: length of the file
    MaxChanges,     \* bound: changes by the other program
    DwordSize,      \* 2^32, the number of values of a DWORD
    FirstReserve,   \* the first reservation: 4096 bytes, rounded up
    NoBuf           \* the null pointer, in place of the bytes of buf

ASSUME FileRunAssumption ==
    /\ Systems \subseteq {"unix", "windows"}
    /\ MaxLen \in Nat /\ MaxChanges \in Nat
    /\ DwordSize \in Nat \ {0}
    /\ FirstReserve \in Nat
    /\ NoBuf \notin Seq(Bytes)

VARIABLES
    system,
    traced,     \* is it a debug build?
    disk,       \* the bytes of the file
    changes,    \* how often the other program changed it
    touched,    \* history: did it since the file was opened?
    pc,
    opened,     \* is file->handle open?
    size,       \* w_run()'s local
    buf,        \* its local: the bytes read so far
    alloc,      \* the linear allocator: "none", "created" or "moved"
    status

fileVars == <<disk, changes, touched>>

vars == <<system, traced, fileVars, pc, opened, size, buf, alloc, status>>

Files == UNION {[1 .. n -> Bytes] : n \in 0 .. MaxLen}

Init ==
    /\ system \in Systems
    /\ traced \in BOOLEAN
    /\ disk \in Files
    /\ changes = 0
    /\ touched = FALSE
    /\ pc = "main"
    /\ opened = FALSE
    /\ size = 0
    /\ buf = NoBuf
    /\ alloc = "none"
    /\ status = "W_SUCCESS"

\* On to a label; on to one with an error.
GoTo(label) == pc' = label /\ UNCHANGED status

Fail(label, error) == pc' = label /\ status' = error

-----------------------------------------------------------------------------
(* main() up to w_run()                                                    *)

main ==
    /\ pc = "main"
    /\ \/ GoTo("exit") /\ UNCHANGED alloc       \* no argument
       \/ GoTo("open") /\ alloc' = "created"
       \/ Fail("exit", "W_ERROR_ALLOC_FAILED") /\ UNCHANGED alloc
    /\ UNCHANGED <<system, traced, fileVars, opened, size, buf>>

-----------------------------------------------------------------------------
(* w_run() and the functions it calls                                      *)

w_file_open ==
    /\ pc = "open"
    /\ \/ opened' = TRUE /\ touched' = FALSE /\ GoTo("query")
       \/ Fail("destroy", "W_ERROR_FILE_OPEN_FAILED") /\ UNCHANGED <<opened, touched>>
    /\ UNCHANGED <<system, traced, disk, changes, size, buf, alloc>>

(* w_file_read() of a null buf.  GetFileSize() gives the low DWORD of the  *)
(* size, which is all ones when it fails, and its result is not checked.   *)
QuerySize(next, failed) ==
    /\ \/ /\ system = "unix"
          /\ \/ size' = Len(disk) /\ GoTo(next)
             \/ Fail(failed, "W_ERROR_FILE_READ_FAILED") /\ UNCHANGED size
       \/ /\ system = "windows"
          /\ size' \in {Len(disk) % DwordSize, DwordSize - 1}
          /\ GoTo(next)
    /\ UNCHANGED <<system, traced, fileVars, opened, buf, alloc>>

FirstRead == pc = "query" /\ QuerySize("allocate", "destroy")

\* W_ALLOCATE(); a size of zero gives the null pointer.
Allocate ==
    /\ pc = "allocate"
    /\ \/ size = 0 /\ GoTo("read") /\ UNCHANGED <<buf, alloc>>
       \/ /\ size > 0
          /\ buf' = <<>>
          /\ alloc' = IF size > FirstReserve THEN "moved" ELSE alloc
          /\ GoTo("read")
       \/ /\ size > 0
          /\ Fail("destroy", "W_ERROR_ALLOC_FAILED")
          /\ UNCHANGED <<buf, alloc>>
    /\ UNCHANGED <<system, traced, fileVars, opened, size>>

\* After an empty file the second read is a query of the size again.
SecondRead ==
    /\ pc = "read"
    /\ \/ buf = NoBuf /\ QuerySize("close", "free")
       \/ /\ buf # NoBuf
          /\ \/ GoTo("transfer")
             \/ system = "unix" /\ Fail("free", "W_ERROR_FILE_READ_FAILED")
          /\ UNCHANGED <<system, traced, fileVars, opened, size, buf, alloc>>

\* fread() or ReadFile() gets some more bytes.
Transfer ==
    /\ pc = "transfer"
    /\ \E n \in Len(buf) + 1 .. size :
         /\ n <= Len(disk)
         /\ buf' = buf \o SubSeq(disk, Len(buf) + 1, n)
    /\ UNCHANGED <<system, traced, fileVars, pc, opened, size, alloc, status>>

TransferFails ==
    /\ pc = "transfer"
    /\ Fail("free", "W_ERROR_FILE_READ_FAILED")
    /\ UNCHANGED <<system, traced, fileVars, opened, size, buf, alloc>>

\* Mutant: a short read is not noticed.
Mutant_TransferDone ==
    /\ pc = "transfer"
    /\ Len(buf) >= Len(disk) \/ Len(buf) = size
    /\ GoTo("close")
    /\ UNCHANGED <<system, traced, fileVars, opened, size, buf, alloc>>

TransferDone ==
    /\ pc = "transfer"
    /\ Len(buf) = size
    /\ GoTo("close")
    /\ UNCHANGED <<system, traced, fileVars, opened, size, buf, alloc>>

\* Mutant: the end of the file is not an error.
Mutant_EndOfFile ==
    /\ pc = "transfer"
    /\ Len(buf) < size
    /\ Len(disk) <= Len(buf)
    /\ UNCHANGED vars

\* The end of the file before size bytes: fread() returns fewer, ReadFile()
\* succeeds with none and is called again.
EndOfFile ==
    /\ pc = "transfer"
    /\ Len(buf) < size
    /\ Len(disk) <= Len(buf)
    /\ \/ system = "unix" /\ Fail("free", "W_ERROR_FILE_READ_FAILED")
       \/ system = "windows" /\ UNCHANGED <<pc, status>>
    /\ UNCHANGED <<system, traced, fileVars, opened, size, buf, alloc>>

\* Mutant: a failure to close is not an error.
Mutant_w_file_close ==
    /\ pc = "close"
    /\ opened' \in BOOLEAN
    /\ GoTo("free")
    /\ UNCHANGED <<system, traced, fileVars, size, buf, alloc>>

\* A stream is gone even if fclose() fails.
w_file_close ==
    /\ pc = "close"
    /\ \/ opened' = FALSE /\ GoTo("free")
       \/ /\ opened' = (system = "windows")
          /\ Fail("free", "W_ERROR_FILE_CLOSE_FAILED")
    /\ UNCHANGED <<system, traced, fileVars, size, buf, alloc>>

\* W_FREE()
Free ==
    /\ pc = "free"
    /\ IF traced /\ buf = NoBuf THEN GoTo("abort") ELSE GoTo("destroy")
    /\ UNCHANGED <<system, traced, fileVars, opened, size, buf, alloc>>

-----------------------------------------------------------------------------
(* main() after w_run(), and the other program                             *)

w_linear_alloc_destroy ==
    /\ pc = "destroy"
    /\ IF traced /\ alloc = "moved"
         THEN GoTo("fault") /\ UNCHANGED alloc
         ELSE GoTo("exit") /\ alloc' = "none"
    /\ UNCHANGED <<system, traced, fileVars, opened, size, buf>>

Ended == pc \in {"exit", "abort", "fault"}

\* It may do so at any time on Unix.
ChangeFile ==
    /\ ~Ended
    /\ changes < MaxChanges
    /\ system = "unix" \/ ~opened
    /\ disk' \in Files \ {disk}
    /\ changes' = changes + 1
    /\ touched' = TRUE
    /\ UNCHANGED <<system, traced, pc, opened, size, buf, alloc, status>>

-----------------------------------------------------------------------------

Step ==
    \/ main
    \/ w_file_open \/ FirstRead \/ Allocate \/ SecondRead
    \/ Transfer \/ TransferDone \/ EndOfFile
    \/ w_file_close \/ Free
    \/ w_linear_alloc_destroy

Next == Step \/ TransferFails \/ ChangeFile

\* The program is run, and the functions it calls return.  Nothing makes a
\* read fail: one that finds no byte on Windows may succeed every time.
Spec == Init /\ [][Next]_vars /\ WF_vars(Step)

-----------------------------------------------------------------------------
(* Properties.                                                             *)

\* Did the program go through w_run() with success?
Read == pc \in {"free", "destroy", "exit"} /\ status = "W_SUCCESS" /\ size > 0

(* Success means that buf holds size bytes: all of the file, unless it was *)
(* changed meanwhile or has more bytes than a DWORD counts, on Windows.    *)
(* It does not for a file that was empty when its size was asked first and *)
(* is not any more: nothing is read (main.c:30-52).                        *)
SuccessMeansRead ==
    Read =>
        /\ buf # NoBuf => Len(buf) = size
        /\ buf = NoBuf => touched \/ system = "windows"
        /\ ~touched /\ buf # NoBuf =>
             buf = SubSeq(disk, 1, size)
                /\ (system = "unix" \/ Len(disk) < DwordSize => buf = disk)

(* However it went, the memory is given back, and after a success the file *)
(* is closed; only a run that reported a failure leaves it open            *)
(* (main.c:30-58, 91-95).                                                  *)
NothingLeftBehind ==
    pc = "exit" => alloc = "none" /\ (opened => status # "W_SUCCESS")

(* The program ends, however the file changes while it is read.  On        *)
(* Windows it reads on forever if it asks for more bytes than there are,   *)
(* as after a failing GetFileSize() (fs_windows.c:73-98).                  *)
RunEnds == <>(Ended \/ (system = "windows" /\ size > Len(disk)))

=============================================================================
