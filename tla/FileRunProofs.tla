---------------------------- MODULE FileRunProofs ----------------------------
(***************************************************************************)
(* Theorems about FileRun, for files of every length, every number of      *)
(* changes by the other program and every width of a DWORD.                *)
(*                                                                         *)
(* The inductive invariant follows w_run() along its labels: what is known *)
(* of size after each query, what buf holds of the file as long as nobody  *)
(* touched it, and where the file and the allocator are left open.         *)
(***************************************************************************)
EXTENDS FileRun, SequenceTheorems, TLAPS

Labels ==
    {"main", "open", "query", "allocate", "read", "transfer", "close", "free",
     "destroy", "exit", "abort", "fault"}

\* The labels before the buffer is allocated, and those after w_run()'s cleanup
\* began.
Unallocated == {"main", "open", "query", "allocate"}

Cleanup == {"free", "destroy", "exit", "abort", "fault"}

TypeInv ==
    /\ system \in {"unix", "windows"}
    /\ traced \in BOOLEAN
    /\ disk \in Seq(Bytes)
    /\ touched \in BOOLEAN
    /\ pc \in Labels
    /\ opened \in BOOLEAN
    /\ size \in Nat
    /\ buf \in Seq(Bytes) \union {NoBuf}

\* An error leads to the cleanup, whatever it was.
FailureCleansUp == status # "W_SUCCESS" => pc \in Cleanup

\* A size that a query may answer.
Answer(n) ==
    IF system = "unix" THEN n = Len(disk)
                       ELSE n \in {Len(disk) % DwordSize, DwordSize - 1}

\* As long as nobody changed the file, the size is an answer of the first query
\* until there is a second one, which is asked only when the first was zero.
SizeInv ==
    /\ pc \in {"main", "open", "query"} => size = 0
    /\ pc = "read" /\ buf = NoBuf => size = 0
    /\ ~touched /\ (pc \in {"allocate", "read"} \/ buf # NoBuf) => Answer(size)
    /\ /\ pc \in {"close"} \union Cleanup /\ status = "W_SUCCESS"
       /\ buf = NoBuf /\ ~touched /\ system = "unix"
       => size = 0

\* What the buffer holds.
BufInv ==
    /\ pc \in Unallocated => buf = NoBuf
    /\ pc = "transfer" => buf # NoBuf
    /\ buf # NoBuf => Len(buf) <= size
    /\ buf # NoBuf /\ status = "W_SUCCESS" /\ pc \in {"close"} \union Cleanup =>
         Len(buf) = size
    /\ buf # NoBuf /\ ~touched =>
         Len(buf) <= Len(disk) /\ buf = SubSeq(disk, 1, Len(buf))

\* Who still holds what.
HeldInv ==
    /\ pc \in {"main", "open"} => ~opened
    /\ pc \in Cleanup /\ opened => status # "W_SUCCESS"
    /\ pc \in {"main", "exit"} => alloc = "none"

Inv ==
    /\ TypeInv
    /\ FailureCleansUp
    /\ SizeInv
    /\ BufInv
    /\ HeldInv

-----------------------------------------------------------------------------
(* Facts about the data.                                                   *)

\* A file is a sequence of bytes.
LEMMA FilesAreSequences == Files \subseteq Seq(Bytes)
  BY FileRunAssumption DEF Files

\* What fits into a DWORD is not reduced.
LEMMA SmallMod ==
    ASSUME NEW g \in Nat \ {0}, NEW n \in Nat, n < g
    PROVE  n % g = n
  BY SMT

\* What is left of a division is a number.
LEMMA ModIsNat ==
    ASSUME NEW g \in Nat \ {0}, NEW n \in Nat
    PROVE  n % g \in Nat
  BY SMT

\* Either answer is a size.
LEMMA AnswersAreSizes ==
    ASSUME disk \in Seq(Bytes)
    PROVE  /\ Len(disk) \in Nat
           /\ Len(disk) % DwordSize \in Nat
           /\ DwordSize - 1 \in Nat
  <1>1. Len(disk) \in Nat
    OBVIOUS
  <1>2. DwordSize \in Nat \ {0}
    BY FileRunAssumption
  <1>3. Len(disk) % DwordSize \in Nat
    BY <1>1, <1>2, ModIsNat
  <1> QED
    BY <1>1, <1>2, <1>3

-----------------------------------------------------------------------------
(* The invariant.                                                          *)

LEMMA InitInv == Init => Inv
  <1> SUFFICES ASSUME Init PROVE Inv
    OBVIOUS
  <1>1. TypeInv
    BY FilesAreSequences, FileRunAssumption DEF Init, TypeInv, Labels
  <1>2. FailureCleansUp /\ SizeInv /\ BufInv /\ HeldInv
    BY <1>1 DEF Init, FailureCleansUp, SizeInv, BufInv, HeldInv, Unallocated, Cleanup
  <1> QED
    BY <1>1, <1>2 DEF Inv

\* A query of the size, first or second.
LEMMA QuerySizeFacts ==
    ASSUME TypeInv, NEW next, NEW failed, QuerySize(next, failed)
    PROVE  /\ size' \in Nat
           /\ \/ pc' = next /\ status' = status /\ Answer(size') 
              \/ /\ pc' = failed /\ size' = size
                 /\ status' = "W_ERROR_FILE_READ_FAILED"
           /\ UNCHANGED <<system, traced, disk, touched, opened, buf, alloc>>
  <1>1. /\ Len(disk) \in Nat
        /\ Len(disk) % DwordSize \in Nat
        /\ DwordSize - 1 \in Nat
    BY AnswersAreSizes DEF TypeInv
  <1>2. size \in Nat
    BY DEF TypeInv
  <1> QED
    BY <1>1, <1>2 DEF QuerySize, GoTo, Fail, Answer, fileVars

\* What is read is a longer prefix of the file.
LEMMA TransferFacts ==
    ASSUME Inv, Transfer
    PROVE  /\ buf' \in Seq(Bytes)
           /\ Len(buf') <= size
           /\ ~touched => Len(buf') <= Len(disk) /\ buf' = SubSeq(disk, 1, Len(buf'))
  <1>1. /\ disk \in Seq(Bytes) /\ size \in Nat
        /\ pc = "transfer" /\ buf # NoBuf /\ buf \in Seq(Bytes)
        /\ Len(buf) <= size
        /\ ~touched => Len(buf) <= Len(disk) /\ buf = SubSeq(disk, 1, Len(buf))
    BY DEF Inv, TypeInv, BufInv, Transfer
  <1>2. PICK n \in Len(buf) + 1 .. size :
          n <= Len(disk) /\ buf' = buf \o SubSeq(disk, Len(buf) + 1, n)
    BY DEF Transfer
  <1>3. Len(buf) \in Nat /\ Len(disk) \in Nat /\ n \in Nat
    BY <1>1, <1>2
  <1>4. /\ SubSeq(disk, Len(buf) + 1, n) \in Seq(Bytes)
        /\ Len(SubSeq(disk, Len(buf) + 1, n)) = n - Len(buf)
    <2>1. \A i \in Len(buf) + 1 .. n : disk[i] \in Bytes
      BY <1>1, <1>2, <1>3
    <2> QED
      BY <1>1, <1>2, <1>3, <2>1, SubSeqProperties
  <1>5. buf' \in Seq(Bytes) /\ Len(buf') = n
    BY <1>1, <1>2, <1>3, <1>4
  <1>6. ASSUME ~touched PROVE buf' = SubSeq(disk, 1, n)
    BY <1>1, <1>2, <1>3, <1>6, ConcatAdjacentSubSeq
  <1> QED
    BY <1>2, <1>3, <1>5, <1>6

LEMMA NextInv == Inv /\ [Next]_vars => Inv'
  <1> SUFFICES ASSUME Inv, [Next]_vars PROVE Inv'
    OBVIOUS
  <1> USE DEF Inv, TypeInv, FailureCleansUp, SizeInv, BufInv, HeldInv, Answer,
              Labels, Unallocated, Cleanup, GoTo, Fail, fileVars
  <1>1. CASE main
    BY <1>1 DEF main
  <1>2. CASE w_file_open
    BY <1>2 DEF w_file_open
  <1>3. CASE FirstRead
    <2> HIDE DEF Answer
    <2>1. TypeInv /\ QuerySize("allocate", "destroy") /\ pc = "query"
      BY <1>3 DEF FirstRead
    <2> QED
      BY <2>1, QuerySizeFacts DEF Answer
  <1>4. CASE Allocate
    <2>1. <<>> \in Seq(Bytes) /\ Len(<<>>) = 0 /\ <<>> = SubSeq(disk, 1, 0)
      BY SubSeqEmpty
    <2>2. Len(disk) >= 0
      OBVIOUS
    <2>3. <<>> # NoBuf
      BY <2>1, FileRunAssumption
    <2>4. CASE pc' = "read" /\ buf' = <<>>
      <3>1. Len(buf') = 0 /\ buf' = SubSeq(disk', 1, Len(buf')) /\ buf' # NoBuf
        BY <1>4, <2>1, <2>3, <2>4 DEF Allocate
      <3>2. Len(disk') >= 0 /\ buf' \in Seq(Bytes)
        BY <1>4, <2>1, <2>2, <2>4 DEF Allocate
      <3> HIDE DEF Answer
      <3>3. /\ UNCHANGED <<system, traced, disk, touched, opened, size, status>>
            /\ pc = "allocate" /\ pc' = "read"
        BY <1>4, <2>4 DEF Allocate
      <3>4. Answer(size) => Answer(size)'
        BY <3>3 DEF Answer
      <3> QED
        BY <3>1, <3>2, <3>3, <3>4
    <2>5. CASE buf' = NoBuf
      <3> HIDE DEF Answer
      <3>1. /\ UNCHANGED <<system, traced, disk, touched, opened, size, buf>>
            /\ pc = "allocate"
            /\ \/ pc' = "read" /\ size = 0 /\ status' = status
               \/ pc' = "destroy" /\ status' # "W_SUCCESS"
        BY <1>4, <2>3, <2>5 DEF Allocate
      <3>2. Answer(size) => Answer(size)'
        BY <3>1 DEF Answer
      <3> QED
        BY <2>5, <3>1, <3>2
    <2> QED
      BY <1>4, <2>4, <2>5 DEF Allocate
  <1>5. CASE SecondRead
    <2>1. CASE buf = NoBuf
      <3>1. TypeInv /\ QuerySize("close", "free") /\ pc = "read"
        BY <1>5, <2>1 DEF SecondRead
      <3> QED
        BY <2>1, <3>1, QuerySizeFacts
    <2>2. CASE buf # NoBuf
      BY <1>5, <2>2 DEF SecondRead
    <2> QED
      BY <2>1, <2>2
  <1>6. CASE Transfer
    <2>1. /\ buf' \in Seq(Bytes)
          /\ Len(buf') <= size
          /\ ~touched => Len(buf') <= Len(disk) /\ buf' = SubSeq(disk, 1, Len(buf'))
      BY <1>6, TransferFacts
    <2>2. buf' # NoBuf
      BY <2>1, FileRunAssumption
    <2>3. UNCHANGED <<system, traced, disk, changes, touched, pc, opened, size, alloc, status>>
          /\ pc = "transfer"
      BY <1>6 DEF Transfer
    <2> QED
      BY <2>1, <2>2, <2>3
  <1>7. CASE TransferDone
    BY <1>7 DEF TransferDone
  <1>8. CASE EndOfFile
    BY <1>8 DEF EndOfFile
  <1>9. CASE w_file_close
    BY <1>9 DEF w_file_close
  <1>10. CASE Free
    BY <1>10 DEF Free
  <1>11. CASE w_linear_alloc_destroy
    BY <1>11 DEF w_linear_alloc_destroy
  <1>12. CASE TransferFails
    BY <1>12 DEF TransferFails
  <1>13. CASE ChangeFile
    <2>1. disk' \in Seq(Bytes)
      BY <1>13, FilesAreSequences DEF ChangeFile
    <2> QED
      BY <1>13, <2>1 DEF ChangeFile
  <1>14. CASE UNCHANGED vars
    BY <1>14 DEF vars
  <1> QED
    BY <1>1, <1>2, <1>3, <1>4, <1>5, <1>6, <1>7, <1>8, <1>9, <1>10, <1>11,
       <1>12, <1>13, <1>14 DEF Next, Step

\* The invariant holds in every reachable state.
THEOREM InvAlways == Spec => []Inv
  BY InitInv, NextInv, PTL DEF Spec

-----------------------------------------------------------------------------
(* The properties.                                                         *)

\* The buffer of a run that succeeded is what it says it is.
LEMMA InvReads == Inv => SuccessMeansRead
  <1> SUFFICES ASSUME Inv, Read PROVE SuccessMeansRead!2
    BY DEF SuccessMeansRead
  <1> USE DEF Read, Inv
  <1>1. ASSUME buf # NoBuf PROVE Len(buf) = size
    BY <1>1 DEF BufInv, Cleanup
  <1>2. ASSUME buf = NoBuf PROVE touched \/ system = "windows"
    BY <1>2 DEF SizeInv, TypeInv, Cleanup
  <1>3. ASSUME ~touched, buf # NoBuf
        PROVE  /\ buf = SubSeq(disk, 1, size)
               /\ system = "unix" \/ Len(disk) < DwordSize => buf = disk
    <2>1. buf = SubSeq(disk, 1, size) /\ size <= Len(disk)
      BY <1>1, <1>3 DEF BufInv
    <2>2. Answer(size)
      BY <1>3 DEF SizeInv
    <2>3. disk \in Seq(Bytes) /\ Len(disk) \in Nat /\ size \in Nat
      BY DEF TypeInv
    <2>4. CASE system = "unix"
      BY <2>1, <2>2, <2>3, <2>4, SubSeqFull DEF Answer
    <2>5. CASE system # "unix" /\ Len(disk) < DwordSize
      <3>1. DwordSize \in Nat \ {0}
        BY FileRunAssumption
      <3>2. size \in {Len(disk) % DwordSize, DwordSize - 1}
        BY <2>2, <2>5 DEF Answer
      <3>3. Len(disk) % DwordSize = Len(disk)
        BY <2>3, <2>5, <3>1, SmallMod
      <3>4. size = Len(disk)
        BY <2>1, <2>3, <2>5, <3>1, <3>2, <3>3
      <3> QED
        BY <2>1, <2>3, <3>4, SubSeqFull
    <2> QED
      BY <2>1, <2>4, <2>5
  <1> QED
    BY <1>1, <1>2, <1>3

\* For every file and whatever the other program does to it: after a success
\* the buffer holds as many bytes as were asked for, and all of the file if
\* nobody changed it and a DWORD counts it (main.c:30-52, fs_windows.c:73-98).
THEOREM SuccessMeansReadAlways == Spec => []SuccessMeansRead
  BY InvAlways, InvReads, PTL

\* For every file, a run that ends has given the memory back, and after a
\* success the file is closed (main.c:30-58, 91-95).
THEOREM NothingLeftBehindAlways == Spec => []NothingLeftBehind
  <1>1. Inv => NothingLeftBehind
    BY DEF Inv, HeldInv, NothingLeftBehind, Cleanup
  <1> QED
    BY <1>1, InvAlways, PTL

=============================================================================
