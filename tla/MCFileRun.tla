------------------------------ MODULE MCFileRun ------------------------------
(* The small instance of FileRun for TLC: files of up to four bytes, so    *)
(* that some have more bytes than a DWORD of four values counts, and a     *)
(* first reservation of two bytes, so that some make the allocator move.   *)
EXTENDS FileRun

=============================================================================
