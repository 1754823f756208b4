------------------------------ MODULE TextCuts ------------------------------
(***************************************************************************)
(* Every text of a few units, cut in every way.  A unit is what a reader   *)
(* sees as one: a character or a complete escape sequence.                 *)
(***************************************************************************)
EXTENDS Text, SequencesExt

CONSTANTS
    MaxUnits,   \* units of a text, to be broken into chunks
    MaxWords,   \* units of a text, to be formatted
    MaxBytes    \* bytes of a chunk, or of a buffer

ASSUME TextCutsAssumption ==
    MaxUnits \in Nat /\ MaxWords \in Nat /\ MaxBytes \in Nat

VARIABLES job, result

Units == {<<"a">>, <<"sp">>, <<"1">>, <<"lead", "cont">>,
          <<"lead", "cont", "cont">>, <<"esc", "[", "a">>,
          <<"esc", "[", "1", "a">>, <<"esc", "[", "sp", "a">>}

Characters == {<<"a">>, <<"sp">>, <<"lead", "cont">>}

\* What is left of an escape sequence that ends too early.
Stubs == {<<>>, <<"esc">>, <<"esc", "[">>, <<"esc", "[", "1">>,
          <<"esc", "[", "sp">>}

UpTo(S, n) == UNION {[1 .. k -> S] : k \in 0 .. n}

NoResult == <<>>

Jobs ==
    [op : {"break"}, units : UpTo(Units, MaxUnits), stub : Stubs,
     max : 1 .. MaxBytes]
    \union
    [op : {"format"}, units : UpTo(Characters, MaxWords), stub : {<<>>},
     max : 1 .. MaxBytes]

CutInit == result = NoResult /\ job \in Jobs

Bytes == FlattenSeq(job.units) \o job.stub

Break ==
    /\ result = NoResult /\ job.op = "break"
    /\ result' = <<wp_platform_break_str(Bytes, 0, job.max)>>
    /\ UNCHANGED job

Format ==
    /\ result = NoResult /\ job.op = "format"
    /\ result' = <<w_format_msg_va(Bytes, job.max)>>
    /\ UNCHANGED job

CutNext == Break \/ Format

CutSpec == CutInit /\ [][CutNext]_<<job, result>>

-----------------------------------------------------------------------------

Done(op) == result # NoResult /\ job.op = op

Out == result[1]

\* The number of bytes of the first k units.
Boundary(k) == Len(FlattenSeq(SubSeq(job.units, 1, k)))

Boundaries == {Boundary(k) : k \in 0 .. Len(job.units)}

(* A chunk ends between two units, never inside a character or an escape   *)
(* sequence, and takes as many of them as it may: the loop of w_print()    *)
(* that goes on after the chunk (platform_windows.c:422-469) converts      *)
(* complete characters only.  It reaches past the end of the text only     *)
(* when the text ends inside an escape sequence, whose states do not look  *)
(* for the null byte (platform_windows.c:85-120).                          *)
ChunkIsWholeUnits ==
    Done("break") =>
        /\ Out > Len(Bytes) => job.stub # <<>>
        /\ job.stub = <<>> =>
             /\ Out \in Boundaries
             /\ Out <= job.max
             /\ \A b \in Boundaries : b <= job.max => b <= Out

(* A message that does not fit its buffer keeps its first words, as many   *)
(* as leave room for the mark, and says that it was cut; no character is   *)
(* split unless the buffer is too small for the mark (platform.c:54-70).   *)
FormattedAtWord ==
    Done("format") =>
        LET starts == {0} \union
              {Boundary(k) : k \in {j \in DOMAIN job.units : job.units[j] = <<"sp">>}}
        IN  /\ Len(Out) < job.max
            /\ Len(Bytes) < job.max => Out = Bytes
            /\ Len(Bytes) >= job.max /\ job.max >= MarkSize =>
                 \E s \in starts :
                   /\ Out = SubSeq(Bytes, 1, s) \o Mark
                   /\ \A r \in starts : r > s => r + MarkSize > job.max

=============================================================================
