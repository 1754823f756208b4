-------------------------------- MODULE Text --------------------------------
(***************************************************************************)
(* The two functions of the platform layer that cut a text: at the end of  *)
(* a buffer that is too small (wp_platform_truncate) and into the chunks   *)
(* that the Windows console is given one after the other                   *)
(* (wp_platform_break_str).                                                *)
(*                                                                         *)
(* A byte is what these functions tell apart:                              *)
(*   "esc", "["    the beginning of an escape sequence,                    *)
(*   "1", "sp"     bytes inside of one: 0x30-0x3f, and 0x20-0x2f, of which *)
(*                 the space is the one that separates words,              *)
(*   "a"           0x40-0x7f, which ends one,                              *)
(*   "lead", "cont"   the bytes of a character of several bytes,           *)
(*   "nul"         the end of the text.                                    *)
(* Outside of escape sequences the bytes below 0x80 are all alike.         *)
(***************************************************************************)
EXTENDS Integers, Sequences

\* The text is in memory, with other texts after it.
At(text, i) ==
    IF i < Len(text) THEN text[i + 1] ELSE IF i = Len(text) THEN "nul" ELSE "a"

-----------------------------------------------------------------------------
(* wp_platform_break_str(): how many bytes to take, at most max.           *)

\* Mutant: the bytes of a character are not kept together.
Mutant_ScannedOutside(s, c, i) ==
    CASE c = "nul" -> [s EXCEPT !.out = i, !.state = "exit"]
      [] c = "esc" -> [s EXCEPT !.out = i, !.state = "esc"]
      [] OTHER     -> [s EXCEPT !.out = i]

\* The effect on the scan s of the byte c, at i, outside of escape sequences
ScannedOutside(s, c, i) ==
    CASE c = "nul"  -> [s EXCEPT !.out = i, !.state = "exit"]
      [] c = "esc"  -> [s EXCEPT !.out = i, !.state = "esc"]
      [] c = "cont" -> s
      [] OTHER      -> [s EXCEPT !.out = i]

\* and anywhere.
Scanned(s, c, i) ==
    CASE s.state = "default" -> ScannedOutside(s, c, i)
      [] s.state = "esc" -> IF c = "[" THEN [s EXCEPT !.state = "initial"] ELSE s
      [] s.state \in {"initial", "intermediate"} ->
           IF c = "sp" THEN [s EXCEPT !.state = "intermediate"]
           ELSE IF c = "1" /\ s.state = "initial" THEN s
           ELSE [s EXCEPT !.out = i, !.state = "default"]
      [] s.state = "exit" -> s

\* The scan after max bytes of the text, from the byte `from'.
Scan(text, from, max) ==
    LET after[n \in Nat] ==
          IF n = 0 THEN [state |-> "default", out |-> 0]
          ELSE Scanned(after[n - 1], At(text, from + n - 1), n - 1)
    IN  after[max]

wp_platform_break_str(text, from, max) ==
    LET s == Scan(text, from, max)
    IN  IF s.state = "default" /\ At(text, from + max) # "cont" THEN max ELSE s.out

-----------------------------------------------------------------------------
(* w_format_msg_va() into a buffer of len bytes, and wp_platform_truncate() *)
(* when the text does not fit.                                             *)

\* WP_PLATFORM_CONTINUATION_CHARS, then the null byte.
Mark == <<"[", "lead", "cont", "cont", "a", "a">>
MarkSize == Len(Mark) + 1

\* Mutant: the first word that ends there instead of the last.
Mutant_WordStart(text, pos) ==
    IF \E p \in 1 .. pos : text[p] = "sp"
      THEN CHOOSE p \in 1 .. pos :
             text[p] = "sp" /\ \A q \in 1 .. (p - 1) : text[q] # "sp"
      ELSE 0

\* The last place at or before pos that follows a space, or the beginning.
WordStart(text, pos) ==
    IF \E p \in 1 .. pos : text[p] = "sp"
      THEN CHOOSE p \in 1 .. pos :
             text[p] = "sp" /\ \A q \in (p + 1) .. pos : text[q] # "sp"
      ELSE 0

wp_platform_truncate(text, len) ==
    IF len < MarkSize THEN SubSeq(text, 1, len - 1)
    ELSE SubSeq(text, 1, WordStart(text, len - MarkSize)) \o Mark

w_format_msg_va(text, len) ==
    IF Len(text) >= len THEN wp_platform_truncate(text, len) ELSE text

=============================================================================
