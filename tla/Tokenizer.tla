----------------------------- MODULE Tokenizer ------------------------------
(***************************************************************************)
(* The tokenizer of lang/token.c, with a client that asks for one token    *)
(* after the other until the end of the source, a failing status, or       *)
(* MaxErrors errors.  The code leaves the last two to its clients: a call  *)
(* made after the end would read beyond the source, and one made with all  *)
(* the places of tokenizer.errors taken would write beyond them.           *)
(*                                                                         *)
(* The scanners are operators on the offset of the next character, one per *)
(* function of token.c; they return where they stop and what they found.   *)
(* The loop of w_tokenizer_advance() makes one step per character skipped  *)
(* and one for the token.  Offsets stand for the pointers of the code.     *)
(***************************************************************************)
EXTENDS Literals, FiniteSets

CONSTANTS
    Characters,     \* of a source, without the null character
    Sources,        \* the sources considered
    PosLimit,       \* 2^W_TOKEN_FIELD_POS_BIT_LEN, wp_token_max_pos
    LenLimit,       \* 2^W_TOKEN_FIELD_LEN_BIT_LEN
    MaxErrors,      \* errors after which the client stops, at most 32
    FormatMayFail,  \* may w_format_msg_va() fail?
    Asserts         \* is W_ASSERT compiled in?

ASSUME TokenizerAssumption ==
    /\ NUL \notin Characters
    /\ \A s \in Sources : s \in Seq(Characters)
    /\ PosLimit \in Nat \ {0}
    /\ LenLimit \in Nat \ {0}
    /\ MaxErrors \in Nat
    /\ FormatMayFail \in BOOLEAN
    /\ Asserts \in BOOLEAN

VARIABLES
    it,         \* offset of the next character
    begin,      \* token_begin
    line,
    column,
    errors,     \* the messages, each a kind and a subject
    pc,         \* "client", "advance", or "aborted" by an assertion
    status,     \* of the last call
    tokens      \* what the calls wrote into their token

vars == <<buf, it, begin, line, column, errors, pc, status, tokens>>

-----------------------------------------------------------------------------
(* Scanners                                                                *)

\* The messages: a kind, and what it is said of.
Kinds == {"unterminated", "not a valid", "unrecognized", "exponent without"}
Subjects ==
    {"binary integer", "octal integer", "decimal integer",
     "floating-point exponent", "decimal floating-point",
     "hexadecimal floating-point", "decimal number", "hexadecimal number",
     "token"}

NoError == <<>>

Found(i, id) == [it |-> i, id |-> id, error |-> NoError, aborts |-> FALSE]

Fails(i, kind, subject) ==
    [it |-> i, id |-> "INVALID", error |-> <<kind, subject>>, aborts |-> FALSE]

\* W_ASSERT, at offset i.
Asserting(i, holds, outcome) ==
    IF Asserts /\ ~holds
      THEN [it |-> i, id |-> "INVALID", error |-> NoError, aborts |-> TRUE]
      ELSE outcome

\* wp_token_consume_*_digits: the first character that is not in S.
After(i, S) ==
    CHOOSE j \in i .. Len(buf) - 1 : At(j) \notin S /\ All(i, j, S)

\* Mutant: the list of first digits stops at 7.
Mutant_HexadecimalLead == Hexadecimal \ {"8", "9"}

\* WP_TOKEN_CASE_HEXADECIMAL_DIGITS, where 9 is missing.
HexadecimalLead == Hexadecimal \ {"9"}

\* Mutant: what follows the literal is not looked at.
Mutant_Finish(i, id, subject) == Found(i, id)

\* The end of a literal whose characters were consumed.
Finish(i, id, subject) ==
    IF At(i) \in FollowUp THEN Found(i, id) ELSE Fails(i, "not a valid", subject)

\* Mutant: a literal that ends too soon is not told from a wrong character.
Mutant_ScanDigits(i, S, id, subject) ==
    IF At(i) \in S THEN Finish(After(i, S), id, subject)
    ELSE Fails(i, "not a valid", subject)

\* Digits, one at least, and nothing else.
ScanDigits(i, S, id, subject) ==
    IF At(i) \in S THEN Finish(After(i, S), id, subject)
    ELSE Fails(i, IF At(i) \in FollowUp THEN "unterminated" ELSE "not a valid",
               subject)

AfterMark(i, mark) == At(i - 2) = "0" /\ At(i - 1) = mark

wp_token_scan_binary_int(i) ==
    Asserting(i, AfterMark(i, "b"),
              ScanDigits(i, Binary, "INT_BINARY", "binary integer"))

wp_token_scan_octal_int(i) ==
    Asserting(i, AfterMark(i, "o"),
              ScanDigits(i, Octal, "INT_OCTAL", "octal integer"))

wp_token_scan_decimal_int(i) ==
    Asserting(i, AfterMark(i, "d"),
              ScanDigits(i, Decimal, "INT_DECIMAL", "decimal integer"))

\* Mutant: only a negative exponent has a sign.
Mutant_wp_token_scan_flt_exponent(i, id) ==
    ScanDigits(IF At(i) = "-" THEN i + 1 ELSE i, Decimal, id,
               "floating-point exponent")

wp_token_scan_flt_exponent(i, id) ==
    Asserting(i, At(i - 1) \in {"e", "p"},
              ScanDigits(IF At(i) \in Signs THEN i + 1 ELSE i, Decimal, id,
                         "floating-point exponent"))

wp_token_scan_decimal_flt(i) ==
    LET j == After(i, Decimal)
    IN  Asserting(i, At(i - 1) \in Decimal \union {"."},
            IF At(j) = "e"
              THEN wp_token_scan_flt_exponent(j + 1, "FLT_DECIMAL")
              ELSE Finish(j, "FLT_DECIMAL", "decimal floating-point"))

wp_token_scan_hexadecimal_flt(i, first) ==
    LET j == After(i, Hexadecimal)
    IN  Asserting(i, Prefixed(first, "x") /\ At(i - 1) = ".",
            IF At(j) = "p"
              THEN wp_token_scan_flt_exponent(j + 1, "FLT_HEXADECIMAL")
              ELSE Finish(j, "FLT_HEXADECIMAL", "hexadecimal floating-point"))

wp_token_scan_decimal_number(i) ==
    LET j == After(i, Decimal)
    IN  Asserting(i, At(i - 1) \in Decimal \union {"."},
            CASE At(j) = "." -> wp_token_scan_decimal_flt(j + 1)
              [] At(j) = "e" -> wp_token_scan_flt_exponent(j + 1, "FLT_DECIMAL")
              [] OTHER -> Finish(j, "INT_DECIMAL", "decimal number"))

wp_token_scan_hexadecimal_number(i, first) ==
    LET j == After(i, Hexadecimal)
        digits ==
            CASE At(j) = "." -> wp_token_scan_hexadecimal_flt(j + 1, first)
              [] At(j) = "p" ->
                    wp_token_scan_flt_exponent(j + 1, "FLT_HEXADECIMAL")
              [] OTHER -> Finish(j, "INT_HEXADECIMAL", "hexadecimal number")
    IN  Asserting(i, AfterMark(i, "x"),
            CASE At(i) \in HexadecimalLead -> digits
              [] At(i) = "." -> wp_token_scan_hexadecimal_flt(i + 1, first)
              [] At(i) = "p" -> Fails(i, "exponent without", "hexadecimal number")
              [] At(i) \in FollowUp ->
                    Fails(i, "unterminated", "hexadecimal number")
              [] OTHER -> Fails(i, "not a valid", "hexadecimal number"))

\* Mutant: the character after a lone 0 is consumed with it.
Mutant_ScanAfterZero(i) ==
    IF At(i) \in Decimal THEN wp_token_scan_decimal_number(i + 1)
    ELSE Found(i + 1, "INT_DECIMAL")

\* What follows a leading 0, the next character being the one at i.
ScanAfterZero(i) ==
    CASE At(i) = "b" -> wp_token_scan_binary_int(i + 1)
      [] At(i) = "d" -> wp_token_scan_decimal_int(i + 1)
      [] At(i) = "o" -> wp_token_scan_octal_int(i + 1)
      [] At(i) = "x" -> wp_token_scan_hexadecimal_number(i + 1, i - 1)
      [] At(i) \in Decimal -> wp_token_scan_decimal_number(i + 1)
      [] At(i) = "." -> wp_token_scan_decimal_flt(i + 1)
      [] At(i) = "e" -> wp_token_scan_flt_exponent(i + 1, "FLT_DECIMAL")
      [] At(i) \in FollowUp -> Found(i, "INT_DECIMAL")
      [] OTHER -> wp_token_scan_decimal_number(i + 1)

\* Mutant: a lone point is refused without a message.
Mutant_ScanAfterPoint(i) ==
    IF At(i) \in Decimal THEN wp_token_scan_decimal_flt(i + 1)
    ELSE Found(i, "INVALID")

\* Mutant: a lone point is not consumed.
Mutant_ScanAfterPointStuck(i) ==
    IF At(i) \in Decimal THEN wp_token_scan_decimal_flt(i + 1)
    ELSE Fails(i - 1, "unrecognized", "token")

ScanAfterPoint(i) ==
    IF At(i) \in Decimal THEN wp_token_scan_decimal_flt(i + 1)
    ELSE Fails(i, "unrecognized", "token")

\* The cases of w_tokenizer_advance() other than blanks.
ScanToken(i) ==
    CASE At(i) = "0" -> ScanAfterZero(i + 1)
      [] At(i) \in Decimal \ {"0"} -> wp_token_scan_decimal_number(i + 1)
      [] At(i) = "." -> ScanAfterPoint(i + 1)
      [] At(i) \in Operators -> Found(i + 1, OperatorId[At(i)])
      [] At(i) = NUL -> Found(i + 1, "EOF")
      [] OTHER -> Fails(i, "unrecognized", "token")

-----------------------------------------------------------------------------
(* Calls                                                                   *)

\* w_tokenizer_create().  token_begin is set before it is ever read.
Init ==
    /\ buf \in {Append(s, NUL) : s \in Sources}
    /\ it = 0
    /\ begin = 0
    /\ line = 1
    /\ column = 1
    /\ errors = <<>>
    /\ pc = "client"
    /\ status = "W_SUCCESS"
    /\ tokens = <<>>

AtEnd == tokens # <<>> /\ tokens[Len(tokens)].id = "EOF"

Call ==
    /\ pc = "client"
    /\ status = "W_SUCCESS"
    /\ ~AtEnd
    /\ Len(errors) < MaxErrors
    /\ pc' = "advance"
    /\ UNCHANGED <<buf, it, begin, line, column, errors, status, tokens>>

Reading ==
    /\ pc = "advance"
    /\ it < PosLimit

\* The exit of w_tokenizer_advance(): the token has the width of its fields.
Return(result, id) ==
    /\ pc' = "client"
    /\ status' = result
    /\ tokens' = Append(tokens, [pos |-> begin' % PosLimit,
                                 len |-> (it' - begin') % LenLimit,
                                 id |-> id])

SkipSpace ==
    /\ Reading
    /\ At(it) = " "
    /\ begin' = it
    /\ it' = it + 1
    /\ column' = column + 1
    /\ UNCHANGED <<buf, line, errors, pc, status, tokens>>

\* Mutant: the column goes on with the next line.
Mutant_SkipNewline ==
    /\ Reading
    /\ At(it) = "\n"
    /\ begin' = it
    /\ it' = it + 1
    /\ line' = line + 1
    /\ column' = column + 1
    /\ UNCHANGED <<buf, errors, pc, status, tokens>>

SkipNewline ==
    /\ Reading
    /\ At(it) = "\n"
    /\ begin' = it
    /\ it' = it + 1
    /\ line' = line + 1
    /\ column' = 1
    /\ UNCHANGED <<buf, errors, pc, status, tokens>>

\* Mutant: the token begins at the last blank.
Mutant_Consume(r) ==
    /\ Reading
    /\ At(it) \notin Blanks
    /\ it' = r.it
    /\ column' = column + (r.it - it)
    /\ UNCHANGED <<buf, begin, line>>

\* The scanners consume with wp_token_advance_iter().
Consume(r) ==
    /\ Reading
    /\ At(it) \notin Blanks
    /\ begin' = it
    /\ it' = r.it
    /\ column' = column + (r.it - it)
    /\ UNCHANGED <<buf, line>>

ScanFound ==
    LET r == ScanToken(it)
    IN  /\ Consume(r)
        /\ ~r.aborts /\ r.error = NoError
        /\ Return("W_SUCCESS", r.id)
        /\ UNCHANGED errors

\* wp_token_add_error(), which hands on what w_format_msg_va() returned: the
\* number of an error of the system, and none of enum w_status.
ScanFails ==
    LET r == ScanToken(it)
    IN  /\ Consume(r)
        /\ ~r.aborts /\ r.error # NoError
        /\ \/ /\ errors' = Append(errors, r.error)
              /\ Return("W_SUCCESS", "INVALID")
           \/ /\ FormatMayFail
              /\ UNCHANGED errors
              /\ Return("system_error", "INVALID")

ScanAborts ==
    LET r == ScanToken(it)
    IN  /\ Consume(r)
        /\ r.aborts
        /\ pc' = "aborted"
        /\ UNCHANGED <<errors, status, tokens>>

TooLarge ==
    /\ pc = "advance"
    /\ it >= PosLimit
    /\ UNCHANGED <<buf, it, begin, line, column, errors>>
    /\ Return("W_ERROR_MAX_SIZE_EXCEEDED", "INVALID")

Next ==
    \/ Call
    \/ SkipSpace \/ SkipNewline
    \/ ScanFound \/ ScanFails \/ ScanAborts
    \/ TooLarge

Spec == Init /\ [][Next]_vars

\* The client keeps asking and the program keeps running.
FairSpec == Spec /\ WF_vars(Next)

-----------------------------------------------------------------------------
(* Properties                                                              *)

Ids ==
    LiteralIds \union {OperatorId[c] : c \in Operators}
               \union {"EOF", "INVALID"}

Statuses ==
    {"W_SUCCESS", "system_error", "W_ERROR_MAX_SIZE_EXCEEDED"}

\* Types.  The next character of a call is one of the source: no call starts
\* after the null character, and no scanner goes beyond it.
TypeOK ==
    /\ it \in 0 .. Len(buf)
    /\ pc = "advance" => it < Len(buf)
    /\ begin \in 0 .. it
    /\ line \in Nat \ {0}
    /\ column \in Nat \ {0}
    /\ errors \in Seq(Kinds \X Subjects)
    /\ pc \in {"client", "advance", "aborted"}
    /\ status \in Statuses
    /\ tokens \in Seq([pos : Nat, len : Nat, id : Ids])

\* The token of a failing call is of no use.
Kept == IF status = "W_SUCCESS" THEN 1 .. Len(tokens) ELSE 1 .. Len(tokens) - 1

End(k) == tokens[k].pos + tokens[k].len

\* Between two calls, the tokens lie one after the other in the part of the
\* source that was read, and every character outside of them is a blank: no
\* character is lost or read twice, also when the source reaches the largest
\* position.  (Sources are shorter than LenLimit; see the README.)
TokensTileSource ==
    pc = "client" /\ status = "W_SUCCESS" =>
        /\ \A k \in Kept : (k + 1) \in Kept => End(k) <= tokens[k + 1].pos
        /\ \A c \in 0 .. it - 1 :
             (At(c) \in Blanks) <=>
             ~ \E k \in Kept : c \in tokens[k].pos .. End(k) - 1

\* What the tokenizer calls a literal, an operator or the end is one: the
\* stretch has the form that its id stands for, and ends where it may.
TokensAreLexemes ==
    \A k \in Kept :
        tokens[k].id # "INVALID" =>
            IsLexeme(tokens[k].id, tokens[k].pos, End(k))

\* Conversely, where a lexeme begins, the tokenizer finds all of it under its
\* id, whatever came before in the source.  Hexadecimal literals whose first
\* digit is a 9 are left out (see MessagesAreTrue).
LexemesAreFound ==
    \A k \in Kept : \A id \in Ids, j \in tokens[k].pos + 1 .. Len(buf) :
        LET i == tokens[k].pos
            led_by_9 == j > i + 2 /\ Prefixed(i, "x") /\ At(i + 2) = "9"
        IN  IsLexeme(id, i, j) /\ ~led_by_9 =>
                tokens[k].id = id /\ End(k) = j

\* Line and column are those of the next character: a newline is never part
\* of a token, nor counted twice.
LineAndColumn ==
    LET newlines == {k \in 0 .. it - 1 : At(k) = "\n"}
    IN  /\ line = 1 + Cardinality(newlines)
        /\ \E start \in {0} \union {k + 1 : k \in newlines} :
             /\ column = it - start + 1
             /\ \A k \in newlines : k < start

\* The client learns of every error from an invalid token and conversely, so
\* that it can stop before the places for errors run out.
ErrorsMatchTokens ==
    Len(errors) = Cardinality({k \in Kept : tokens[k].id = "INVALID"})

Invalid ==
    /\ pc = "client"
    /\ status = "W_SUCCESS"
    /\ tokens # <<>>
    /\ tokens[Len(tokens)].id = "INVALID"

\* The message of an invalid token is about the character at which the scan
\* stopped: "unterminated" where a literal may end, "not a valid" elsewhere.
MessagesFit ==
    Invalid =>
        LET kind == errors[Len(errors)][1]
        IN  /\ kind = "unterminated" => At(it) \in FollowUp
            /\ kind = "not a valid" => At(it) \notin FollowUp

\* A character that a message calls "not a valid hexadecimal number literal
\* character" is none (token.c:641).
MessagesAreTrue ==
    Invalid /\ errors[Len(errors)] = <<"not a valid", "hexadecimal number">> =>
        At(it) \notin Hexadecimal

\* The first characters of lexemes, and blanks.
Starters == Blanks \union Decimal \union Operators \union {".", NUL}

\* A client that asks again after an error reaches the end, unless a call
\* fails or a character is left at which no token begins.
ReachesEnd ==
    <>(\/ AtEnd
       \/ status # "W_SUCCESS"
       \/ pc = "aborted"
       \/ it < Len(buf) /\ At(it) \notin Starters)

=============================================================================
