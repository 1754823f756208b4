------------------------------ MODULE Literals ------------------------------
(***************************************************************************)
(* The lexical grammar of the language, stated without reference to the    *)
(* way token.c scans: what stretch of the source is a literal, an operator *)
(* or the end.  It is the reading of the token ids of token.h and of the   *)
(* literals that tests/lang/token.c calls valid.                           *)
(*                                                                         *)
(* Stretches are given by the offsets of their first character and of the  *)
(* character after their last one.                                         *)
(***************************************************************************)
EXTENDS Integers, Sequences

VARIABLE buf    \* the source and, last, its terminating null character

NUL == "NUL"

At(i) == buf[i + 1]

Binary == {"0", "1"}
Octal == Binary \union {"2", "3", "4", "5", "6", "7"}
Decimal == Octal \union {"8", "9"}
Hexadecimal == Decimal \union {"A", "B", "C", "D", "E", "F"}

Signs == {"+", "-"}
Operators == Signs \union {"*", "/"}
Blanks == {" ", "\n"}

\* Where a literal may end.
FollowUp == Blanks \union Operators \union {NUL}

All(i, j, S) == \A k \in i .. j - 1 : At(k) \in S

Some(i, j, S) == i < j /\ All(i, j, S)

Prefixed(i, mark) == At(i) = "0" /\ At(i + 1) = mark

Exponent(i, j, mark) ==
    /\ i < j
    /\ At(i) = mark
    /\ \/ Some(i + 1, j, Decimal)
       \/ At(i + 1) \in Signs /\ Some(i + 2, j, Decimal)

\* Digits with a point among them or at either end.
Pointed(i, j, S) ==
    \E p \in i .. j - 1 : At(p) = "." /\ All(i, p, S) /\ All(p + 1, j, S)

LiteralIds ==
    {"INT_BINARY", "INT_OCTAL", "INT_DECIMAL", "INT_HEXADECIMAL",
     "FLT_DECIMAL", "FLT_HEXADECIMAL"}

IsLiteral(id, i, j) ==
    \/ /\ id = "INT_BINARY"
       /\ Prefixed(i, "b") /\ Some(i + 2, j, Binary)
    \/ /\ id = "INT_OCTAL"
       /\ Prefixed(i, "o") /\ Some(i + 2, j, Octal)
    \/ /\ id = "INT_DECIMAL"
       /\ \/ Some(i, j, Decimal)
          \/ Prefixed(i, "d") /\ Some(i + 2, j, Decimal)
    \/ /\ id = "INT_HEXADECIMAL"
       /\ Prefixed(i, "x") /\ Some(i + 2, j, Hexadecimal)
    \/ /\ id = "FLT_DECIMAL"
       /\ \E m \in i .. j :
            \/ Some(i, m, Decimal) /\ Exponent(m, j, "e")
            \/ /\ Pointed(i, m, Decimal) /\ i + 1 < m
               /\ m = j \/ Exponent(m, j, "e")
    \/ /\ id = "FLT_HEXADECIMAL"
       /\ Prefixed(i, "x")
       /\ \E m \in i + 2 .. j :
            \/ Some(i + 2, m, Hexadecimal) /\ Exponent(m, j, "p")
            \/ /\ Pointed(i + 2, m, Hexadecimal)
               /\ m = j \/ Exponent(m, j, "p")

OperatorId ==
    [c \in Operators |->
        CASE c = "+" -> "OP_ADD"
          [] c = "-" -> "OP_SUB"
          [] c = "*" -> "OP_MUL"
          [] c = "/" -> "OP_DIV"]

\* A literal counts only where something ends it.
IsLexeme(id, i, j) ==
    \/ id \in LiteralIds /\ IsLiteral(id, i, j) /\ At(j) \in FollowUp
    \/ /\ j = i + 1
       /\ \/ At(i) = NUL /\ id = "EOF"
          \/ At(i) \in Operators /\ id = OperatorId[At(i)]

=============================================================================
