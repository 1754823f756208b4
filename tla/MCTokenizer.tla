---------------------------- MODULE MCTokenizer -----------------------------
(* Small instances of Tokenizer for TLC: all short sources over alphabets  *)
(* chosen so that every case of every scanner is taken, after beginnings   *)
(* that lead to each scanner.  "0", "8" and "9" stand for the digits that  *)
(* are binary, not octal, and missing from a list of the code, "Z" for the *)
(* characters at which no token begins and that no literal contains.       *)
EXTENDS Tokenizer, SequencesExt

AllCharacters ==
    Hexadecimal \union Operators \union Blanks
        \union {"b", "d", "o", "x", "e", "p", ".", "Z"}

Beginnings ==
    {<<>>, <<"0", "b">>, <<"0", "o">>, <<"0", "d">>, <<"0", "x">>,
     <<"0", "x", "A">>, <<"8", ".">>, <<"8", "e">>, <<"\n", "0">>}

Endings ==
    BoundedSeq({"0", "8", "9", "A", ".", "e", "p", "+", " ", "\n", "Z"}, 3)

AllSources == {p \o s : p \in Beginnings, s \in Endings}

=============================================================================
