------------------------------- MODULE MCText -------------------------------
(* Small instances of TextCuts.                                            *)
EXTENDS TextCuts

\* The messages of tests/base/platform.c come out as the test says.
ASSUME TestedMessages ==
    LET w    == <<"a", "a", "a", "a">>
        text == w \o <<"sp">> \o w \o <<"sp">> \o w \o <<"a">>
    IN  /\ w_format_msg_va(text, 4) = <<"a", "a", "a">>
        /\ w_format_msg_va(text, 8) = Mark
        /\ w_format_msg_va(text, 12) = w \o <<"sp">> \o Mark
        /\ w_format_msg_va(text, 16) = text

=============================================================================
