---------------------------- MODULE MCWinConsole ----------------------------
(* Small instances of WinConsole for TLC.                                  *)
EXTENDS WinConsole

(* A message whose second chunk must begin with the first byte of a        *)
(* character, and one that is written at once.                             *)
SmallMessages == {<<"a", "a", "lead", "cont">>, <<"a">>}

=============================================================================
