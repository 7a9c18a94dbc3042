----------------------------- MODULE MCTerminal ------------------------------
(* The constants of Terminal for TLC: a screen of three rows of four cells,    *)
(* a prompt of two and a line of seven, so that a line takes up to three rows, *)
(* its first ones may have scrolled away, and it may begin in any column.      *)
EXTENDS Terminal

MCPrompt == <<"$", " ">>
MCChar == {"$", " ", "a", "b", "o", "BS", "NL", "0xfe"}
MCKeys == {"a", "b"}
MCOutputs == {<<"o">>, <<"o", "NL">>, <<"BS">>}
MCBootText == <<"o", "NL">>
=============================================================================
