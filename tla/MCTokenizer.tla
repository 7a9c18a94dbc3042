----------------------------- MODULE MCTokenizer -----------------------------
(* The constants of Tokenizer for TLC: every character the scanner treats in a *)
(* way of its own and one it does not, and limits that seven of them reach.    *)
EXTENDS Tokenizer

MCChars == {" ", "'", "\"", "\\", "|", "<", ">", "a"}
MCBuiltins == {<<"a", "a">>}
=============================================================================
