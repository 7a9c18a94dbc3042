-------------------------------- MODULE MCSed --------------------------------
(* The constants of Sed for TLC: every script of up to six characters over     *)
(* the two delimiters / and a, the backslash and g, and a few longer ones whose *)
(* patterns overlap themselves or fill their buffers.                          *)
EXTENDS Sed, SequencesExt

MCScripts ==
    {<<"s">> \o w : w \in BoundedSeq({"/", "a", "\\", "g"}, 5)}
    \cup {<< >>, <<"a", "/", "a", "/", "/">>}
    \cup {<<"s", "/">> \o p \o <<"/">> \o r \o <<"/", "g">> :
            p \in {<<"a", "a">>, <<"a", "g">>, <<"a", "g", "a">>, <<"\\", "/">>, <<"a", "a", "a", "a">>},
            r \in {<< >>, <<"a", "a", "a">>, <<"g", "\\", "\\">>, <<"a", "a", "a", "a">>}}
MCData == BoundedSeq({"a", "g"}, 4) \cup {<<"/", "a", "/", "/">>}
=============================================================================
