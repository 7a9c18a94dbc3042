---------------------------- MODULE MCEnvironment ----------------------------
(* The constants of Environment for TLC: CWD, three more names, one too long   *)
(* and the empty one, for an array of three; values of up to four characters, *)
(* so that a working directory can be just too long, and a string of ten, so   *)
(* that the second or the third variable may not fit.                          *)
EXTENDS Environment

MCCwdKey == <<"C">>
MCKeys == {MCCwdKey, <<"A">>, <<"B">>, <<"A", "B">>, <<"A", "B", "A">>, << >>}
MCVals == {<< >>, <<"x">>, <<"$", "A">>, <<"x", "/", "x", "/">>, <<"x", "x", "x", "x", "x">>}
MCDirs == {<< >>, <<"/">>, <<"x">>, <<"x", "/">>, <<"/", "x", "x">>, <<"/", "/">>,
           <<"x", "/", "x", "x">>, <<"/", "x", "x", "x", "x", "x", "x">>}
MCFiles == {<<"f">>, <<"f", "f", "f">>, <<"/", "f">>, <<"x", "/", "f">>,
            <<"/", "f", "f", "f", "f", "f", "f", "f">>}
MCRawLines == {<<"$", "A">>, <<"f", "$", "A", "$", "B">>, <<"$", "A", "B", "f">>, <<"$", "$", "A">>,
               <<"$", "/", "$">>, <<"$", "f", "/", "$", "C">>, <<"$", "A", "$", "A", "/", "f">>}
MCChar == {"A", "B", "C", "f", "x", "/", "$"}
MCNameChars == {"A", "B", "C", "f"}
=============================================================================
