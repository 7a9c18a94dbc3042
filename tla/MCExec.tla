------------------------------- MODULE MCExec -------------------------------
(* The constants of Exec for TLC: init, two programs, one whose image the    *)
(* loader refuses, a static file that is no program and a name that is       *)
(* nothing; buffers of two bytes, and pids that saturate at 3.               *)
EXTENDS ExecRefinement

MCPath == {"init", "cat", "bad", "hello.txt", "nosuch"}
MCFILES == {"init", "cat", "bad", "hello.txt"}
MCLoads == {"init", "cat"}
MCSlotForPath ==
    [p \in {"init", "cat", "bad"} |->
        CASE p = "init" -> 0 [] p = "cat" -> 1 [] p = "bad" -> 2]

MCByte == {"a", "nl"}
\* Shorter than, equal to and longer than the kernel's buffers.
MCStdins == {<< >>, <<"nl">>, <<"nl", "a">>, <<"a", "nl", "a">>}
MCCaps == {0, 1, 2}
MCWrites == {<<"a">>, <<"nl", "a">>}
=============================================================================
