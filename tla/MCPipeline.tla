----------------------------- MODULE MCPipeline -----------------------------
(* The constants of Pipeline for TLC.  Buffers are three bytes long and a read *)
(* asks for two, so that one static file is longer than a buffer, and inputs  *)
(* take one read, several reads, or end on a chunk boundary.                  *)
EXTENDS Pipeline

Abs(comps) == [abs |-> TRUE, comps |-> comps]
Rel(comps) == [abs |-> FALSE, comps |-> comps]
Bin(name)  == Abs(<<"bin", name>>)

MCStaticTable ==
    [i \in 1 .. 4 |-> [path |-> Bin(<<"init", "cat", "tee", "echo">>[i]), data |-> <<"a">>]]
        \o <<[path |-> Bin("bad"), data |-> <<"a">>],
             [path |-> Abs(<<"h">>), data |-> <<"a", "nl", "a", "a">>],
             [path |-> Abs(<<"e">>), data |-> << >>]>>

MCFILES == {MCStaticTable[i].path : i \in 1 .. Len(MCStaticTable)}
MCLoads == {Bin("init"), Bin("cat"), Bin("tee"), Bin("echo")}
MCSlotForPath ==
    [p \in MCLoads \cup {Bin("bad")} |->
        CASE p = Bin("init") -> 0 [] p = Bin("cat") -> 1 [] p = Bin("tee") -> 2
          [] p = Bin("echo") -> 3 [] p = Bin("bad") -> 4]
MCBinPath == [c \in {"init", "cat", "tee", "echo", "bad", "nosuch"} |-> Bin(c)]
MCPath == {MCBinPath[c] : c \in DOMAIN MCBinPath} \cup MCFILES
MCInitPath == Bin("init")
MCCatPath  == Bin("cat")
MCTeePath  == Bin("tee")
MCEchoPath == Bin("echo")

MCNames ==
    {Abs(c) : c \in {<<"h">>, <<"e">>, <<"f">>, <<"g">>, <<"d", "f">>, <<"x">>, <<"">>}}
        \cup {Rel(<<"f">>), Rel(<<"x">>), Rel(<<"d", "f">>), Rel(<<"">>)} \cup MCFILES

MCPathPart == STRING
MCByte == {"a", "nl"}
MCMessage == <<<<"a">>, <<"nl">>>>

\* Bytes other than the newline are not told apart, so a blank is an a too.
NoArgs    == [text |-> << >>, words |-> << >>, name |-> Rel(<<"">>), cwd |-> {}]
Blank     == [NoArgs EXCEPT !.text = <<"a">>]
Arg(p)    == [text |-> <<"a">>, words |-> <<p>>, name |-> p, cwd |-> {}]
SetCwd(p) == [Arg(p) EXCEPT !.cwd = {p}]

Cmd(cmd, args) == [parses |-> TRUE, cmd |-> cmd, args |-> args, in |-> {}, out |-> {}]
From(stage, p) == [stage EXCEPT !.in = {p}]
Into(stage, p) == [stage EXCEPT !.out = {p}]
Bad(stage)     == [stage EXCEPT !.parses = FALSE]

Simple(stage) == [ops |-> FALSE, stages |-> <<stage>>]
Piped(stages) == [ops |-> TRUE, stages |-> stages]

Cat == Cmd("cat", NoArgs)

MCLines ==
    {Simple(Cmd("exit", NoArgs)),
     Simple(Cmd("cd", Arg(Rel(<<"d">>)))),
     Simple(Cmd("cd", NoArgs)),
     Simple(Bad(Cmd("cd", Arg(Rel(<<"d">>))))),
     Simple(Cmd("export", SetCwd(Rel(<<"d">>)))),
     Simple(Cmd("export", NoArgs)),
     Simple(Cmd("cat", Arg(Rel(<<"f">>)))),
     Simple(Cmd("cat", Blank)),
     Simple(Cmd("init", NoArgs)),
     Simple(Cmd("toolong", NoArgs)),
     Piped(<<Into(Cmd("echo", Arg(Rel(<<"x">>))), Rel(<<"f">>))>>),
     Piped(<<Into(Cmd("echo", NoArgs), Abs(<<"f">>))>>),
     Piped(<<Cmd("cat", Arg(Abs(<<"h">>))), Cmd("tee", Arg(Rel(<<"x">>)))>>),
     Piped(<<From(Cat, Abs(<<"h">>)), Cmd("tee", Arg(Abs(<<"g">>))), Into(Cat, Abs(<<"f">>))>>),
     Piped(<<From(Cat, Rel(<<"f">>)), Cat>>),
     Piped(<<Cmd("cat", Arg(Abs(<<"e">>))), Into(Cmd("echo", NoArgs), Abs(<<"g">>))>>),
     Piped(<<Cmd("cat", Arg(Abs(<<"e">>))), Cat>>),
     Piped(<<Cat, Into(Cat, Abs(<<"g">>))>>),
     Piped(<<Cmd("echo", NoArgs), Cmd("tee", Arg(Rel(<<"f">>))), Into(Cmd("nosuch", NoArgs), Abs(<<"g">>))>>),
     Piped(<<From(Cmd("tee", Arg(Abs(<<"g">>))), Abs(<<"f">>)), Into(Cmd("bad", NoArgs), Abs(<<"f">>))>>),
     Piped(<<Cmd("echo", NoArgs), Cmd("tee", Arg(Abs(<<"g">>))), Bad(Cat)>>),
     Piped(<<Cmd("echo", NoArgs), Cmd("cd", Arg(Rel(<<"d">>)))>>)}
=============================================================================
