-------------------------------- MODULE MCVfs --------------------------------
(* The constants of Vfs for TLC: two static files, a RAM array of two, and  *)
(* paths that collide: with a static file, with a directory, with each other   *)
(* in their last component, with a trailing slash, without a leading one.      *)
EXTENDS VfsRefinement

Abs(comps) == [abs |-> TRUE, comps |-> comps]

MCFILES ==
    <<[path |-> Abs(<<"t">>), data |-> <<1, 1>>],
      [path |-> Abs(<<"bin", "ls">>), data |-> <<1, 2, 1>>]>>

MCLongPaths == {Abs(<<"long">>)}

MCPaths ==
    {RootPath, EmptyPath, Abs(<<"t">>), Abs(<<"x">>), Abs(<<"bin">>),
     Abs(<<"bin", "">>), Abs(<<"bin", "x">>), [abs |-> FALSE, comps |-> <<"x">>]}
        \cup MCLongPaths

MCContents == {<<2>>, <<2, 1, 2>>}
MCNameLen ==
    [n \in {"", "t", "x", "ls", "bin", "long"} |->
        CASE n = "" -> 0 [] n \in {"t", "x"} -> 1 [] n = "ls" -> 2 [] n = "bin" -> 3
          [] n = "long" -> 4]
=============================================================================
