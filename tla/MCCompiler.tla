----------------------------- MODULE MCCompiler -----------------------------
(***************************************************************************)
(* A root with a neighbour, slabs in a directory that attach their         *)
(* neighbours and each other, a slab whose object file is named like that  *)
(* of another, and one that two library directories have.                  *)
(***************************************************************************)
EXTENDS CompilerProps, TLC

Local(path) == [external |-> FALSE, path |-> path]
External(path) == [external |-> TRUE, path |-> path]

A == [dir |-> 0, path |-> <<"a">>]
B == [dir |-> 0, path |-> <<"b">>]
Inner == [dir |-> 0, path |-> <<"d", "/", "b">>]
Lower == [dir |-> 0, path |-> <<"d", "_", "b">>]
First == [dir |-> 1, path |-> <<"l">>]
Second == [dir |-> 2, path |-> <<"l">>]

MCWords == {"_", "/", "LOCAL", "EXTERNAL", "a", "b", "d", "l"}

MCSources == {A, B, Inner, Lower, First, Second}

MCRoots == {<<"a">>, <<"b">>}

MCTexts ==
  A :> {{}, {Local(<<"b">>), Local(<<"d", "/", "b">>)},
        {Local(<<"d", "/", "b">>), Local(<<"d", "_", "b">>)}}
  @@ B :> {{}, {External(<<"l">>)}}
  @@ Inner :> {{}, {Local(<<"a">>)}, {Local(<<"b">>)}}
  @@ Lower :> {{Local(<<"a">>)}}
  @@ First :> {{}}
  @@ Second :> {{Local(<<"l">>)}}
=============================================================================
