----------------------------- MODULE MCRepository -----------------------------
(* Instances of Repository for TLC: two sessions, and one for UpIsParent.  *)
EXTENDS Repository, TLC

MCName == {"cd", "mkdir", "rm", "rmdir", "cat", "recv", "up", "a", "b"}
MCNameOrder == <<"a", "b", "cat", "cd", "mkdir", "recv", "rm", "rmdir", "up">>

Typed(word, argument) == <<word, Space>> \o argument

MCLines ==
  {<<"cd">>, Typed("cd", <<Slash>>), Typed("cd", <<"a">>), Typed("cd", <<"..">>),
   Typed("cd", <<Slash, "a", Slash>>),
   Typed("cd", <<"a", Slash, "b", Slash, "..", Slash, "..">>),
   Typed("cd", <<"..", Slash, "a">>),
   Typed("mkdir", <<"a">>), Typed("mkdir", <<"b">>), Typed("mkdir", <<"a", Slash, "b">>),
   Typed("rm", <<"a">>), Typed("rmdir", <<"a">>), Typed("rmdir", <<"..">>),
   Typed("cat", <<"a">>), Typed("recv", <<"a">>), Typed("up", <<"a">>)}

MCEndless == {Typed("mkdir", <<"b">>)}

(* The lines for UpIsParent, one of them a path that ends in a .. node. *)
MCUpLines ==
  {Typed("cd", <<"a">>), Typed("cd", <<"..">>), Typed("cd", <<"b", Slash, "..">>),
   Typed("mkdir", <<"a">>), Typed("mkdir", <<"b">>)}

A == <<<<"a">>>>
B == <<<<"b">>>>
AB == <<<<"a">>, <<"b">>>>

MCTrees ==
  {[dirs |-> {<<>>, A, B}, file |-> AB :> 1],
   [dirs |-> {<<>>, A, AB}, file |-> <<>>],
   [dirs |-> {<<>>}, file |-> A :> 1]}
=============================================================================
