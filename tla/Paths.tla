-------------------------------- MODULE Paths --------------------------------
(***************************************************************************)
(* The string functions of simple-ftp that turn a command line into        *)
(* arguments and an argument into a path below the served directory.       *)
(*                                                                         *)
(* A string is a sequence of tokens: the separators, the dots that mean    *)
(* something alone between slashes, and names, one token each.             *)
(***************************************************************************)
EXTENDS Integers, Sequences, FiniteSets

CONSTANT Name   \* file and directory names

Slash == "/"
Backslash == "\\"
Space == " "
Dot == <<".">>
DotDot == <<"..">>

Separator == {Slash, Backslash, Space}
Token == Name \cup Separator \cup {".", ".."}

String ==
  {s \in Seq(Token) :
     \A k \in 1 .. Len(s) - 1 : s[k] \in Separator \/ s[k + 1] \in Separator}

ASSUME PathsAssumption == Name \cap {Slash, Backslash, Space, ".", ".."} = {}

-----------------------------------------------------------------------------
(* strtok: the longest runs of s without p; none of them is empty.         *)
Split(s, p) ==
  LET run[n \in 0 .. Len(s)] ==
        IF n = 0 THEN <<>>
        ELSE IF s[n] = p THEN run[n - 1]
        ELSE IF n = 1 \/ s[n - 1] = p THEN Append(run[n - 1], <<s[n]>>)
        ELSE [run[n - 1] EXCEPT ![Len(run[n - 1])] = Append(@, s[n])]
  IN  run[Len(s)]

(* trim of one string; empty if it holds nothing but spaces.               *)
Trim(s) ==
  LET kept == {k \in 1 .. Len(s) : s[k] # Space}
  IN  IF kept = {} THEN <<>>
      ELSE SubSeq(s, CHOOSE a \in kept : \A k \in kept : a <= k,
                     CHOOSE b \in kept : \A k \in kept : k <= b)

TrimAll(strs) == [k \in 1 .. Len(strs) |-> Trim(strs[k])]

(* The non-empty strings move to the front; the vector keeps its length,   *)
(* so that its tail keeps the strings that were there.                     *)
Clean(strs) ==
  LET moved[n \in 0 .. Len(strs)] ==
        IF n = 0 THEN <<>>
        ELSE IF strs[n] = <<>> THEN moved[n - 1]
        ELSE Append(moved[n - 1], strs[n])
      full == moved[Len(strs)]
  IN  full \o SubSeq(strs, Len(full) + 1, Len(strs))

Words(s, p) == Clean(TrimAll(Split(s, p)))

(* The words of a command line, split at spaces.                           *)
Arguments(line) == Words(line, Space)

-----------------------------------------------------------------------------
Leading(s)  == IF s # <<>> /\ Head(s) = Slash THEN Tail(s) ELSE s
Trailing(s) == IF s # <<>> /\ s[Len(s)] = Slash
               THEN SubSeq(s, 1, Len(s) - 1) ELSE s

(* path_join of two strings, and of a base and the nodes of a path.        *)
Join(a, b) == Trailing(a) \o <<Slash>> \o Trailing(Leading(b))

PathJoin(base, path) ==
  LET join[n \in 0 .. Len(path)] ==
        IF n = 0 THEN base ELSE Join(join[n - 1], path[n])
  IN  join[Len(path)]

(* The path an argument of cd, cat, recv or up means: from the base if it  *)
(* starts with a slash, else from path.                                    *)
IsRoot(name) == name # <<>> /\ Head(name) = Slash

Meant_Whole(path, name) ==
  IF IsRoot(name) THEN <<Tail(name)>> ELSE Append(path, name)

Meant(path, name) ==
  IF IsRoot(name) THEN Words(Tail(name), Slash)
  ELSE path \o Words(name, Slash)

-----------------------------------------------------------------------------
(* is_path_acceptable: the stack of the names entered, as its size after   *)
(* the first k nodes; no node has a slash in it, and no .. comes when the  *)
(* stack is empty.                                                         *)
Entered(path, k) == Cardinality({j \in 1 .. k : path[j] \notin {Dot, DotDot}})
Left(path, k)    == Cardinality({j \in 1 .. k : path[j] = DotDot})

Plain(node) == \A k \in 1 .. Len(node) : node[k] \notin {Slash, Backslash}

Acceptable_InTotal(path) ==
  /\ \A k \in 1 .. Len(path) : Plain(path[k])
  /\ Left(path, Len(path)) <= Entered(path, Len(path))

Acceptable_AnyNode(path) ==
  \A k \in 1 .. Len(path) : Left(path, k) <= Entered(path, k)

Acceptable(path) ==
  \A k \in 1 .. Len(path) :
    Plain(path[k]) /\ Left(path, k) <= Entered(path, k)

(* The directory or file an acceptable path means: the final stack, that   *)
(* is the names from the base down.                                        *)
Lexical(path) ==
  LET stack[k \in 0 .. Len(path)] ==
        IF k = 0 THEN <<>>
        ELSE IF path[k] = Dot THEN stack[k - 1]
        ELSE IF path[k] # DotDot THEN Append(stack[k - 1], path[k])
        ELSE SubSeq(stack[k - 1], 1, Len(stack[k - 1]) - 1)
  IN  stack[Len(path)]
=============================================================================
