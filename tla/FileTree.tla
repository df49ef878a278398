------------------------------- MODULE FileTree -------------------------------
(***************************************************************************)
(* The directory served by simple-ftp as the kernel keeps it, what each    *)
(* system call on a path string does to it, and the wrappers of tools.cpp  *)
(* around these calls.                                                     *)
(*                                                                         *)
(* Nothing renames a directory, so an entry is known by its place: the     *)
(* names that lead to it from the base.                                    *)
(***************************************************************************)
EXTENDS Paths

CONSTANT NameOrder   \* the names of entries, each once, as listdir sorts them

ASSUME FileTreeAssumption ==
  /\ NameOrder \in Seq(Name)
  /\ \A n \in Name : \E k \in 1 .. Len(NameOrder) : NameOrder[k] = n
  /\ \A j, k \in 1 .. Len(NameOrder) : NameOrder[j] = NameOrder[k] => j = k

VARIABLES
  dirs,   \* places of the directories
  file    \* the file at each place that has one

tree == <<dirs, file>>

BASE_PATH == <<"..", Slash, "repo">>
Outside   == <<DotDot>>   \* where .. leads from the base; it is a directory

Entries     == dirs \cup DOMAIN file
Above(p)    == SubSeq(p, 1, Len(p) - 1)
Below(p, q) == Len(q) <= Len(p) /\ SubSeq(p, 1, Len(q)) = q

(* What any file system has: a base, every other entry in a directory, and *)
(* no entry of two kinds.                                                  *)
IsTree(d, f) ==
  /\ <<>> \in d /\ d \cap DOMAIN f = {}
  /\ \A p \in d \cup DOMAIN f :
       p \in Seq({<<n>> : n \in Name}) /\ (p # <<>> => Above(p) \in d)

(* The place a path string leads to, in a set; the set is empty if a node  *)
(* before the last is not a directory.                                     *)
Enter(p, node) ==
  IF p = Outside \/ (p = <<>> /\ node = DotDot) THEN Outside
  ELSE IF node = Dot THEN p
  ELSE IF node = DotDot THEN Above(p)
  ELSE Append(p, node)

Walk(string) ==
  LET node == Split(string, Slash)
      at[k \in 2 .. Len(node)] ==
        IF k = 2 THEN {<<>>}
        ELSE {Enter(p, node[k]) : p \in at[k - 1] \cap (dirs \cup {Outside})}
  IN  at[Len(node)]

LastNode(string) == LET node == Split(string, Slash) IN node[Len(node)]

is_exists(string) == Walk(string) \cap (Entries \cup {Outside}) # {}
is_dir(string)    == Walk(string) \cap (dirs \cup {Outside}) # {}
is_file(string)   == Walk(string) \cap DOMAIN file # {}

(* listdir without . and .. : the entries in the order of their names, and *)
(* none if the directory cannot be opened.                                 *)
listdir(string) ==
  LET place(k) == {Append(p, <<NameOrder[k]>>) : p \in Walk(string) \cap dirs}
      found[k \in 0 .. Len(NameOrder)] ==
        IF k = 0 THEN <<>>
        ELSE IF place(k) \cap Entries = {} THEN found[k - 1]
        ELSE Append(found[k - 1], [name |-> <<NameOrder[k]>>,
                                   is_file |-> place(k) \cap dirs = {}])
  IN  found[Len(NameOrder)]

(* mkdir(2), rmdir(2) and unlink(2): the directories or files afterwards.  *)
(* The base has entries above it and is never the last node of a path.     *)
Made(string) == dirs \cup (Walk(string) \ (Entries \cup {Outside}))

Removed(string) ==
  dirs \ {p \in Walk(string) :
            /\ LastNode(string) \notin {Dot, DotDot}
            /\ \A q \in Entries : Below(q, p) => q = p}

Unlinked(string) == [p \in DOMAIN file \ Walk(string) |-> file[p]]
=============================================================================
