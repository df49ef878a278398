------------------------------ MODULE Repository ------------------------------
(***************************************************************************)
(* The commands of simple-ftp that read and change the served directory:   *)
(* cd, mkdir, rm, rmdir, cat, recv and up, carried out by several workers. *)
(*                                                                         *)
(* Each session is the connection of a worker of its own.  A worker        *)
(* carries out one command at a time, so the commands of one worker do not *)
(* interleave; those of different workers do, between any two system       *)
(* calls.  Clients need not wait for answers: the lines that come in the   *)
(* same read as a cat or recv are carried out before the first piece of    *)
(* its file is sent.  Commands that only answer (ls, help, and any command *)
(* its checks refuse) change nothing and are not steps.                    *)
(***************************************************************************)
EXTENDS FileTree

CONSTANTS
  Session,
  Lines,     \* the command lines clients send
  Inode,     \* files, whether they have a name or are only open
  COMMANDS,  \* bound on the commands carried out, but for the lines in
  Endless,   \* Endless, which clients may send for ever
  BLOCKS,    \* bound on the blocks of one upload
  FULL,      \* the disk may be full at times
  Hole,      \* a block of a file that nobody wrote
  Trees      \* what may be in the directory when the server starts

ASSUME RepositoryAssumption ==
  /\ Lines \subseteq String /\ Endless \subseteq Lines
  /\ COMMANDS \in Nat /\ BLOCKS \in Nat /\ FULL \in BOOLEAN
  /\ \A t \in Trees :
       IsTree(t.dirs, t.file) /\ \A p \in DOMAIN t.file : t.file[p] \in Inode

VARIABLES
  content,  \* the blocks of each file
  path,     \* Connection::path of each session
  pc,       \* the command a session is carrying out
  final,    \* its final_path
  goal,     \* the place that path means
  stack,    \* the calls of the recursive rmdir: directory, entries left
  ino,      \* the file fd_to_write of an upload, in a set
  off,      \* its position, in blocks
  data,     \* the blocks received from the client
  sending,  \* the command that set fd_to_send, or "no"
  source,   \* the file of fd_to_send, in a set; a directory has none
  sent,     \* the blocks sent of it
  is_end,   \* Connection::is_end
  reset,    \* sessions whose client has reset the connection
  touched,  \* what others have interfered with: <<session, activity>>
  left      \* commands the clients may still send

open     == <<ino, off, data>>
download == <<sending, source, sent, is_end, reset>>
command  == <<pc, final, goal>>
vars     == <<tree, content, path, command, stack, open, download, touched, left>>

Init ==
  /\ \E t \in Trees : dirs = t.dirs /\ file = t.file
  /\ content = [i \in Inode |-> IF \E p \in DOMAIN file : file[p] = i
                               THEN <<Hole, Hole>> ELSE <<>>]
  /\ path = [s \in Session |-> <<>>]
  /\ pc = [s \in Session |-> "idle"]
  /\ final = [s \in Session |-> <<>>] /\ goal = [s \in Session |-> <<>>]
  /\ stack = [s \in Session |-> <<>>]
  /\ ino = [s \in Session |-> {}] /\ off = [s \in Session |-> 0]
  /\ data = [s \in Session |-> <<>>]
  /\ sending = [s \in Session |-> "no"] /\ source = [s \in Session |-> {}]
  /\ sent = [s \in Session |-> <<>>]
  /\ is_end = [s \in Session |-> FALSE] /\ reset = {}
  /\ touched = {} /\ left = COMMANDS

-----------------------------------------------------------------------------
(* Handle: the words of a line, and the command the first one names.       *)
Received == {Arguments(line) : line \in Lines}

(* The loop polls a connection that sends a file for room only, so that no *)
(* more is read; the error of a reset makes it read all the same.          *)
Reading_Always(s) == TRUE
Reading(s) == sending[s] = "no" \/ sent[s] = <<>> \/ s \in reset

Unlimited == {Arguments(line) : line \in Endless}

Commanded(s, args, word, n) ==
  /\ pc[s] = "idle" /\ Reading(s)
  /\ Len(args) = n /\ args[1] = <<word>>
  /\ \/ args \in Unlimited /\ UNCHANGED left
     \/ args \notin Unlimited /\ left > 0 /\ left' = left - 1

Begin(s, p, word) ==
  /\ Acceptable(p)
  /\ pc' = [pc EXCEPT ![s] = word]
  /\ final' = [final EXCEPT ![s] = PathJoin(BASE_PATH, p)]
  /\ goal' = [goal EXCEPT ![s] = Lexical(p)]

Finish(s) ==
  /\ pc' = [pc EXCEPT ![s] = "idle"]
  /\ final' = [final EXCEPT ![s] = <<>>] /\ goal' = [goal EXCEPT ![s] = <<>>]
  /\ UNCHANGED left

Closed(s) ==
  /\ ino' = [ino EXCEPT ![s] = {}]
  /\ off' = [off EXCEPT ![s] = 0] /\ data' = [data EXCEPT ![s] = <<>>]

NotSending(s) ==
  /\ sending' = [sending EXCEPT ![s] = "no"]
  /\ source' = [source EXCEPT ![s] = {}] /\ sent' = [sent EXCEPT ![s] = <<>>]

(* Disconnect closes the files; Init prepares the object for another use.  *)
Disconnect(s) ==
  /\ Closed(s) /\ NotSending(s)
  /\ is_end' = [is_end EXCEPT ![s] = FALSE] /\ reset' = reset \ {s}
  /\ path' = [path EXCEPT ![s] = <<>>]
  /\ touched' = {x \in touched : x[1] # s}

(* A change at one of these places interferes with an rmdir of another     *)
(* session if it is in the directory being removed, or in the way of a     *)
(* path that goes down and up again.                                       *)
Disturbed(s, places) ==
  {<<t, "rmdir">> : t \in
     {u \in Session \ {s} :
        /\ pc[u] = "rmdir" /\ places # {}
        /\ \/ \E p \in places : Below(p, goal[u])
           \/ \E k \in 4 .. Len(final[u]) : final[u][k] = ".."}}

Touch(s, places) == touched' = touched \cup Disturbed(s, places)

-----------------------------------------------------------------------------
(* cd, whose only system call is the stat of is_dir.                       *)
Popped(p) == Above(p)

Moved(p, name) ==
  CASE name = DotDot -> Popped(p)
    [] name = Dot    -> p
    [] name \notin {Dot, DotDot} ->
         LET q == Meant(p, name)
         IN  IF Acceptable(q) /\ is_dir(PathJoin(BASE_PATH, q)) THEN q ELSE p

Cd(s, args) ==
  /\ \/ Commanded(s, args, "cd", 1) /\ path' = [path EXCEPT ![s] = <<>>]
     \/ /\ Commanded(s, args, "cd", 2)
        /\ path' = [path EXCEPT ![s] = Moved(@, args[2])]
  /\ UNCHANGED <<tree, content, command, stack, open, download, touched>>

-----------------------------------------------------------------------------
(* mkdir, rm and rmdir take one node, look whether it is there, and act.   *)
Node(s, args) == Append(path[s], args[2])

Found(string, word) ==
  CASE word = "mkdir" -> ~is_exists(string)
    [] word = "rm"    -> is_file(string)
    [] word = "rmdir" -> is_dir(string)

Check(s, args, word) ==
  /\ Commanded(s, args, word, 2)
  /\ Begin(s, Node(s, args), word)
  /\ Found(PathJoin(BASE_PATH, Node(s, args)), word)
  /\ touched' = touched \ {<<s, "rmdir">>}
  /\ UNCHANGED <<tree, content, path, stack, open, download>>

Mkdir(s) ==
  /\ pc[s] = "mkdir" /\ Finish(s)
  /\ dirs' = Made(final[s])
  /\ Touch(s, dirs' \ dirs)
  /\ UNCHANGED <<file, content, path, stack, open, download>>

Rm(s) ==
  /\ pc[s] = "rm" /\ Finish(s)
  /\ file' = Unlinked(final[s])
  /\ Touch(s, DOMAIN file \ DOMAIN file')
  /\ UNCHANGED <<dirs, content, path, stack, open, download>>

(* rmdir of tools.cpp: a call lists its directory, removes what the list   *)
(* named, and then the directory itself.                                   *)
Call(string) == [at |-> string, left |-> listdir(string)]
Top(s)    == stack[s][Len(stack[s])]
Entry(s)  == Head(Top(s).left)
Callers(s) == SubSeq(stack[s], 1, Len(stack[s]) - 1)
EntryPath(s) == Join(Top(s).at, Entry(s).name)

Remaining_Next(entries) == IF Len(entries) > 1 THEN Tail(Tail(entries)) ELSE <<>>
Remaining(entries) == Tail(entries)
Returned_Listed(s) == Append(Callers(s), Call(Top(s).at))
Returned(s) == Append(Callers(s), [Top(s) EXCEPT !.left = Remaining(@)])

RmdirStart(s) ==
  /\ pc[s] = "rmdir" /\ stack[s] = <<>>
  /\ stack' = [stack EXCEPT ![s] = <<Call(final[s])>>]
  /\ UNCHANGED <<tree, content, path, command, open, download, touched, left>>

InCall(s, more) ==
  /\ pc[s] = "rmdir" /\ stack[s] # <<>>
  /\ (Top(s).left # <<>>) = more
  /\ UNCHANGED <<content, path, open, download, left>>

RmdirFile(s) ==
  /\ InCall(s, TRUE) /\ Entry(s).is_file
  /\ \E at \in {EntryPath(s)} : file' = Unlinked(at)
  /\ Touch(s, DOMAIN file \ DOMAIN file')
  /\ stack' = [stack EXCEPT ![s] = Returned(s)]
  /\ UNCHANGED <<dirs, command>>

RmdirSub(s) ==
  /\ InCall(s, TRUE) /\ ~Entry(s).is_file
  /\ \E at \in {EntryPath(s)} :
       stack' = [stack EXCEPT ![s] = Append(Returned(s), Call(at))]
  /\ UNCHANGED <<tree, command, touched>>

RmdirSelf(s) ==
  /\ InCall(s, FALSE)
  /\ dirs' = Removed(Top(s).at)
  /\ Touch(s, dirs \ dirs')
  /\ stack' = [stack EXCEPT ![s] = Callers(s)]
  /\ IF Callers(s) = <<>> THEN Finish(s) ELSE UNCHANGED command
  /\ UNCHANGED file

-----------------------------------------------------------------------------
(* cat, recv and up open a file; each open file has its own position.      *)
Uploaders(i)    == {t \in Session : i \in ino[t]}
Downloaders(i)  == {t \in Session : i \in source[t]}
FilePathOf(s, args) == PathJoin(BASE_PATH, Meant(path[s], args[2]))

(* fopen "rb"; a directory can be opened, but not read.                    *)
OpenedAt(string) ==
  LET there == Walk(string) \cap DOMAIN file
  IN  IF there = {} THEN {{}} ELSE {{file[p]} : p \in there}

(* A file that is being sent is forgotten for the new one.                 *)
Download(s, args) ==
  /\ \E word \in {"cat", "recv"} :
       Commanded(s, args, word, 2) /\ sending' = [sending EXCEPT ![s] = word]
  /\ Acceptable(Meant(path[s], args[2])) /\ is_exists(FilePathOf(s, args))
  /\ \E opened \in OpenedAt(FilePathOf(s, args)) :
       /\ source' = [source EXCEPT ![s] = opened]
       /\ touched' = (touched \ {<<s, "send">>})
                        \cup {<<s, "send">> : i \in {j \in opened : Uploaders(j) # {}}}
  /\ sent' = [sent EXCEPT ![s] = <<>>]
  /\ UNCHANGED <<tree, content, path, command, stack, open, is_end, reset>>

Opened(s, args) ==
  /\ Commanded(s, args, "up", 2)
  /\ Begin(s, Meant(path[s], args[2]), "up")
  /\ off' = [off EXCEPT ![s] = 0] /\ data' = [data EXCEPT ![s] = <<>>]
  /\ UNCHANGED <<path, stack, download>>

(* fopen "wb" empties the file, or creates it.                             *)
Truncated_Not(blocks) == blocks
Truncated(blocks) == <<>>

Overwrite(s, args) ==
  /\ Opened(s, args)
  /\ \E p \in Walk(final'[s]) \cap DOMAIN file :
       LET i == file[p] IN
       /\ ino' = [ino EXCEPT ![s] = {i}]
       /\ content' = [content EXCEPT ![i] = Truncated(@)]
       /\ touched' = (touched \ {<<s, "up">>})
                        \cup {<<t, "send">> : t \in Downloaders(i)}
                        \cup (Uploaders(i) \cup {t \in {s} : Uploaders(i) # {}}) \X {"up"}
  /\ UNCHANGED tree

Unused ==
  Inode \ ({file[p] : p \in DOMAIN file} \cup UNION {ino[t] \cup source[t] : t \in Session})

Create(s, args) ==
  /\ Opened(s, args)
  /\ \E p \in Walk(final'[s]) \ (Entries \cup {Outside}) :
       LET i == CHOOSE j \in Unused : TRUE IN
       /\ Unused # {}
       /\ file' = [q \in DOMAIN file \cup {p} |-> IF q = p THEN i ELSE file[q]]
       /\ ino' = [ino EXCEPT ![s] = {i}]
       /\ content' = [content EXCEPT ![i] = <<>>]
       /\ touched' = (touched \ {<<s, "up">>}) \cup Disturbed(s, {p})
  /\ UNCHANGED dirs

(* The file cannot be opened.  recv and up end the connection, once the    *)
(* lines of the read are handled; cat and recv forget a file being sent.   *)
CatFails(s, args) ==
  /\ Commanded(s, args, "cat", 2) /\ ~is_exists(FilePathOf(s, args))
  /\ sending[s] # "no" /\ NotSending(s)
  /\ UNCHANGED is_end

RecvFails(s, args) ==
  /\ Commanded(s, args, "recv", 2) /\ ~is_exists(FilePathOf(s, args))
  /\ NotSending(s)
  /\ is_end' = [is_end EXCEPT ![s] = TRUE]

UpFails(s, args) ==
  /\ Commanded(s, args, "up", 2)
  /\ LET w == Walk(FilePathOf(s, args)) IN w = {} \/ w \cap (dirs \cup {Outside}) # {}
  /\ is_end' = [is_end EXCEPT ![s] = TRUE]
  /\ UNCHANGED <<sending, source, sent>>

OpenFails(s, args) ==
  /\ CatFails(s, args) \/ RecvFails(s, args) \/ UpFails(s, args)
  /\ Acceptable(Meant(path[s], args[2]))
  /\ UNCHANGED <<tree, content, path, command, stack, open, reset, touched>>

(* Trigger(false): the next piece of the file, or its end.  The piece for  *)
(* a client that has reset the connection ends the worker (see Die).       *)
Ended(s) == \A i \in source[s] : Len(sent[s]) >= Len(content[i])

Sends(s) == sending[s] # "no" /\ pc[s] \in {"idle", "up"} /\ ~is_end[s]

SendPiece(s) ==
  /\ Sends(s) /\ s \notin reset /\ ~Ended(s)
  /\ \E i \in source[s] :
       sent' = [sent EXCEPT ![s] = Append(@, content[i][Len(@) + 1])]
  /\ UNCHANGED <<tree, content, path, command, stack, open, sending, source, is_end,
                 reset, touched, left>>

CatDone(s) ==
  /\ Sends(s) /\ Ended(s) /\ sending[s] = "cat"
  /\ NotSending(s)
  /\ touched' = touched \ {<<s, "send">>}
  /\ UNCHANGED <<tree, content, path, command, stack, open, is_end, reset, left>>

(* close_after_sent ends the connection, and with it an upload.            *)
RecvDone(s) ==
  /\ Sends(s) /\ Ended(s) /\ sending[s] = "recv"
  /\ off[s] >= Len(data[s])
  /\ Finish(s) /\ Disconnect(s)
  /\ UNCHANGED <<tree, content, stack>>

(* Trigger(true) during up: fwrite puts a block into the stdio buffer.     *)
Receive(s) ==
  /\ pc[s] = "up" /\ Reading(s) /\ Len(data[s]) < BLOCKS
  /\ data' = [data EXCEPT ![s] = Append(@, <<s, Len(@) + 1>>)]
  /\ UNCHANGED <<tree, content, path, command, stack, ino, off, download, touched, left>>

(* The buffer reaches the file when stdio decides, at the latest in fclose.*)
Stored(blocks, k, b) ==
  [j \in 1 .. IF k > Len(blocks) THEN k ELSE Len(blocks) |->
     IF j = k THEN b ELSE IF j <= Len(blocks) THEN blocks[j] ELSE Hole]

Flush(s) ==
  /\ pc[s] = "up" /\ off[s] < Len(data[s])
  /\ \E i \in ino[s] :
       content' = [content EXCEPT ![i] = Stored(@, off[s] + 1, data[s][off[s] + 1])]
  /\ off' = [off EXCEPT ![s] = @ + 1]
  /\ UNCHANGED <<tree, path, command, stack, ino, data, download, touched, left>>

(* The write fails, and neither fwrite nor fclose is asked whether it did. *)
FlushFails(s) ==
  /\ FULL /\ pc[s] = "up" /\ off[s] < Len(data[s])
  /\ data' = [data EXCEPT ![s] = SubSeq(@, 1, off[s]) \o SubSeq(@, off[s] + 2, Len(@))]
  /\ touched' = touched \cup {<<s, "up">>}
  /\ UNCHANGED <<tree, content, path, command, stack, ino, off, download, left>>

(* The client resets the connection while it is sent a file; at any other  *)
(* time this is an end like any other.                                     *)
Reset(s) ==
  /\ Sends(s) /\ s \notin reset
  /\ reset' = reset \cup {s}
  /\ UNCHANGED <<tree, content, path, command, stack, open, sending, source, sent, is_end,
                 touched, left>>

(* The connection ends between commands: is_end is set, or the read finds  *)
(* the end of what the client sent.                                        *)
Hang(s) ==
  /\ pc[s] \in {"idle", "up"}
  /\ is_end[s] \/ sending[s] = "no" \/ s \in reset
  /\ off[s] >= Len(data[s])
  /\ Finish(s) /\ Disconnect(s)
  /\ UNCHANGED <<tree, content, stack>>

(* The worker dies, wherever it is; what stdio holds back is lost.         *)
Die(s) ==
  /\ pc[s] # "dead"
  /\ pc' = [pc EXCEPT ![s] = "dead"]
  /\ stack' = [stack EXCEPT ![s] = <<>>]
  /\ Disconnect(s)
  /\ UNCHANGED <<tree, content, final, goal, left>>

Fork(s) ==
  /\ pc[s] = "dead" /\ Finish(s)
  /\ UNCHANGED <<tree, content, path, stack, open, download, touched>>

-----------------------------------------------------------------------------
Client(s) ==
  \/ \E args \in Received :
       \/ Cd(s, args)
       \/ \E word \in {"mkdir", "rm", "rmdir"} : Check(s, args, word)
       \/ Download(s, args) \/ Overwrite(s, args) \/ Create(s, args)
       \/ OpenFails(s, args)
  \/ Receive(s) \/ Reset(s) \/ Hang(s)

Work(s) ==
  \/ Mkdir(s) \/ Rm(s)
  \/ RmdirStart(s) \/ RmdirFile(s) \/ RmdirSub(s) \/ RmdirSelf(s)
  \/ SendPiece(s) \/ CatDone(s) \/ RecvDone(s)

Next ==
  \E s \in Session :
    Client(s) \/ Work(s) \/ Flush(s) \/ FlushFails(s) \/ Die(s) \/ Fork(s)

Spec == Init /\ [][Next]_vars

(* A worker that is carrying out a command keeps running.                  *)
FairSpec == Spec /\ \A s \in Session : WF_vars(Work(s))
-----------------------------------------------------------------------------
(* Properties.                                                             *)

(* The variables have the types of what they stand for; in particular no   *)
(* node of a path is empty, which path_join and the search for the last    *)
(* character in it rely on.                                                *)
TypeOK ==
  /\ dirs \subseteq Seq(String) /\ DOMAIN file \subseteq Seq(String)
  /\ \A p \in DOMAIN file : file[p] \in Inode
  /\ path \in [Session -> Seq(String \ {<<>>})]
  /\ pc \in [Session -> {"idle", "mkdir", "rm", "rmdir", "up", "dead"}]
  /\ ino \in [Session -> SUBSET Inode] /\ off \in [Session -> Nat]
  /\ sending \in [Session -> {"no", "cat", "recv"}]
  /\ source \in [Session -> SUBSET Inode]
  /\ is_end \in [Session -> BOOLEAN] /\ reset \subseteq Session
  /\ touched \subseteq Session \X {"rmdir", "send", "up"} /\ left \in Nat

(* However cd is used, and whatever cd .. drops from a path that was never *)
(* normalised, no path of a session or of a command leads above the base,  *)
(* nor does the path of a file a client may ask for next.                  *)
Inside ==
  \A s \in Session :
    /\ Outside \notin Walk(PathJoin(BASE_PATH, path[s]))
    /\ pc[s] \notin {"idle", "dead"} => Outside \notin Walk(final[s])
    /\ \A args \in {a \in Received : Len(a) = 2 /\ a[1] \in {<<"cat">>, <<"recv">>}} :
         Acceptable(Meant(path[s], args[2])) => Outside \notin Walk(FilePathOf(s, args))

(* A command changes the entry its path means and, for rmdir, what is in   *)
(* it, and nothing else, however other commands change the tree between    *)
(* its check at connection.cpp:254, 279 or 304 and what it then does.      *)
Reach(s, p) ==
  CASE pc[s] = "rmdir"         -> Below(p, goal[s])
    [] pc[s] \in {"mkdir", "rm"} -> p = goal[s]
    [] pc[s] \notin {"mkdir", "rm", "rmdir"} -> p = goal'[s]

StaysInGoal ==
  [][\A p \in (Entries \ Entries') \cup (Entries' \ Entries) :
       \E s \in Session :
         <<pc[s], stack[s], ino[s]>> # <<pc'[s], stack'[s], ino'[s]>> /\ Reach(s, p)]_vars

(* An rmdir with which no other session interferes, by making something in *)
(* the directory or taking away one that the path leads through, has       *)
(* removed the directory when it comes to its end, except when the path    *)
(* ends in . or .. or leads through a directory in the one to be removed:  *)
(* after cd a/b/../.. an rmdir a removes b, by which its path a/b/../../a  *)
(* leads nowhere, and a stays.                                             *)
Through(string) ==
  LET node == Split(string, Slash)
  IN  {Lexical(SubSeq(node, 3, k)) : k \in 2 .. Len(node) - 1}

RmdirRemoves ==
  [][\A s \in Session :
       pc[s] = "rmdir" /\ pc'[s] = "idle" /\ <<s, "rmdir">> \notin touched =>
         (goal[s] \notin Entries'
            <=> /\ LastNode(final[s]) \notin {Dot, DotDot}
                /\ \A p \in Through(final[s]) : Below(p, goal[s]) => p = goal[s])]_vars

(* An upload that ends with its connection leaves in the file what the     *)
(* client sent, unless another session opened the same file meanwhile or   *)
(* the disk was full; that the name or the directory is removed meanwhile  *)
(* does no harm.                                                           *)
UploadIntact ==
  [][\A s \in Session :
       pc[s] = "up" /\ pc'[s] = "idle" /\ <<s, "up">> \notin touched
       => \A i \in ino[s] : content[i] = data[s]]_vars

(* A file of which a piece is sent is sent to its end, as it is, whatever  *)
(* lines the client sends behind the command, unless the client resets the *)
(* connection, the worker dies or somebody uploads the file.               *)
DownloadIntact ==
  [][\A s \in Session :
       /\ sent[s] # <<>> /\ sent'[s] = <<>> /\ pc'[s] # "dead"
       /\ s \notin reset /\ <<s, "send">> \notin touched
       => \A i \in source[s] : content[i] = sent[s]]_vars

(* Every command on directories comes to an end, in particular the         *)
(* recursive rmdir while others add to the directory for ever.             *)
CommandsEnd ==
  \A s \in Session : []<>(pc[s] \notin {"mkdir", "rm", "rmdir"})

(* What a comment says of the program, and a run refutes.                  *)

(* connection.cpp:208: cd .. moves to the parent directory, of any         *)
(* directory below the base.                                               *)
UpIsParent ==
  [][\A s \in Session :
       Lexical(path[s]) # <<>> /\ Cd(s, <<<<"cd">>, DotDot>>)
         => Lexical(path'[s]) = Above(Lexical(path[s]))]_vars
=============================================================================
