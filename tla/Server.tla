-------------------------------- MODULE Server --------------------------------
(***************************************************************************)
(* All processes of simple-ftp: the master of Server::Loop and Fork, and   *)
(* the workers it forks, each running Server::Progress on its own table    *)
(* and all on the same two blocking listening sockets.                     *)
(*                                                                         *)
(* A worker is reduced to the places where it can wait, poll and accept,   *)
(* and to the connections in its table; module Worker has the table and    *)
(* the rest of the loop.                                                   *)
(***************************************************************************)
EXTENDS Integers, Sequences, FiniteSets

CONSTANTS
  PROCESSES,  \* workers the master keeps
  Pid,        \* process identifiers of workers
  Conn,       \* clients; a client has at most one connection at a time
  SLOTS,      \* connections a table has room for
  EXITS       \* bound on the workers that exit

ASSUME ServerAssumption ==
  /\ PROCESSES \in Nat \ {0} /\ SLOTS \in Nat \ {0} /\ EXITS \in Nat
  /\ IsFiniteSet(Pid) /\ Cardinality(Pid) >= PROCESSES

Listeners == 0 .. 1   \* listenfd0 and listenfd1

VARIABLES
  master,   \* where Loop is: "start", "wait", "fork" or "gone"
  forked,   \* workers the first loop has forked
  pc,       \* where each worker is: "none" is no process, "zombie" one that exited
  seen,     \* listeners its last poll reported, not yet accepted from
  due,      \* connections its last poll reported, not yet served
  held,     \* connections in its table
  backlog,  \* connections waiting at each listener, in order
  asking,   \* clients with something to read for the server
  exits     \* workers that may still exit

worker == <<pc, seen, due, held>>
vars   == <<master, forked, worker, backlog, asking, exits>>

Init ==
  /\ master = "start" /\ forked = 0
  /\ pc = [p \in Pid |-> "none"]
  /\ seen = [p \in Pid |-> {}] /\ due = [p \in Pid |-> {}]
  /\ held = [p \in Pid |-> {}]
  /\ backlog = [l \in Listeners |-> <<>>]
  /\ asking = {} /\ exits = EXITS

Children == {p \in Pid : pc[p] # "none"}
Workers  == {p \in Pid : pc[p] \notin {"none", "zombie"}}
Queued   == UNION {{backlog[l][k] : k \in 1 .. Len(backlog[l])} : l \in Listeners}
Attached == Queued \cup UNION {held[p] : p \in Pid}

-----------------------------------------------------------------------------
(* The master.                                                             *)

Started_Short == forked = PROCESSES - 1
Started == forked = PROCESSES

(* fork in the first loop, or after Waitpid.                               *)
Forking == (master = "start" /\ ~Started) \/ master = "fork"

Forked(p) ==
  /\ Forking /\ pc[p] = "none"
  /\ pc' = [pc EXCEPT ![p] = "poll"]
  /\ IF master = "start"
     THEN forked' = forked + 1 /\ UNCHANGED master
     ELSE master' = "wait" /\ UNCHANGED forked
  /\ UNCHANGED <<seen, due, held, backlog, asking, exits>>

(* The kernel closes the connections of a process that ends, and resets    *)
(* the queued ones if it was the last one with the listening sockets.      *)
Closed(lost, last) ==
  /\ backlog' = (IF last THEN [l \in Listeners |-> <<>>] ELSE backlog)
  /\ asking' = asking \ (lost \cup IF last THEN Queued ELSE {})

(* fork fails: the master exits, its workers go on without it.             *)
ForkFails ==
  /\ Forking /\ exits > 0
  /\ master' = "gone" /\ exits' = exits - 1
  /\ Closed({}, Workers = {})
  /\ UNCHANGED <<forked, worker>>

Serving ==
  /\ master = "start" /\ Started
  /\ master' = "wait"
  /\ UNCHANGED <<forked, worker, backlog, asking, exits>>

Reaped(p) ==
  /\ pc[p] = "zombie" /\ pc' = [pc EXCEPT ![p] = "none"]
  /\ UNCHANGED <<forked, seen, due, held, backlog, asking, exits>>

(* Waitpid(0, ...): any child.                                             *)
Awaited_One == {CHOOSE p \in Pid : TRUE}
Awaited == Children

Waitpid(p) ==
  /\ master = "wait" /\ p \in Awaited
  /\ master' = "fork"
  /\ Reaped(p)

(* Workers without a master are reaped by init.                            *)
Adopted(p) == master = "gone" /\ UNCHANGED master /\ Reaped(p)

-----------------------------------------------------------------------------
(* A worker.                                                               *)

(* emptys # 0; a table that once was overrun counts below 0 and has room.  *)
HasRoom(p) == Cardinality(held[p]) # SLOTS

(* Poll: the listeners if the table has room, and the connections.         *)
Ready_First(p) == {l \in {0} : backlog[l] # <<>> /\ HasRoom(p)}
Ready(p) == {l \in Listeners : backlog[l] # <<>> /\ HasRoom(p)}

Poll(p) ==
  /\ pc[p] = "poll"
  /\ Ready(p) \cup (held[p] \cap asking) # {}
  /\ seen' = [seen EXCEPT ![p] = Ready(p)]
  /\ due' = [due EXCEPT ![p] = held[p] \cap asking]
  /\ pc' = [pc EXCEPT ![p] = "accept"]
  /\ UNCHANGED <<master, forked, held, backlog, asking, exits>>

(* The accept loop: fds[0] before fds[1]; accept waits while nobody is     *)
(* queued, also when poll saw someone whom another worker took.            *)
Turn(p, l) == l \in seen[p] /\ \A k \in seen[p] : l <= k

Waits(p, l) == pc[p] = "accept" /\ Turn(p, l) /\ backlog[l] = <<>>

Once_Drained(p, l) == seen[p]
Once(p, l) == seen[p] \ {l}

(* The second accept of a round may find no slot free (see Worker) and put *)
(* the connection in an entry past the end.  That is undefined behaviour;  *)
(* of its outcomes two are explored: the entry serves like any other, as   *)
(* here, and a crash, as in Overrun.                                       *)
Accept(p) ==
  /\ pc[p] = "accept"
  /\ \E l \in Listeners :
       /\ Turn(p, l) /\ backlog[l] # <<>>
       /\ held' = [held EXCEPT ![p] = @ \cup {Head(backlog[l])}]
       /\ backlog' = [backlog EXCEPT ![l] = Tail(@)]
       /\ seen' = [seen EXCEPT ![p] = Once(p, l)]
  /\ UNCHANGED <<master, forked, pc, due, asking, exits>>

Accepted(p) ==
  /\ pc[p] = "accept" /\ seen[p] = {}
  /\ pc' = [pc EXCEPT ![p] = "serve"]
  /\ UNCHANGED <<master, forked, seen, due, held, backlog, asking, exits>>

(* Trigger, and the end of the connection if it has come.                  *)
Unserved_Kept(p, c) == due[p]
Unserved(p, c) == due[p] \ {c}

Serve(p) ==
  /\ pc[p] = "serve"
  /\ \E c \in due[p] :
       /\ due' = [due EXCEPT ![p] = Unserved(p, c)]
       /\ asking' = asking \ {c}
       /\ held' \in {held, [held EXCEPT ![p] = @ \ {c}]}
  /\ UNCHANGED <<master, forked, pc, seen, backlog, exits>>

Served(p) ==
  /\ pc[p] = "serve" /\ due[p] = {}
  /\ pc' = [pc EXCEPT ![p] = "poll"]
  /\ UNCHANGED <<master, forked, seen, due, held, backlog, asking, exits>>

(* The process ends, and with it its connections.                          *)
Ends(p) ==
  /\ pc' = [pc EXCEPT ![p] = "zombie"]
  /\ seen' = [seen EXCEPT ![p] = {}] /\ due' = [due EXCEPT ![p] = {}]
  /\ held' = [held EXCEPT ![p] = {}]
  /\ Closed(held[p], Workers = {p} /\ master = "gone")
  /\ UNCHANGED <<master, forked>>

(* err_sys, in accept or while serving.                                    *)
Exit(p) ==
  /\ pc[p] \in {"accept", "serve"} /\ exits > 0
  /\ exits' = exits - 1
  /\ Ends(p)

(* The search for a free slot leaves the table, and the process crashes.   *)
Overrun(p) ==
  /\ pc[p] = "accept" /\ Cardinality(held[p]) >= SLOTS
  /\ \E l \in Listeners : Turn(p, l) /\ backlog[l] # <<>>
  /\ UNCHANGED exits
  /\ Ends(p)

-----------------------------------------------------------------------------
(* The clients.                                                            *)

Connect(c, l) ==
  /\ c \notin Attached
  /\ master # "gone" \/ Workers # {}
  /\ backlog' = [backlog EXCEPT ![l] = Append(@, c)]
  /\ UNCHANGED <<master, forked, worker, asking, exits>>

Ask(c) ==
  /\ c \in Attached \ asking
  /\ asking' = asking \cup {c}
  /\ UNCHANGED <<master, forked, worker, backlog, exits>>

(* All processes are gone; a client that connects is refused.              *)
Refused(c) ==
  /\ master = "gone" /\ Workers = {}
  /\ UNCHANGED vars

-----------------------------------------------------------------------------
Parent == Serving \/ \E p \in Pid : Forked(p) \/ Waitpid(p) \/ Adopted(p)

Worker(p) == Poll(p) \/ Accept(p) \/ Accepted(p) \/ Serve(p) \/ Served(p)

Next ==
  \/ Parent \/ ForkFails
  \/ \E p \in Pid : Worker(p) \/ Exit(p) \/ Overrun(p)
  \/ \E c \in Conn : Ask(c) \/ Refused(c) \/ \E l \in Listeners : Connect(c, l)

Spec == Init /\ [][Next]_vars

(* The kernel runs every process that does not wait in a system call.      *)
(* waitpid goes through the children in the order they were forked, so     *)
(* that one which exited is not passed over for ever for younger ones.     *)
FairSpec ==
  /\ Spec
  /\ WF_vars(Parent)
  /\ \A p \in Pid : WF_vars(Worker(p)) /\ SF_vars(Waitpid(p)) /\ WF_vars(Adopted(p))

-----------------------------------------------------------------------------
(* Properties.                                                             *)

(* The variables have their types, and a worker has only connections in    *)
(* its own table to serve.                                                 *)
TypeOK ==
  /\ master \in {"start", "wait", "fork", "gone"} /\ forked \in 0 .. PROCESSES
  /\ pc \in [Pid -> {"none", "poll", "accept", "serve", "zombie"}]
  /\ seen \in [Pid -> SUBSET Listeners]
  /\ due \in [Pid -> SUBSET Conn] /\ held \in [Pid -> SUBSET Conn]
  /\ \A p \in Pid : due[p] \subseteq held[p]
  /\ backlog \in [Listeners -> Seq(Conn)]
  /\ asking \subseteq Conn /\ exits \in 0 .. EXITS

(* The master keeps PROCESSES children whatever exits when: Waitpid always *)
(* has a child to wait for, and no exit is left without a fork.            *)
Population ==
  /\ master = "wait" => Cardinality(Children) = PROCESSES
  /\ master = "fork" => Cardinality(Children) = PROCESSES - 1
  /\ master = "start" => Cardinality(Children) = forked

(* While all PROCESSES workers are alive they never all wait in accept for *)
(* port 4000: the last one to accept is never left to wait there.  It may  *)
(* be left to wait for port 4001, so that all wait, some for each port.    *)
SomeonePolls ==
  Cardinality(Workers) = PROCESSES => \E p \in Workers : ~Waits(p, 0)

(* report.md:88: Waitpid gets every worker that exits, wherever the master *)
(* is when it does and however many exit; with Population, one is forked   *)
(* for each.                                                               *)
Replaced == \A p \in Pid : pc[p] = "zombie" ~> pc[p] = "none"

(* A queued connection is accepted, if there always is again a worker in   *)
(* poll with room in its table, or the server is gone.                     *)
RoomAgain == \E p \in Workers : pc[p] = "poll" /\ HasRoom(p)

AllAccepted ==
  []<>RoomAgain => \A c \in Conn : c \in Queued ~> c \notin Queued
=============================================================================
