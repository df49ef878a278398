------------------------------- MODULE Worker -------------------------------
(***************************************************************************)
(* One worker process of simple-ftp: the poll loop Server::Progress and    *)
(* the part of Server::Loop that replaces the process when it exits.       *)
(*                                                                         *)
(* The loop is cut into one action per place where the process can wait or *)
(* where the kernel, a client or another worker can change what the next   *)
(* system call sees.  A Connection object is reduced to the two facts the  *)
(* loop asks it for, IsEnd (is_end) and MoreDataToWrite (sending); module  *)
(* Connection has the rest.                                                *)
(***************************************************************************)
EXTENDS Integers, FiniteSets

CONSTANTS
  MAX_EVENTS,  \* entries of fds: two listeners and the connection slots
  PROCESSES,   \* workers sharing the two listening sockets
  Client,      \* TCP clients; a client has at most one connection at a time
  Abrupt,      \* those that may reset their connection
  NoFd         \* the -1 of a free slot

ASSUME WorkerAssumption ==
  /\ MAX_EVENTS \in Nat /\ MAX_EVENTS >= 3
  /\ PROCESSES \in Nat \ {0}
  /\ NoFd \notin Client /\ Abrupt \subseteq Client

Listeners == 0 .. 1                \* fds[0] is port 4000, fds[1] port 4001
Slots     == 2 .. MAX_EVENTS - 1
Entries   == 0 .. MAX_EVENTS - 1

(* POLLRDNORM, POLLWRNORM, POLLERR and POLLHUP.                            *)
Interests == {"RD", "WR"}
Reports   == Interests \cup {"ERR", "HUP"}

(* Kernel state of a client's socket: unread bytes, FIN received, RST      *)
(* received (or retransmission given up), its error not yet reported by    *)
(* read, no room for the next write.                                       *)
Conditions == {"data", "fin", "rst", "err", "full"}

VARIABLES
  pc,       \* where the loop is
  i,        \* the loop variable of both for loops
  fd,       \* fds[s].fd of the slots
  events,   \* fds[k].events
  maxi, emptys,
  revents,  \* fds[k].revents: what the last poll that covered k stored there
  nready,
  polled,   \* the last entry the last poll covered
  is_end,   \* socks[s].IsEnd()
  sending,  \* socks[s].MoreDataToWrite()
  backlog,  \* established connections not accepted yet, per listener
  sock      \* kernel state of each client's connection

table  == <<fd, events, maxi, emptys>>
round  == <<revents, nready, polled>>
conns  == <<is_end, sending>>
kernel == <<backlog, sock>>
vars   == <<pc, i, table, round, conns, kernel>>

Free     == {s \in Slots : fd[s] = NoFd}
Occupied == Slots \ Free
Held     == {fd[s] : s \in Occupied}
Attached == Held \cup backlog[0] \cup backlog[1]

(* Progress before its while loop; no client has connected yet.            *)
Init ==
  /\ pc = "rearm" /\ i = 0
  /\ fd = [s \in Slots |-> NoFd]
  /\ events = [k \in Entries |-> {}]
  /\ revents = [k \in Entries |-> {}]
  /\ maxi = 1 /\ emptys = MAX_EVENTS - 2 /\ nready = 0 /\ polled = 0
  /\ is_end = [s \in Slots |-> FALSE]
  /\ sending = [s \in Slots |-> FALSE]
  /\ backlog = [l \in Listeners |-> {}]
  /\ sock = [c \in Client |-> {}]

-----------------------------------------------------------------------------
(* The clients, the kernel and the other workers.                          *)

Connect(c, l) ==
  /\ c \notin Attached
  /\ backlog' = [backlog EXCEPT ![l] = @ \cup {c}]
  /\ sock' = [sock EXCEPT ![c] = {}]

Send(c) ==
  /\ c \in Attached /\ sock[c] \cap {"fin", "rst"} = {}
  /\ sock' = [sock EXCEPT ![c] = @ \cup {"data"}]
  /\ UNCHANGED backlog

Shut(c) ==
  /\ c \in Attached /\ "rst" \notin sock[c]
  /\ sock' = [sock EXCEPT ![c] = @ \cup {"fin"}]
  /\ UNCHANGED backlog

Reset(c) ==
  /\ c \in Attached \cap Abrupt /\ "rst" \notin sock[c]
  /\ sock' = [sock EXCEPT ![c] = @ \cup {"rst", "err"}]
  /\ UNCHANGED backlog

(* The client reads, which makes room in the worker's send buffer.         *)
Drain(c) ==
  /\ c \in Attached
  /\ sock' = [sock EXCEPT ![c] = @ \ {"full"}]
  /\ UNCHANGED backlog

(* Another worker accepts a connection this one may have seen in poll.     *)
Steal(c, l) ==
  /\ PROCESSES > 1
  /\ c \in backlog[l]
  /\ backlog' = [backlog EXCEPT ![l] = @ \ {c}]
  /\ sock' = [sock EXCEPT ![c] = {}]

Environment ==
  /\ \E c \in Client :
       \/ \E l \in Listeners : Connect(c, l) \/ Steal(c, l)
       \/ Send(c) \/ Shut(c) \/ Reset(c) \/ Drain(c)
  /\ UNCHANGED <<pc, i, table, round, conns>>

-----------------------------------------------------------------------------
(* What a connection waits for: to read, unless it has a file to send.     *)
Interest_ReadOnly(busy) == {"RD"}
Interest(busy) == IF busy THEN {"WR"} ELSE {"RD"}

(* The loop that lowers maxi stops at the last used slot, or at fds[1].    *)
LastUsed_Blind(m) == m = 1
LastUsed(m) ==
  /\ m \in 1 .. maxi
  /\ m = 1 \/ m \in Occupied
  /\ \A s \in Occupied : s <= maxi => s <= m

(* A worker with no free slot does not ask for new connections.            *)
ListenInterest_Always == {"RD"}
ListenInterest == IF emptys = 0 THEN {} ELSE {"RD"}

Rearm ==
  /\ pc = "rearm" /\ pc' = "poll"
  /\ nready' = 0 /\ polled' = 0
  /\ \E m \in 1 .. maxi : LastUsed(m) /\ maxi' = m
  /\ events' = [k \in Entries |->
                  IF k \in Listeners THEN ListenInterest ELSE events[k]]
  /\ UNCHANGED <<i, fd, emptys, revents, conns, kernel>>

Readiness(c) ==
  (IF sock[c] \cap {"data", "fin", "rst"} # {} THEN {"RD"} ELSE {})
    \cup (IF "full" \notin sock[c] \/ "rst" \in sock[c] THEN {"WR"} ELSE {})
    \cup (IF "err" \in sock[c] THEN {"ERR"} ELSE {})
    \cup (IF "rst" \in sock[c] THEN {"HUP"} ELSE {})

(* What poll reports for entry k; nothing for a free slot.                 *)
Reported(k) ==
  CASE k \in Listeners -> IF backlog[k] # {} THEN events[k] ELSE {}
    [] k \in Free      -> {}
    [] k \in Occupied  -> Readiness(fd[k]) \cap (events[k] \cup {"ERR", "HUP"})

(* poll leaves the entries it does not cover as they were.                 *)
Stored_IfReady(k) == IF Reported(k) # {} THEN Reported(k) ELSE revents[k]
Stored(k) == IF k <= maxi THEN Reported(k) ELSE revents[k]

(* Poll(fds, maxi + 1, INFTIM)                                             *)
Poll ==
  /\ pc = "poll" /\ pc' = "accept"
  /\ \E k \in 0 .. maxi : Reported(k) # {}
  /\ revents' = [k \in Entries |-> Stored(k)]
  /\ nready' = Cardinality({k \in 0 .. maxi : Reported(k) # {}})
  /\ polled' = maxi
  /\ UNCHANGED <<i, table, conns, kernel>>

-----------------------------------------------------------------------------
(* err_sys ends the process and the kernel closes its connections; lost    *)
(* are those in the slots and those in extra.                              *)
Exit(extra) ==
  /\ pc' = "exited" /\ i' = 0
  /\ fd' = [s \in Slots |-> NoFd]
  /\ sock' = [c \in Client |-> IF c \in Held \cup extra THEN {} ELSE sock[c]]
  /\ UNCHANGED <<events, maxi, emptys, round, conns>>

NotReady ==
  /\ pc = "accept" /\ i \in Listeners /\ "RD" \notin revents[i]
  /\ i' = i + 1
  /\ UNCHANGED <<pc, table, round, conns, kernel>>

(* accept waits here when the connection poll saw has been taken.          *)
Taken(c) ==
  /\ pc = "accept" /\ i \in Listeners /\ "RD" \in revents[i]
  /\ c \in backlog[i]
  /\ backlog' = [backlog EXCEPT ![i] = @ \ {c}]

FirstFree(pos) == pos \in Free /\ \A s \in Free : pos <= s

Raised_Next(pos) == IF maxi <= pos THEN pos + 1 ELSE maxi
Raised(pos) == IF maxi < pos THEN pos ELSE maxi

Handled_Twice(n) == n - 2
Handled(n) == n - 1

(* Connection::Init of the first free slot.                                *)
Accept(c) ==
  /\ Taken(c)
  /\ ~(i = 0 /\ "rst" \in sock[c])
  /\ Free # {}
  /\ \E pos \in Slots :
       /\ FirstFree(pos)
       /\ fd' = [fd EXCEPT ![pos] = c]
       /\ is_end' = [is_end EXCEPT ![pos] = FALSE]
       /\ sending' = [sending EXCEPT ![pos] = FALSE]
       /\ events' = [events EXCEPT ![pos] = Interest(FALSE)]
       /\ maxi' = Raised(pos)
  /\ emptys' = emptys - 1 /\ nready' = Handled(nready)
  /\ i' = i + 1
  /\ UNCHANGED <<pc, revents, polled, sock>>

(* Port 4000: the banner of Connection::Init meets a reset connection.     *)
AcceptReset(c) ==
  /\ Taken(c)
  /\ i = 0 /\ "rst" \in sock[c] /\ Free # {}
  /\ Exit({c})

(* accept fails, as when the system is out of descriptors, and is err_sys. *)
AcceptFails ==
  /\ pc = "accept" /\ i \in Listeners /\ "RD" \in revents[i]
  /\ Exit({})
  /\ UNCHANGED backlog

(* The search for a free slot runs past the end of fds.                    *)
Overrun(c) ==
  /\ Taken(c)
  /\ Free = {}
  /\ pc' = "overrun"
  /\ sock' = [sock EXCEPT ![c] = {}]
  /\ UNCHANGED <<i, table, round, conns>>

Accepted ==
  /\ pc = "accept" /\ i = 2
  /\ IF nready = 0 THEN pc' = "rearm" /\ i' = 0 ELSE pc' = "scan" /\ i' = 2
  /\ UNCHANGED <<table, round, conns, kernel>>

-----------------------------------------------------------------------------
(* The scan of the slots up to maxi.                                       *)

PastLast_Early == i >= maxi
PastLast == i > maxi

Scanned ==
  /\ pc = "scan" /\ PastLast
  /\ pc' = "rearm" /\ i' = 0
  /\ UNCHANGED <<table, round, conns, kernel>>

Skip ==
  /\ pc = "scan" /\ ~PastLast
  /\ fd[i] = NoFd \/ revents[i] = {}
  /\ i' = i + 1
  /\ UNCHANGED <<pc, table, round, conns, kernel>>

AfterRead == IF revents[i] \cap {"WR", "ERR"} # {} THEN "write" ELSE "settle"

Visit ==
  /\ pc = "scan" /\ ~PastLast
  /\ fd[i] # NoFd /\ revents[i] # {}
  /\ pc' = IF revents[i] \cap {"RD", "ERR"} # {} THEN "read" ELSE AfterRead
  /\ UNCHANGED <<i, table, round, conns, kernel>>

(* Trigger(true) reads bytes.  Either they complete no line and go to the  *)
(* buffer or a file, or end a line that answers nothing (cat on port 4001  *)
(* starts sending), or answers are due.  read waits when there is nothing. *)
ReadData ==
  /\ pc = "read" /\ "data" \in sock[fd[i]]
  /\ sock' \in {sock, [sock EXCEPT ![fd[i]] = @ \ {"data"}]}
  /\ \/ pc' = "reply" /\ UNCHANGED sending
     \/ pc' = AfterRead /\ sending' \in {sending, [sending EXCEPT ![i] = TRUE]}
  /\ UNCHANGED <<i, table, round, is_end, backlog>>

(* Trigger(true) with pos = BUFFSIZE answers "full buffer" without reading.*)
FullBuffer ==
  /\ pc = "read" /\ sock[fd[i]] \cap {"data", "fin", "rst"} # {}
  /\ pc' = "reply"
  /\ UNCHANGED <<i, table, round, conns, kernel>>

(* read returns 0, or an error: only ECONNRESET sets is_end.               *)
ReadEnd ==
  /\ pc = "read" /\ "data" \notin sock[fd[i]]
  /\ sock[fd[i]] \cap {"fin", "rst"} # {}
  /\ pc' = AfterRead
  /\ \/ is_end' = [is_end EXCEPT ![i] = TRUE]
     \/ "err" \in sock[fd[i]] /\ UNCHANGED is_end
  /\ sock' = [sock EXCEPT ![fd[i]] = @ \ {"err"}]
  /\ UNCHANGED <<i, table, round, sending, backlog>>

(* write to a connection that is not reset: it waits for room, and may use *)
(* it up.                                                                  *)
Written(c) ==
  /\ sock[c] \cap {"full", "rst"} = {}
  /\ sock' \in {sock, [sock EXCEPT ![c] = @ \cup {"full"}]}

(* The answers to the lines read: cat or recv may open a file or fail to,  *)
(* recv, up and a full buffer may end the connection.                      *)
Reply ==
  /\ pc = "reply" /\ pc' = AfterRead
  /\ Written(fd[i])
  /\ \E busy \in BOOLEAN : sending' = [sending EXCEPT ![i] = busy]
  /\ is_end' \in {is_end, [is_end EXCEPT ![i] = TRUE]}
  /\ UNCHANGED <<i, table, round, backlog>>

(* Trigger(false).                                                         *)
NothingToWrite ==
  /\ pc = "write" /\ ~sending[i] /\ pc' = "settle"
  /\ is_end' = [is_end EXCEPT ![i] = TRUE]
  /\ Written(fd[i])
  /\ UNCHANGED <<i, table, round, sending, backlog>>

WriteChunk ==
  /\ pc = "write" /\ sending[i] /\ pc' = "settle"
  /\ Written(fd[i])
  /\ UNCHANGED <<i, table, round, conns, backlog>>

(* The file is sent: a prompt on port 4000, the end after recv.            *)
WriteDone ==
  /\ pc = "write" /\ sending[i] /\ pc' = "settle"
  /\ sending' = [sending EXCEPT ![i] = FALSE]
  /\ is_end' \in {is_end, [is_end EXCEPT ![i] = TRUE]}
  /\ Written(fd[i]) \/ UNCHANGED sock
  /\ UNCHANGED <<i, table, round, backlog>>

(* Any write to a reset connection fails, and Write calls err_sys.         *)
WriteFails ==
  /\ pc \in {"reply", "write"} /\ "rst" \in sock[fd[i]]
  /\ Exit({})
  /\ UNCHANGED backlog

Vacated_Uncounted(n) == n
Vacated(n) == n + 1

(* After the triggers: close the connection, or wait for its next event.   *)
Close ==
  /\ pc = "settle" /\ is_end[i]
  /\ pc' = "scan" /\ i' = i + 1
  /\ fd' = [fd EXCEPT ![i] = NoFd]
  /\ events' = [events EXCEPT ![i] = {}]
  /\ emptys' = Vacated(emptys)
  /\ sending' = [sending EXCEPT ![i] = FALSE]
  /\ sock' = [sock EXCEPT ![fd[i]] = {}]
  /\ is_end' = [is_end EXCEPT ![i] = FALSE]
  /\ UNCHANGED <<maxi, round, backlog>>

Keep ==
  /\ pc = "settle" /\ ~is_end[i]
  /\ pc' = "scan" /\ i' = i + 1
  /\ events' = [events EXCEPT ![i] = Interest(sending[i])]
  /\ UNCHANGED <<fd, maxi, emptys, round, conns, kernel>>

-----------------------------------------------------------------------------
(* The out-of-bounds entry is undefined behaviour; the outcome explored is *)
(* a crash of the process.                                                 *)
Crash ==
  /\ pc = "overrun"
  /\ Exit({})
  /\ UNCHANGED backlog

(* Waitpid returns in the master, which forks a new worker.                *)
Respawn ==
  /\ pc = "exited"
  /\ pc' = "rearm"
  /\ fd' = [s \in Slots |-> NoFd]
  /\ events' = [k \in Entries |-> {}]
  /\ revents' = [k \in Entries |-> {}]
  /\ maxi' = 1 /\ emptys' = MAX_EVENTS - 2 /\ nready' = 0 /\ polled' = 0
  /\ is_end' = [s \in Slots |-> FALSE]
  /\ sending' = [s \in Slots |-> FALSE]
  /\ UNCHANGED <<i, kernel>>

Listening ==
  \/ NotReady \/ Accepted
  \/ \E c \in Client : Accept(c) \/ AcceptReset(c) \/ Overrun(c)

Triggers ==
  \/ ReadData \/ FullBuffer \/ ReadEnd \/ Reply
  \/ NothingToWrite \/ WriteChunk \/ WriteDone \/ WriteFails

Process ==
  \/ Rearm \/ Poll \/ Listening
  \/ Scanned \/ Skip \/ Visit \/ Triggers \/ Close \/ Keep
  \/ Crash \/ Respawn

Next == Environment \/ Process \/ AcceptFails

Spec == Init /\ [][Next]_vars

(* The kernel runs the worker whenever it is not waiting in a system call; *)
(* nothing makes accept fail for a worker that waits in it.                *)
FairSpec == Spec /\ WF_vars(Process)
-----------------------------------------------------------------------------
(* Properties.                                                             *)

(* The variables have the types of the C++ objects they stand for.         *)
TypeOK ==
  /\ pc \in {"rearm", "poll", "accept", "scan", "read", "reply", "write",
             "settle", "overrun", "exited"}
  /\ i \in 0 .. MAX_EVENTS
  /\ fd \in [Slots -> Client \cup {NoFd}]
  /\ events \in [Entries -> SUBSET Interests]
  /\ revents \in [Entries -> SUBSET Reports]
  /\ maxi \in 1 .. MAX_EVENTS - 1 /\ polled \in 0 .. MAX_EVENTS - 1
  /\ emptys \in Int /\ nready \in Int
  /\ is_end \in [Slots -> BOOLEAN] /\ sending \in [Slots -> BOOLEAN]
  /\ backlog \in [Listeners -> SUBSET Client]
  /\ sock \in [Client -> SUBSET Conditions]

(* The counter that decides whether the worker listens is the number of    *)
(* free slots, whatever the order of accepts, closes and process exits.    *)
EmptysExact == pc # "exited" => emptys = Cardinality(Free)

(* No connection sits in a slot poll and the scan do not reach: it would   *)
(* never be served again.                                                  *)
Covered == \A s \in Occupied : s <= maxi

(* When the worker goes to poll it waits on every connection it kept for   *)
(* the one event that can move it: room if a file is being sent, else data.*)
Armed ==
  pc = "poll" => \A s \in Occupied :
    ~is_end[s] /\ events[s] = IF sending[s] THEN {"WR"} ELSE {"RD"}

(* The scan for a free slot leaves fds only at the second accept of one    *)
(* round: a worker that polled with no free slot accepts nothing.          *)
OverrunNeedsTwo == pc = "overrun" => i = 1 /\ "RD" \in revents[0]

Idle(c) == sock[c] \cap {"data", "fin", "rst"} = {}

(* read is called on a slot the last poll covered only when it will not    *)
(* wait, although other steps lie between poll and read.                   *)
PolledReadReady == pc = "read" /\ i <= polled => ~Idle(fd[i])

(* Handling only the new connections of a round, when the loop goes back   *)
(* to poll without a scan, leaves no event poll reported unhandled.        *)
SkipsNothing ==
  pc = "accept" /\ i = 2 /\ nready = 0 => \A s \in Slots : s <= polled => revents[s] = {}

(* Without other workers accept finds the connection poll reported.        *)
AcceptFinds ==
  pc = "accept" /\ i \in Listeners /\ "RD" \in revents[i] => backlog[i] # {}

Blocked ==
  \/ pc = "accept" /\ i \in Listeners /\ "RD" \in revents[i] /\ backlog[i] = {}
  \/ pc = "read" /\ Idle(fd[i])
  \/ pc \in {"reply", "write"} /\ sock[fd[i]] \cap {"full", "rst"} = {"full"}

(* A worker that is not stuck for ever in one accept, read or write visits *)
(* every connection poll would report, or closes it.                       *)
Served ==
  []<>~Blocked =>
    \A s \in Slots : (s \in Occupied /\ Reported(s) # {})
                       ~> ((pc = "settle" /\ i = s) \/ s \in Free)

(* What the documents say of the program, and the runs refute.             *)

(* report.md:152: a worker accepts nothing it has no room for.             *)
NoOverrun == pc # "overrun"

(* report.md:90: a Connection is triggered when poll saw an event on it,   *)
(* so its read finds something.                                            *)
ReadNeverWaits == pc = "read" => ~Idle(fd[i])
=============================================================================
