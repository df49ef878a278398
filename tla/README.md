# A TLA+ verification of simple-ftp

simple-ftp serves one directory (`../repo`) over TCP. A master process opens two
listening sockets, port 4000 (with banner and prompt) and port 4001 (without),
forks 8 workers and replaces any that exits. Each worker runs a `poll` loop over
its own table of 1024 entries: the two listeners, which all workers share, and
1022 slots for connections. Each slot has a `Connection` object that cuts what
its client sends into command lines, carries them out, sends files piece by
piece and stores uploads.

This directory holds TLA+ models of that program, TLC configurations that check
them on small instances, and TLAPS proofs for every value of the constants.
Line numbers below are those of `src/`, the repository's root.

## Inventory

| part | source | state | operations | interacts with |
|---|---|---|---|---|
| master | `src/server.cpp:19-57` | listening sockets, the set of children | `Loop`, `Fork` | workers, by `fork` and `waitpid` |
| worker poll loop | `src/server.cpp:59-140` | `fds` (fd, events, revents), `maxi`, `emptys`, `nready`, `socks` | re-arm, poll, accept, scan, trigger, close | kernel; other workers through the listeners; `Connection` by `Init`, `Trigger`, `IsEnd`, `ReadyToRead`, `MoreDataToWrite`, `Disconnect` |
| `Connection` | `src/connection.cpp` | `buf`/`pos`, `is_end`, `cli_enable`, `path`, `fd_to_send`, `close_after_sent`, `fd_to_write` | `Init`, `Trigger(read)`, `Trigger(write)`, `Disconnect` | its socket, files, the commands through `hooks` |
| commands | `src/connection.cpp:182-421` | `path`, the files of the repository | `ls cd mkdir rm rmdir cat recv up help` | path tools, file system tools |
| path tools | `src/tools.cpp:11-94` | none | `trim split clean path_join is_path_acceptable` | the commands |
| file system tools | `src/tools.cpp:96-173` | the repository, shared by all workers | `listdir mkdir rm rmdir filesize is_dir is_file is_exists` | the commands; other workers |
| unp wrappers | `unp/wrap*.c`, `unp/error.c` (third-party) | `errno` | one function per system call: return, retry, or `exit(1)` through `err_sys`, `err_quit` | everything above |
| unp connections | `unp/tcp_listen.c`, `tcp_connect.c`, `udp_*.c`, `connect_timeo.c`, `connect_nonb.c`, `signal.c` | descriptors, file status flags, SIGALRM | `tcp_listen` and its like, `connect_timeo`, `connect_nonb`, `Signal` | the master (`Tcp_listen`, `Signal`); programs that use the library |
| unp lines | `unp/readline.c`, `writen.c`, `str_cli.c`, `str_echo.c` | the static buffer of `readline`, line buffers | echo client and server | each other, over TCP |
| entry point | `apps/sftp.cpp` | none | logging, `Server::Loop` | master |

What is hard here, and what makes each part correct:

- **Poll loop.** Between `poll` and the `read` on an entry the loop accepts,
  serves and closes other connections, slots are reused and clients close or
  reset. The counters `maxi`, `emptys` and `nready` must agree with the table
  in every order, or a connection is forgotten, the worker stops listening, or
  the table is overrun. Every system call except `poll` blocks the whole worker,
  so each must be made only when it returns.
- **Workers together.** They poll the same blocking listeners; a connection one
  worker saw may be taken by another.
- **Failure of one connection.** Any failed write is `err_sys`: all connections
  of the worker are gone, and a new worker starts with an empty table.
- **Connection.** TCP cuts the stream anywhere: a read may hold half a line, or
  several lines, or an `up` line with the beginning of the file behind it. Each byte
  must be used once, in order, for the right purpose, and nothing complete may
  stay in `buf` when the loop returns to `poll`, which knows nothing of it.
  Objects are reused for one connection after the other.
- **Commands and files.** All workers share one directory, with checks that are
  separate from the acts they guard; the recursive `rmdir` works on lists that
  are out of date; uploads and downloads of one file overlap; paths are kept as
  typed and normalised by hand.
- **The master.** A worker may exit while the master is still forking, or while
  it replaces another one, and `fork` may fail.
- **The library.** Any call may fail at any place in a loop over addresses; a
  signal may come between any two calls; `errno` is read after other calls;
  lines are cut anywhere by `read` and `write`.

`PROJECT.json` lists these hazards one by one, at their lines, with the
properties that cover them or the reason why none does.

## Modules

| module | contents |
|---|---|
| `Worker` | one worker's poll loop, the kernel state it depends on, clients, other workers, replacement by the master |
| `WorkerProofs` | inductive invariant of `Worker` and the theorems |
| `Session` | abstract: the four modes of a connection (`images/state.png`) |
| `Connection` | one `Connection` object over the connections that use it in turn |
| `ConnectionProofs` | inductive invariant of `Connection`, the theorems, and the refinement of `Session` |
| `Server` | the master and all workers, on the two listening sockets, with clients |
| `ServerProofs` | inductive invariant of `Server` and the theorems |
| `Paths` | the string functions of `tools.cpp` |
| `FileTree` | the served directory as the kernel keeps it, and the wrappers of `tools.cpp` |
| `Repository` | the commands of several sessions on one directory, and their transfers; extends `FileTree`, `Paths` |
| `PathProofs` | what the functions of `Paths` and `FileTree` compute, by induction |
| `RepositoryProofs` | inductive invariants of the transfers, of the paths and of `rmdir`, and the theorems; extends `PathProofs` |
| `Calls` | the wrappers of `unp`: what each does with each result |
| `Dialing` | a program that calls wrappers, the loops over addresses, and the connects with a time limit; extends `Calls` |
| `Stream` | the line echo client and server |
| `Library` | programs made of `Dialing` or of `Stream` |
| `DialingProofs`, `StreamProofs` | their inductive invariants, as lemmas about steps |
| `LibraryProofs` | the theorems of `Library`, from both |
| `MCWorker`, `MCConnection`, `MCServer`, `MCRepository`, `MCLibrary` | instances for TLC |

### Worker

The variables carry the names of the code: `fd`, `events`, `revents`, `maxi`,
`emptys`, `nready`, and `i`, the loop variable of both `for` loops; `pc` is the
place in the loop. `is_end` and `sending` are what the loop asks the objects for
(`IsEnd`, `MoreDataToWrite`; `ReadyToRead` is the negation of the latter).
`polled` is a history variable: the last entry the last `poll` covered.
`backlog` and `sock` are kernel state: connections waiting at each listener, and
for each client which of unread data, FIN, RST, a pending error and a full send
buffer its connection has.

The loop is cut where the process can wait or where another actor can change
what the next call sees; code in between is one action.

| code | actions |
|---|---|
| `server.cpp:77-79` | `Rearm` |
| `:81` | `Poll`; entries above `maxi` keep their old `revents` |
| `:83-103` | `NotReady`, `Accept`, `AcceptFails` (`err_sys` of `Accept`), `AcceptReset` (banner to a reset connection), `Overrun` (no free slot) |
| `:105` | `Accepted` |
| `:107-118` | `Skip`, `Visit`, `Scanned` |
| `connection.cpp:52-115` as the loop sees it | `ReadData`, `FullBuffer`, `ReadEnd`, `Reply`, `NothingToWrite`, `WriteChunk`, `WriteDone`, `WriteFails` |
| `server.cpp:119-133` | `Close`, `Keep` |
| `:32-57` | `Respawn` after an exit (`Exit` is `err_sys`) |

What `Trigger` does is nondeterministic here within what `Connection` can do.
`AcceptFails` is `accept` failing for want of a descriptor or of memory, which
ends the worker; it may happen whenever there is a connection to accept, and no
fairness makes it happen. The out-of-bounds access after `Overrun` is undefined; of its outcomes a crash of
the process (`Crash`) is explored, and the violation is reported where the
search leaves the table. Clients that may reset are the constant `Abrupt`; a
client has one connection at a time, so its name stands for the descriptor.

### Connection and Session

`Connection` models what the client sends as words and newlines. A line that is
one of `cat`, `recv`, `up` stands for that command with its arguments; `fopen`
may fail or succeed. Every other line is `Plain`: it has no effect on the fields of
the connection the model has, and may or may not write an answer. Wrong arguments and refused paths
are `Plain` too, whatever the command. `buf` is the sequence of the first `pos`
items, `fd_to_send` the number of `BUFFSIZE` pieces left to send (`NoFile` is
NULL), `fd_to_write` whether a file is open for the upload, `file` its content.
`rx` is what the kernel holds, `input` and `handled` record all the client sent
and all that was taken as command lines. `pc` is the place in Progress: `poll`,
`parse` (in the loop of `connection.cpp:78`), `second` (after `Trigger(true)`,
before a possible `Trigger(false)`), `settle`, `closed`, `exited`.

With `INTERACTIVE = TRUE` a client begins a line only when the previous one has been
answered and the file it asked for has arrived; with `FALSE` it sends at will,
as the examples in `README.md` do with `echo ... | cat - file | nc`.

`Session` has no buffer, reads or events: a connection is in mode `normal`,
`write`, `write-close`, `read` or `closed`; in `normal` the next line is carried
out, in `write` nothing is, in `read` input goes to the file. `Connection`
refines it with `mode` computed from `is_end`, the two files and
`close_after_sent`, and `inbox` = `buf \o rx`.

### Server

`Server` is the composition that `Worker` leaves to its environment (`Steal`,
`Respawn`): the master with its children, and every worker with a `poll`, an
accept loop and a scan, on the same two queues. A worker is reduced to where it
can wait (`pc` is `poll`, `accept` or `serve`) and to what it remembers from
its last poll: `seen`, the listeners reported and not accepted from yet, and
`due`, the connections reported and not served yet. `held` is its table.

| code | actions |
|---|---|
| `server.cpp:27-30`, `:37`, `:41-57` | `Forked`, `ForkFails` |
| `:27` to `:32` | `Serving` |
| `:35` | `Waitpid`; `Adopted` is init's, when the master has gone |
| `:77-81` | `Poll` |
| `:83-103` | `Accept`; `Waits` is the state of a worker left to wait in `accept` |
| `:105` | `Accepted` |
| `:107-134` | `Serve`, `Served` |
| `err_sys` | `Exit`, among others of an `accept` that fails |
| `:92` past the end of `fds` | `Accept` with a table that is full already, or `Overrun` |

`Accept` does not ask for a free slot, as the code does not. What the
second accept of finding 1 then leads to is undefined; two outcomes are explored:
the worker goes on with an entry more than it has slots, or it crashes.
`emptys` is compared with 0 at the next round only, so `HasRoom` is that the
table has not exactly `SLOTS` entries, and no property bounds the table.
A worker waiting in `accept` has no step: the model really stops when all wait.
Stale `revents` (finding 2) are left to `Worker`.

### Paths, FileTree and Repository

A string is a sequence of tokens: `/`, `\`, the space, `.`, `..`, and names. A
name is one token, so `Split`, `Trim`, `Clean`, `Join` and `Acceptable` do what
`split`, `trim`, `clean`, `path_join` and `is_path_acceptable` do, at the
length of a name. `Clean` keeps the length of its vector, as the code does.

`FileTree` knows entries by their place, the names from the base down; nothing
in the program renames. `Walk` resolves a path string node by node as the kernel
does: every node but the last must be a directory, `..` of the base leads
`Outside`. The base is `../repo`, so `Walk` starts behind these two nodes.

`Repository` has a session per worker: sessions of one worker do not interleave
within a command, those of different workers do between any two system calls.

| code | actions |
|---|---|
| `connection.cpp:76-87`, `:152-170`, the checks of each command | `Commanded`, `Begin`: the words of a line from `Lines` |
| `:202-237` `cd` | `Cd`, with its `stat` |
| `:239-312` `mkdir`, `rm`, `rmdir` | `Check` (`stat`), then `Mkdir`, `Rm` or the calls of `rmdir` |
| `tools.cpp:137-147` | `RmdirStart`, `RmdirFile`, `RmdirSub`, `RmdirSelf`; `stack` has a record per recursive call: directory and entries left of its list |
| `connection.cpp:314-374` `cat`, `recv` | `Download`; in `OpenFails`, `CatFails` and `RecvFails` |
| `:376-408` `up` | `Overwrite`, `Create`; in `OpenFails`, `UpFails` |
| `:102-113` | `SendPiece`, `CatDone`, `RecvDone` |
| `:89-93` | `Receive`; `Flush` and `FlushFails` are stdio's own writes, at the latest those of `fclose` |
| `:44-50` | `Disconnect`, in `Hang`, `RecvDone` and `Die` |
| the client, the worker's end | `Reset`; `Die`, `Fork` |

A file is an inode with blocks: a name may go while the file is open.
`sending`, `source` and `sent` are `fd_to_send` with what sent it, the inode
behind it and the blocks sent so far; `ino`, `off` and `data` are `fd_to_write`.

Clients need not wait. The parse loop handles every line of a read, so a `cat`
may be followed by other commands before the first piece of its file is sent,
by another `cat`, which replaces the file (finding 3), or by an `up`, so that one
connection sends and receives. `Commanded` allows this as long as `Reading`
holds: no file is to be sent, or no piece of it has been sent, or the
client has reset the connection, whose error makes the loop read what was left.
After the first piece the connection is polled for room only. A file that cannot
be opened sets `is_end` and nothing else: the path stays, and the lines
behind it are still handled, until the connection ends (`Hang`).

`touched` is a history variable of pairs of a session and an activity, `"rmdir"`,
`"send"` or `"up"`: others, or for uploads the disk, have interfered with it. It
is set exactly where another session opens the same file for writing, changes what is below a
directory being removed, or what a path with `..` in it leads through; the properties
about single commands exclude those, and no others.

Commands whose checks fail, `ls` and `help` only answer; they are no steps.

### Calls, Dialing, Stream and Library

The third-party library `unp` is in the repository, and simple-ftp calls
`Tcp_listen`, `Signal` and six wrappers of it. `Calls` says of every wrapper of
`wrapsock.c`, `wrapunix.c`, `wrappthread.c`, `wrapstdio.c` and `wraplib.c` what
it does when what it wraps is done, does a part, does nothing or fails: return,
call again, `err_sys` or `err_quit`, and what `errno` is then. `Retried` are the two
errors after which `Accept` calls `accept` again, `ECONNABORTED` and `EPROTO`.

`Dialing` is a process that calls them, and the functions made of them. The
five loops over addresses differ in three places and are one walk with a record
each: `set`, what must work for every address; `use`, what decides; `then`, what
must work in the end.

| code | actions |
|---|---|
| `tcp_listen.c`, `tcp_connect.c`, `udp_client.c`, `udp_server.c`, `udp_connect.c` | `Getaddrinfo`, `NoAddress`, `GetSocket`, `NoSocket`, `Prepare`, `Works`, `Refused`, `CloseIt`, `NextAddress`, `Exhausted`, `WrapperFails`, `Dialled` |
| `connect_timeo.c` | `Install`, `SetAlarm`, `TimeoConnects`, `TimeoFails`, `Disarm`, `Reinstall` |
| `connect_nonb.c` | `Nonblock`, `NonbConnects`, `InProgress`, `NonbFails`, `NonbLate`, `Ready`, `RestoreFlags` |
| SIGALRM | `AlarmInterrupts` a call, `AlarmPasses` unnoticed, `AlarmKills` |

`why` is a history variable: what went wrong last in the call under way; `mine`
is the descriptors the caller knows of. `fds` keeps for each descriptor whether
it blocks, whether it did before, and what it is.

`Stream` is `str_cli` and `str_echo` over a TCP connection of bounded capacity:
`writen` writes what `write` took, `readline` takes bytes from its static buffer
`read_buf` and fills it. A byte is its position in the input, negative for a
newline, so that lost, repeated and reordered bytes show. `Dies` is the death of
the server, with a reset if it leaves bytes unread.

`Library` puts the two side by side: a behaviour is one of either program.

## Runs

| run | instance | shows |
|---|---|---|
| `worker_shared` | 4 entries (2 slots), 2 workers, 3 clients, no resets, symmetry | `TypeOK EmptysExact Covered Armed PolledReadReady SkipsNothing OverrunNeedsTwo` |
| `worker_alone` | 4 entries, 1 worker, 2 clients, one of which may reset | `AcceptFinds`, and `Served` under fairness |
| `worker_overrun` | 3 entries, 2 clients | refutes `NoOverrun` |
| `worker_stale` | 4 entries, 2 clients | refutes `ReadNeverWaits` |
| `connection_eager` | `BUFFSIZE` 3, files of 1 piece, 5 items of input | `TypeOK Framing NothingLeftBehind`, and `Ends` under fairness |
| `connection_interactive` | `BUFFSIZE` 4, files of 1 piece, 6 items of input | `ImplementsSession` |
| `connection_piped` | the same with 4 items, clients that do not wait | refutes `ImplementsSession` |
| `connection_failed_up` | the same | refutes `AfterUpIsData` |
| `repository` | 2 sessions, 16 command lines over names `a`, `b`, one of which (`mkdir b`) may be sent for ever, three trees, 3 files, 3 other commands, uploads of 1 block, a disk that may be full | `TypeOK Inside StaysInGoal RmdirRemoves UploadIntact DownloadIntact`, and `CommandsEnd` under fairness |
| `repository_up` | 1 session, 5 command lines, 4 commands | refutes `UpIsParent` |
| `server` | 2 workers with 2 slots, 3 clients, one exit or failed fork | `TypeOK Population SomeonePolls`, and `Replaced`, `AllAccepted` under fairness |
| `library` | 2 descriptors, 2 addresses, a wrapper of each kind; lines of up to 3 bytes, capacity 2, 5 bytes of input | `DialTypeOK NoLeak Blame FirstWorks Restored NotKilled StreamTypeOK InStep`, and `Answered`, `Noticed` under fairness |

**Bounds.** Two slots are the fewest with a hole below a used one, so that
`maxi`, first-free search and stale entries matter; three clients are one more
than there are slots, so that the table fills while connections wait. Clients
come back after their connection is closed, without a bound on how often. In
`Connection` five items are enough for a cat line, an up line and file data, and
exceed a buffer of three, so lines arrive in pieces and the buffer fills without a
newline; `LIMIT` bounds the input of one connection, the number of connections is
not bounded. A file of one piece needs one `WriteChunk` and one `SendDone`; zero
pieces is the empty file.

In `repository` three commands are enough for two that overlap after one that
prepared the path or the tree. The lines have the forms the path functions
tell apart: relative, from the root, `..`, a trailing slash, up and down
again, and a slash where none is allowed. The line `cd a/b/../..` is there for
paths that lead through what is removed. The trees have a directory with a file in
it beside an empty one, a directory with a directory in it, or a file. The files
there at the start have two blocks, so that there is a block before and one
after another session's step; an upload has one, which may overwrite, be held
back by stdio, or be lost. `mkdir b` is not counted: one session can make `b` in
the directory it is in each time the other's `rmdir` has removed it, for ever,
and `CommandsEnd` holds because a call of `rmdir` works on the list it made when
it began. To be led ever deeper it would have to find a new directory at
each level, and its adversary needs a `cd` for each, which `COMMANDS` bounds here
and the length of a path the system accepts bounds in the program.
In `server`
two identifiers are used again when a worker is replaced; `EXITS` bounds exits and
failed forks together, the crash of an overrun is not bounded. In `library` two addresses are
the last one and one that is not; `CAPACITY` 2 is the least for which lines of
`MAXLINE - 1` cannot stop both sides (`StreamAssumption`), five bytes are
two lines.

**Fairness.** `FairSpec` of `Worker` is weak fairness of `Process`: the kernel
runs a process that is not waiting in a system call. No client, reset, drain or
other worker is fair. `Served` therefore has the premise `[]<>~Blocked`: the
worker is not stuck for ever in one `accept`, `read` or `write`. That premise can
fail in the program, see the findings and hazards; the property says that
nothing else can keep a connection from being served. `FairSpec` of `Connection` is
weak fairness of `Trigger`: the worker serves what `poll` reports, and the
client reads what it is sent.

`FairSpec` of `Repository` is weak fairness of `Work`, the steps of a command
that waits for nobody. Clients, deaths, replacements and the flushes of stdio are not
fair.

`FairSpec` of `Server` is weak fairness of the master and of each worker's own
steps, of which a worker in `accept` with an empty queue has none. `Waitpid` is
strongly fair for each child: `waitpid` goes through the children in the order
of their forks, so that younger ones that exit again and again do not keep an
old one from being reaped. `AllAccepted` has the premise that there is, again
and again, a worker that has come to poll with room in its table: with all
workers in `accept` on different ports, or with full tables of silent
clients, nobody is accepted.

`Spec` of `Library` is weak fairness of the echo client and of its server as processes;
the input and the death of the server are not fair.

Deadlock is checked in the passing runs except `server`, where all workers may
come to wait in `accept` (see `SomeonePolls`), and `library`, where programs end.

## What the code does against its documents

1. *Overrun of the table* (`NoOverrun`, against `report.md:152`). `emptys` is
   tested once per round, but a round accepts from both listeners. With one free
   slot the second search runs past `fds`. `OverrunNeedsTwo` shows that this is
   the only way.
2. *Stale `revents`* (`ReadNeverWaits`, against `report.md:90`). `Close` does not
   clear `revents` and `poll` does not cover slots above `maxi`; a connection
   accepted into such a slot is triggered for its predecessor's event and the
   worker waits in `read`. `PolledReadReady` shows that covered entries are safe.
3. *Commands while a file is sent* (`ImplementsSession` for clients that do not
   wait, against `report.md:94` and `:142`).
4. *Data as commands after a failed `up`* (`AfterUpIsData`, against
   `report.md:138`).
5. *`cd ..` does not always go up* (`UpIsParent`, against the comment at
   `connection.cpp:208`). Paths are kept as typed and `cd ..` drops the last
   node: after `cd a` and `cd b/..` the path is `a/b/..`, and `cd ..` leads
   into `a/b`. `Inside` shows that no path leads above the base all the same.

Not findings of a run, but worth knowing:

- A client that resets its connection ends the worker, and with it every
  connection the worker has, since a failed `Write` is `err_sys`
  (`wrapunix.c:262`): `WriteFails` of `Worker`. `report.md:88` calls this abnormal,
  and the master replaces the worker. An `accept` that fails does the same.
- All workers can come to wait in `accept`, some for each port, while
  connections they hold ask; `SomeonePolls` says that they never all wait for
  port 4000.
- `rmdir .` and `rmdir ..` remove what is in the directory and leave it, since
  `rmdir(2)` refuses such paths. So does an `rmdir` whose path leads through what it
  removes: after `cd a/b/../..`, which leaves the path `a/b/../..` as it was
  typed, `rmdir a` is for `a/b/../../a`; it removes `b`, and then its own path
  leads nowhere. `RmdirRemoves` says that these are the only cases: if nobody
  interferes, the directory goes exactly when the path is of neither kind.
- `clean` does not shorten its vector, against `tools.h:12`. It never gets an empty
  string, as `TypeOK` of `Repository` shows for the commands.
- `Write` and the `Send` wrappers print a stale `errno` for a short count; `Blame`
  excludes it.
- `connect_timeo` misses an alarm that goes off before `connect` is called, and
  then waits as long as `connect` does.

## Proofs

All proofs are about the behaviours of `Spec`; none uses fairness. They rest on
the named assumptions on the constants, which TLC evaluates in the runs:
`WorkerAssumption` (a slot, a worker, `NoFd` not a client),
`ConnectionAssumption` (a buffer of at least one item, `NoFile` not a number),
`ServerAssumption` (a worker, a slot, finitely many identifiers and enough of
them), `PathsAssumption` (no name is a separator or a dot), `FileTreeAssumption`
(`NameOrder` has every name once: `listdir` sorts), `RepositoryAssumption`
(`Lines` are strings; the initial trees are trees, `IsTree`, whose files are in
`Inode`), `DialingAssumption` (a descriptor, an address, `Called`
are wrappers) and `StreamAssumption` (`MAXLINE` at least 2; only `Answered`,
which is not proved, needs the capacity).

**Worker.** None of the properties is inductive. `IInv` adds

- `Position`: where `i` can be at each `pc`; a trigger runs on an occupied slot;
- `OneConnection`: a client is in one slot or one backlog, so a step on one
  connection changes no other connection's socket;
- `ErrorIsReset`: a pending error comes with a reset, so `POLLERR` means that
  `read` returns;
- `ArmedAlways`: `Armed` at every point of the round but for the slot being
  triggered;
- `ReportsHold`: what `poll` reported for the slots still to be visited is still true,
  and free slots have nothing reported while accepting;
- `RoomToAccept`: a listener is reported only if there was a free slot, and
  after the first accept only the second can lack one;
- `Counted`: `nready` is the number of entries reported and not accepted yet, the argument
  behind `SkipsNothing`;
- `ReadForEvent`: `Trigger(true)` follows `POLLRDNORM` or `POLLERR`.

Each conjunct has its lemma with a step per action. Theorems: `TypeCorrect`,
`EmptysCounts`, `NoneForgotten` (`Covered`, `Armed`), `ReportsAreHandled`
(`PolledReadReady`, `SkipsNothing`), `OverrunIsSecond` (`OverrunNeedsTwo`), and
`AcceptAloneFinds` (`AcceptFinds` if `PROCESSES = 1`).

**Connection.** `Framing` needs to know that nothing has been written to a file
before `up` (`FileFromUp`), or a line handled would land behind file data; and
`NothingLeftBehind` must hold from the end of the parse loop on (`Parsed`). The
rest is regrouping sequences (`Cut`, `CutAt`, `Regroup`). Theorems:
`TypeCorrect` (which has that `buf` is not filled past its end), `BytesInOrder`
(`Framing`), `BufferIsDrained`.

**Server.** `IInv` has the types, the number of children (`Population`), bounded
also when the master has gone (`Counted`), `SeenInAccept`, that only
a worker in its accept loop has listeners left to accept from, and `Crew`,
the reason for `SomeonePolls`: in a complete crew some worker either has nobody
to accept on port 4000 or finds somebody queued there. A worker that takes the
last one from the queue becomes that worker itself, since it has now accepted from port 4000;
when a crew becomes complete it is by a fork, and the new worker has no
listeners yet. Theorems: `TypeCorrect`, `PopulationKept`, `NeverAllWait`.

**Session.** `SessionIsImplemented` is the refinement: for clients that wait for
each answer (`INTERACTIVE`) every step of `Connection` is, with `mode`, `inbox`
and `done` taken from the object's fields, the socket and what was handled, a step of
`Session` or leaves its variables alone. It needs, besides `IInv`, that such clients are
`Polite`: among the bytes received or under way at most the last ends a line
(`OneLine`), none does while a file is being sent (`NoneWhileSending`), and none is left to
be handled when the connection is about to end (`NoneAfterEnd`). Without this the
parse loop would handle a second line where `Session` awaits the end of a file,
as finding 3 does.

**Paths.** The functions on strings are recursive, and the theorems need what
they compute for every length. The library's induction rules take an operator as
a parameter, which the provers cannot instantiate; `PathProofs` states
induction for sets instead: a set with 0, and with each number its successor, has all
numbers (`SetInduction`, from the well-foundedness of the subsets of a finite
set; `SequenceInduction` is the same for sequences). To prove a formula it is
applied to the set of numbers or sequences for which the formula holds.
`Recursion` does the same for recursive definitions: the function exists, and
has the values its definition gives. From these follow

- `SplitStrings`, `WordsAreRuns`, `CleanKeeps`: the words of a line are non-empty
  strings, so the fault of `clean` stays latent;
- `MeantType`, `JoinNode`: what `path_join` makes, node by node; `NodesOfFilePath`:
  its nodes are the base's and then those it was given;
- `AcceptableIff`, `AcceptableMore`, `AcceptableStart`: `is_path_acceptable` accepts
  a path exactly if no prefix of it goes above the base, so a prefix of an
  acceptable path is acceptable, which is why `cd ..` is safe;
- `WalkArrives`: the kernel's walk along an acceptable path leads to its
  `Lexical` place if the places on the way (`Way`) are directories, else nowhere;
- `ListdirIs`: `listdir` has each entry of its directory once.

**Repository.** There are three invariants.

`IInv`, for the transfers, has four parts. `Typed`; `Uploading`: a session whose
upload is not `touched` is alone with the file it writes, and what it has flushed is the
start of what it received; `Downloading`: a session whose download is not
`touched` has no writer of its file, and what it has sent is the start of
the file; and `Orderly`: a session that has sent a piece still sends, and its
connection is not about to end unless its client has reset it. `Orderly`, with
`Reading` in every step that handles a line, is why `DownloadIntact` holds for clients that send what they
like behind a `cat`: a file that is replaced is replaced before its first
piece. The invariant makes no use of what paths mean: a new file takes an inode
nobody has open, whatever the name. Theorems: `UploadsAreIntact`,
`DownloadsAreIntact`.

`PathInv`, for the paths, has that the directory is a tree (`Shaped`), that the path of
a session is acceptable and its command's is one that was joined from an
acceptable path which means `goal` (`Directed`), and that each call of `rmdir`
is for an entry of its caller's directory, at or below `goal` (`Nested`). A system
call then changes nothing but the place its string means, by `WalkArrives`,
whatever has become of the tree since the check. Theorems: `TypesAreKept`,
`PathsStayInside`, `CommandsStayInGoal`.

`RemoveInv`, for the end of `rmdir`, speaks of sessions nobody has
interfered with: the way of the path is there, each open call has its
directory and a list of entries that are there (`IsListing`), no directory is on
the list of the call it came from, and every entry still below the goal is in
something on a list or is the directory of an open call (`Complete`, `Covered`). So
when the last call has an empty list nothing but its directory is left, and `rmdir(2)`
succeeds. It needs that nobody else's step takes away from or adds to the
directory (`Spares`), for which `touched` was set wherever that is possible.
`Clear` is the condition on the path; when it fails the directory is still
there at each step (`Safe`), which is the other half of `RmdirRemoves`. Theorem:
`RemovalsAreComplete`. `PathInv` and `RemoveInv` were checked with TLC on
the instance of `repository` before they were proved.

**Library.** Each program has its invariant, and a step of one leaves the other
alone (`InvStep`). That of `Dialing` has a part per concern, each proved by
itself: `Typed`; `Kept`, whose open descriptors are at each step; `Clock`, where
the caller's handler is and that the alarm of `connect_timeo` runs only while
`connect_alarm` is installed; `Modes`, which sockets are non-blocking; `Tried`,
that the addresses before the current one do not work, for which a free
descriptor is needed before each `socket`; `Blamed`, what `errno` has to be
before somebody is told. That of `Stream` is `OneLine`: what `readline` has, the
bytes in its buffer, on the way back, in the server, on the way there and left
to be written are together the line under way, or the start of it once the
server has gone; with `Between` (between lines nothing is on the way),
`Printed` and `OneNewline`. Theorems: `TypesCorrect`, `NothingLeaks`,
`ErrnoIsTrue`, `FirstIsTaken`, `CallerIsRestored`, `AlarmIsHandled`,
`EchoInStep`.

**Only model-checked.** The liveness properties `Served`, `Ends`, `CommandsEnd`,
`Replaced`, `AllAccepted`, `Answered` and `Noticed`: liveness under fairness and
`ENABLED` are beyond the prover. The runs that refute a property are
counterexamples and need no proof. Every other property of a passing run is the
subject of a theorem.

## Not modelled

- What `ls` and `help` answer, file sizes, and all wording; file types other
  than directories and regular files; permissions.
- The number of descriptors of a worker: `AcceptFails` of `Worker` and `Exit` of
  `Server` may happen at any accept instead. `malloc`
  failing; `EINTR` from `poll` (no signal handler is installed).
- Read errors other than `ECONNRESET` are in `Worker` (`ReadEnd` may leave
  `is_end`) and not in `Connection`.
- `Connection` is triggered for what its socket reports; a trigger for a stale
  `revents` (finding 2) is in `Worker` only.
- Sessions that share a worker: in `Repository` each has its own, which allows
  every interleaving they can have and more.
- The overlapping `memcpy` at `connection.cpp:85` is modelled as the forward
  copy it was meant to be.
- Of `unp`: the datagram, multicast, interface, `pselect` and descriptor-passing
  functions, conversions of addresses, and `daemon_init`. simple-ftp calls none
  of them. A handler for SIGALRM of the caller's own may be installed, one for another
  signal with `signal_intr` may not.
- `apps/sftp.cpp` and logging.

## Plan

1. Done: `Worker`, `Connection` and `Session`, `Server`, `Paths`, `FileTree`,
   `Repository`, `Calls`, `Dialing`, `Stream`, `Library`; the refinement of
   `Session`; a theorem for every safety and action property.
2. Proofs: the step behind `CommandsEnd`, that each step of an `rmdir` nobody
   interferes with takes something from what its calls have left.
3. `Worker` with `Connection`: the outcomes of `Trigger` in `Worker` derived from
   `Connection` rather than chosen.
