--------------------------------- MODULE Stream ---------------------------------
(***************************************************************************)
(* The line echo client and server of the unp library, str_cli and         *)
(* str_echo, over a TCP connection, with the loops that make whole lines   *)
(* of what read and write do: writen, and readline with its static buffer. *)
(*                                                                         *)
(* A byte is its number in the input; that of a newline is negative.  A    *)
(* read or write interrupted by a signal is made again, which is no step.  *)
(***************************************************************************)
EXTENDS Integers, Sequences

CONSTANTS
  MAXLINE,   \* size of the line buffers
  CAPACITY,  \* bytes TCP takes in one direction before write waits
  TYPED      \* bound on the bytes of the input

(* TCP and a server that reads byte by byte can hold a line, else client   *)
(* and server may wait for each other to read.                             *)
ASSUME StreamAssumption ==
  /\ MAXLINE \in Nat /\ MAXLINE >= 2 /\ CAPACITY \in Nat \ {0} /\ TYPED \in Nat
  /\ MAXLINE - 1 <= 2 * CAPACITY + 1

VARIABLES
  client,    \* where str_cli is
  typed,     \* bytes read from the input
  eof,       \* the input has ended
  sendline,
  unsent,    \* what writen has left of it
  recvline,
  read_buf,  \* the bytes of readline's buffer not yet used
  server,    \* where str_echo is
  echo,      \* what its writen has left
  up,        \* bytes on the way to the server
  down,      \* bytes on the way to the client
  broken     \* the connection was reset

input  == <<typed, eof, sendline>>
talk   == <<client, input, unsent, recvline, read_buf, server, echo, up, down, broken>>

StreamInit ==
  /\ client = "fgets" /\ typed = 0 /\ eof = FALSE
  /\ sendline = <<>> /\ unsent = <<>> /\ recvline = <<>> /\ read_buf = <<>>
  /\ server = "read" /\ echo = <<>>
  /\ up = <<>> /\ down = <<>> /\ broken = FALSE

Least(a, b) == IF a <= b THEN a ELSE b
From(s, n)  == SubSeq(s, n + 1, Len(s))
Upto(s, n)  == SubSeq(s, 1, n)

(* What one read into a buffer of MAXLINE bytes may take.                  *)
Readable_Filled(bytes) == {n \in {MAXLINE} : n <= Len(bytes)}
Readable(bytes) == 1 .. Least(Len(bytes), MAXLINE)

Whole(line) == line # <<>> /\ (line[Len(line)] < 0 \/ Len(line) = MAXLINE - 1)

-----------------------------------------------------------------------------
(* str_cli.                                                                *)

(* Fgets: a line with its newline, as much of it as there is room for, or  *)
(* the end of the input without one.                                       *)
Sizes_Whole == 1 .. MAXLINE
Sizes == 1 .. MAXLINE - 1

Fgets ==
  /\ client = "fgets" /\ ~eof
  /\ \E n \in Sizes : \E newline \in BOOLEAN :
       /\ typed + n <= TYPED
       /\ sendline' = [k \in 1 .. n |->
                         IF k = n /\ newline THEN -(typed + k) ELSE typed + k]
       /\ eof' = ~Whole(sendline')
       /\ typed' = typed + n
  /\ unsent' = sendline' /\ client' = "write"
  /\ UNCHANGED <<recvline, read_buf, server, echo, up, down, broken>>

(* writen: write takes some of the bytes, and the rest is written again.   *)
Advanced_Not(bytes, n) == Upto(bytes, Len(bytes) - n)
Advanced(bytes, n) == From(bytes, n)

Write ==
  /\ client = "write" /\ unsent # <<>> /\ server # "gone" /\ ~broken
  /\ \E n \in 1 .. Least(Len(unsent), CAPACITY - Len(up)) :
       up' = up \o Upto(unsent, n) /\ unsent' = Advanced(unsent, n)
  /\ UNCHANGED <<client, input, recvline, read_buf, server, echo, down, broken>>

(* The first write after the server has gone is answered by a reset.       *)
WriteReset ==
  /\ client = "write" /\ unsent # <<>> /\ server = "gone" /\ ~broken
  /\ broken' = TRUE /\ unsent' = <<>> /\ up' = <<>>
  /\ UNCHANGED <<client, input, recvline, read_buf, server, echo, down>>

(* SIGPIPE, or err_sys in Writen.                                          *)
WriteFails ==
  /\ client = "write" /\ unsent # <<>> /\ broken
  /\ client' = "gone"
  /\ UNCHANGED <<input, unsent, recvline, read_buf, server, echo, up, down, broken>>

Written ==
  /\ client = "write" /\ unsent = <<>>
  /\ client' = "read" /\ recvline' = <<>>
  /\ UNCHANGED <<input, unsent, read_buf, server, echo, up, down, broken>>

(* readline: my_read takes the next byte from read_buf.                    *)
Room(line) == Len(line) + 1 < MAXLINE

TakeByte ==
  /\ client = "read" /\ Room(recvline) /\ read_buf # <<>>
  /\ recvline' = Append(recvline, Head(read_buf))
  /\ read_buf' = Tail(read_buf)
  /\ client' = IF Head(read_buf) < 0 THEN "print" ELSE "read"
  /\ UNCHANGED <<input, unsent, server, echo, up, down, broken>>

LineFull ==
  /\ client = "read" /\ ~Room(recvline)
  /\ client' = "print"
  /\ UNCHANGED <<input, unsent, recvline, read_buf, server, echo, up, down, broken>>

(* my_read: the buffer is empty.                                           *)
Fill ==
  /\ client = "read" /\ Room(recvline) /\ read_buf = <<>>
  /\ \E n \in Readable(down) :
       read_buf' = Upto(down, n) /\ down' = From(down, n)
  /\ UNCHANGED <<client, input, unsent, recvline, server, echo, up, broken>>

(* The end of the connection: what readline has is returned like a line;   *)
(* err_quit if that is nothing.                                            *)
EndOfStream ==
  /\ client = "read" /\ Room(recvline) /\ read_buf = <<>> /\ down = <<>>
  /\ server = "gone" /\ ~broken
  /\ client' = IF recvline = <<>> THEN "gone" ELSE "print"
  /\ UNCHANGED <<input, unsent, recvline, read_buf, server, echo, up, down, broken>>

(* err_sys in Readline.                                                    *)
ReadFails ==
  /\ client = "read" /\ read_buf = <<>> /\ broken
  /\ client' = "gone"
  /\ UNCHANGED <<input, unsent, recvline, read_buf, server, echo, up, down, broken>>

Fputs ==
  /\ client = "print" /\ client' = "fgets"
  /\ sendline' = <<>> /\ recvline' = <<>>
  /\ UNCHANGED <<typed, eof, unsent, read_buf, server, echo, up, down, broken>>

(* Fgets returns NULL; the client returns from str_cli and exits.          *)
InputEnds ==
  /\ client = "fgets"
  /\ client' = "gone" /\ eof' = TRUE
  /\ UNCHANGED <<typed, sendline, unsent, recvline, read_buf, server, echo, up, down, broken>>

-----------------------------------------------------------------------------
(* str_echo.                                                               *)

ServerRead ==
  /\ server = "read" /\ ~broken
  /\ \E n \in Readable(up) :
       echo' = Upto(up, n) /\ up' = From(up, n)
  /\ server' = "write"
  /\ UNCHANGED <<client, input, unsent, recvline, read_buf, down, broken>>

ServerWrite ==
  /\ server = "write" /\ echo # <<>> /\ client # "gone"
  /\ \E n \in 1 .. Least(Len(echo), CAPACITY - Len(down)) :
       down' = down \o Upto(echo, n) /\ echo' = Advanced(echo, n)
  /\ UNCHANGED <<client, input, unsent, recvline, read_buf, server, up, broken>>

Echoed ==
  /\ server = "write" /\ echo = <<>>
  /\ server' = "read"
  /\ UNCHANGED <<client, input, unsent, recvline, read_buf, echo, up, down, broken>>

(* The client has gone: read returns 0, or an error if the client left     *)
(* bytes unread; writen fails.                                             *)
ServerEnds_NotAtEnd ==
  /\ client = "gone" /\ server = "write" /\ echo # <<>>
  /\ server' = "gone"
  /\ UNCHANGED <<client, input, unsent, recvline, read_buf, echo, up, down, broken>>

ServerEnds ==
  /\ client = "gone"
  /\ (server = "read" /\ (up = <<>> \/ down # <<>>)) \/ (server = "write" /\ echo # <<>>)
  /\ server' = "gone"
  /\ UNCHANGED <<client, input, unsent, recvline, read_buf, echo, up, down, broken>>

(* The server process dies.  If it leaves bytes unread the connection is   *)
(* reset, and what was on the way to the client may be lost.               *)
Dies ==
  /\ server \in {"read", "write"}
  /\ server' = "gone" /\ echo' = <<>> /\ up' = <<>>
  /\ IF up = <<>> THEN UNCHANGED <<down, broken>>
     ELSE broken' = TRUE /\ down' = <<>>
  /\ UNCHANGED <<client, input, unsent, recvline, read_buf>>

-----------------------------------------------------------------------------
ClientStep ==
  \/ Write \/ WriteReset \/ WriteFails \/ Written
  \/ TakeByte \/ LineFull \/ Fill \/ EndOfStream \/ ReadFails \/ Fputs
ServerStep == ServerRead \/ ServerWrite \/ Echoed \/ ServerEnds

StreamNext == Fgets \/ InputEnds \/ ClientStep \/ ServerStep \/ Dies

-----------------------------------------------------------------------------
(* Properties.                                                             *)

(* The variables have their types, and no line overruns its buffer.        *)
StreamTypeOK ==
  /\ client \in {"fgets", "write", "read", "print", "gone"}
  /\ server \in {"read", "write", "gone"}
  /\ eof \in BOOLEAN /\ broken \in BOOLEAN /\ typed \in 0 .. TYPED
  /\ Len(sendline) < MAXLINE /\ Len(recvline) < MAXLINE
  /\ Len(read_buf) <= MAXLINE /\ Len(echo) <= MAXLINE
  /\ Len(up) <= CAPACITY /\ Len(down) <= CAPACITY

(* However read and write cut the bytes, the client prints for each line   *)
(* that line, or a part of it if the server has gone, and nothing of it is *)
(* left to be taken for the next one.                                      *)
InStep ==
  /\ client = "print" =>
       \/ recvline = sendline
       \/ server = "gone" /\ recvline = Upto(sendline, Len(recvline))
  /\ client \in {"fgets", "print"} /\ server # "gone" =>
       up = <<>> /\ down = <<>> /\ read_buf = <<>> /\ echo = <<>>

(* Every line that ends with a newline, or fills the buffer, is answered,  *)
(* or the client ends.  The last line of an input that does not end with   *)
(* a newline leaves it waiting in readline for ever.                       *)
Answered ==
  Whole(sendline) ~> client \in {"print", "gone"}

(* The server notices that the client has gone.                            *)
Noticed == client = "gone" ~> server = "gone"
=============================================================================
