----------------------------- MODULE Connection -----------------------------
(***************************************************************************)
(* One Connection object of simple-ftp, from Init to Disconnect and over   *)
(* the connections that use it in turn: how Trigger cuts what a client     *)
(* sends into command lines, how up turns the rest into file data, and how *)
(* cat and recv send a file in pieces.                                     *)
(*                                                                         *)
(* What a client sends is a sequence of words and newlines; a line holding *)
(* one of the words cat, recv or up alone is that command with its         *)
(* arguments, any other line is a command that only answers.  A file to    *)
(* send is the number of BUFFSIZE reads left in it.                        *)
(***************************************************************************)
EXTENDS Integers, Sequences

CONSTANTS
  BUFFSIZE,     \* room in buf, in words and newlines
  CHUNKS,       \* length of the longest file sent
  LIMIT,        \* how much a client sends over one connection
  INTERACTIVE,  \* clients wait for the answer to a command before they go on
  NoFile        \* the NULL of fd_to_send

Word == {"ls", "cat", "recv", "up"}
NL   == "\n"

ASSUME ConnectionAssumption ==
  /\ BUFFSIZE \in Nat \ {0} /\ CHUNKS \in Nat /\ LIMIT \in Nat
  /\ INTERACTIVE \in BOOLEAN
  /\ NoFile \notin Nat

VARIABLES
  pc,                \* what Progress is doing with the object
  cli_enable, buf, is_end, fd_to_send, close_after_sent,
  fd_to_write,       \* a file is open for what the client sends
  file,              \* what has been written to it
  rx,                \* received by the kernel and not read yet
  peer,              \* the client's end: "open", "fin" (closed) or "rst" (reset)
  input, handled     \* everything the client sent; what was taken as command lines

object  == <<cli_enable, buf, is_end, fd_to_send, close_after_sent, fd_to_write>>
network == <<rx, peer, input>>
vars    == <<pc, object, file, network, handled>>

(* A new process: the slot is free, the object has not been used.          *)
Init ==
  /\ pc = "closed" /\ cli_enable = FALSE /\ buf = <<>> /\ is_end = FALSE
  /\ fd_to_send = NoFile /\ close_after_sent = FALSE /\ fd_to_write = FALSE
  /\ file = <<>> /\ rx = <<>> /\ peer = "open" /\ input = <<>> /\ handled = <<>>

-----------------------------------------------------------------------------
(* The client.                                                             *)

Live == pc \notin {"closed", "exited"}
Sent == {buf[k] : k \in 1 .. Len(buf)} \cup {rx[k] : k \in 1 .. Len(rx)}

(* An interactive client sends its next line when the last one is answered *)
(* and the file it asked for has arrived; upload data it sends at will.    *)
Send(t) ==
  /\ Live /\ peer = "open" /\ Len(input) < LIMIT
  /\ INTERACTIVE => fd_to_write \/ (NL \notin Sent /\ fd_to_send = NoFile)
  /\ rx' = Append(rx, t) /\ input' = Append(input, t)
  /\ UNCHANGED peer

Hang ==
  /\ Live
  /\ \/ peer = "open" /\ peer' = "fin"
     \/ peer # "rst" /\ peer' = "rst"
  /\ UNCHANGED <<rx, input>>

Peer ==
  /\ Hang \/ \E t \in Word \cup {NL} : Send(t)
  /\ UNCHANGED <<pc, object, file, handled>>

-----------------------------------------------------------------------------
(* Connection::Init, called for the next connection of the slot.           *)

Emptied == <<>>

Accept ==
  /\ pc = "closed" /\ pc' = "poll"
  /\ cli_enable' \in BOOLEAN
  /\ buf' = Emptied /\ is_end' = FALSE
  /\ fd_to_send' = NoFile /\ close_after_sent' = FALSE /\ fd_to_write' = FALSE
  /\ file' = <<>> /\ rx' = <<>> /\ peer' = "open" /\ input' = <<>> /\ handled' = <<>>

(* Init writes banner and prompt on port 4000: to a connection that was    *)
(* reset before it was accepted, the process ends.                         *)
AcceptReset ==
  /\ pc = "closed" /\ pc' = "exited"
  /\ UNCHANGED <<object, file, network, handled>>

(* ReadyToRead and MoreDataToWrite, what Progress sets events from.  A     *)
(* reset is reported as an error whatever events says.                     *)
ReadyToRead_NotUploading == fd_to_send = NoFile /\ ~fd_to_write
ReadyToRead == fd_to_send = NoFile
Readable == pc = "poll" /\ (ReadyToRead \/ peer = "rst")

-----------------------------------------------------------------------------
(* Trigger(true).                                                          *)

FullBuffer ==
  /\ Readable /\ Len(buf) = BUFFSIZE
  /\ rx # <<>> \/ peer # "open"
  /\ is_end' = TRUE
  /\ pc' = IF peer = "rst" THEN "exited" ELSE "second"
  /\ UNCHANGED <<cli_enable, buf, fd_to_send, close_after_sent, fd_to_write,
                 file, network, handled>>

Room_Whole == BUFFSIZE
Room == BUFFSIZE - Len(buf)
Least(a, b) == IF a < b THEN a ELSE b

Read ==
  /\ Readable /\ Len(buf) < BUFFSIZE /\ rx # <<>>
  /\ LET n == Least(Len(rx), Room) IN
       /\ buf' = buf \o SubSeq(rx, 1, n)
       /\ rx' = SubSeq(rx, n + 1, Len(rx))
  /\ pc' = "parse"
  /\ UNCHANGED <<cli_enable, is_end, fd_to_send, close_after_sent, fd_to_write,
                 file, peer, input, handled>>

ReadEnd ==
  /\ Readable /\ Len(buf) < BUFFSIZE /\ rx = <<>> /\ peer # "open"
  /\ is_end' = TRUE /\ pc' = "second"
  /\ UNCHANGED <<cli_enable, buf, fd_to_send, close_after_sent, fd_to_write,
                 file, network, handled>>

FirstNewline(n) ==
  /\ n \in 1 .. Len(buf) /\ buf[n] = NL
  /\ \A k \in 1 .. n - 1 : buf[k] # NL

(* One turn of the parse loop: Handle gets the line that ends at n, the    *)
(* rest moves to the front of buf.                                         *)
Line(n) == SubSeq(buf, 1, n - 1)

Rest(n) == SubSeq(buf, n + 1, Len(buf))

Parsing_Always == pc = "parse"
Parsing == pc = "parse" /\ ~fd_to_write

TakeLine(n) ==
  /\ Parsing /\ FirstNewline(n)
  /\ buf' = Rest(n)
  /\ handled' = handled \o Append(Line(n), NL)
  /\ UNCHANGED <<cli_enable, file, network>>

(* The answer, and the prompt of port 4000; writing to a reset connection  *)
(* ends the process.                                                       *)
Answer_Once(writes) == pc' = "second"
Answer(writes) ==
  pc' = IF peer = "rst" /\ (writes \/ (cli_enable /\ fd_to_send' = NoFile))
        THEN "exited" ELSE "parse"

(* Blank lines, ls, cd, mkdir, rm, rmdir, help, unknown commands, and cat, *)
(* recv and up with wrong arguments: no effect on the connection.          *)
Plain(n) ==
  /\ TakeLine(n)
  /\ UNCHANGED <<is_end, fd_to_send, close_after_sent, fd_to_write>>
  /\ \E writes \in BOOLEAN : Answer(writes)

(* fopen of the file to send: NoFile if it fails.                          *)
Opened == {NoFile} \cup 0 .. CHUNKS

Cat(n) ==
  /\ TakeLine(n) /\ Line(n) = <<"cat">>
  /\ fd_to_send' \in Opened /\ close_after_sent' = FALSE
  /\ Answer(fd_to_send' = NoFile)
  /\ UNCHANGED <<is_end, fd_to_write>>

Recv(n) ==
  /\ TakeLine(n) /\ Line(n) = <<"recv">>
  /\ fd_to_send' \in Opened /\ close_after_sent' = TRUE
  /\ is_end' = (is_end \/ fd_to_send' = NoFile)
  /\ Answer(fd_to_send' = NoFile)
  /\ UNCHANGED fd_to_write

Up(n) ==
  /\ TakeLine(n) /\ Line(n) = <<"up">>
  /\ fd_to_write' \in BOOLEAN /\ is_end' = (is_end \/ ~fd_to_write')
  /\ Answer(TRUE)
  /\ UNCHANGED <<fd_to_send, close_after_sent>>

(* The loop ends; what is in buf after up goes to the file.                *)
Stored_Kept == buf
Stored == <<>>

EndParse ==
  /\ pc = "parse"
  /\ fd_to_write \/ \A n \in 1 .. Len(buf) : buf[n] # NL
  /\ IF fd_to_write
     THEN file' = file \o buf /\ buf' = Stored
     ELSE UNCHANGED <<file, buf>>
  /\ pc' = "second"
  /\ UNCHANGED <<cli_enable, is_end, fd_to_send, close_after_sent, fd_to_write,
                 network, handled>>

-----------------------------------------------------------------------------
(* Trigger(false): for a file to send, and after Trigger(true) if the error *)
(* of a reset connection was reported too.                                 *)
WriteEvent == pc = "poll" \/ (pc = "second" /\ peer = "rst")

SendChunk ==
  /\ WriteEvent /\ fd_to_send # NoFile /\ fd_to_send > 0
  /\ fd_to_send' = fd_to_send - 1
  /\ pc' = IF peer = "rst" THEN "exited" ELSE "settle"
  /\ UNCHANGED <<cli_enable, buf, is_end, close_after_sent, fd_to_write,
                 file, network, handled>>

SendDone ==
  /\ WriteEvent /\ fd_to_send = 0
  /\ fd_to_send' = NoFile
  /\ is_end' = (is_end \/ close_after_sent)
  /\ pc' = IF peer = "rst" /\ cli_enable THEN "exited" ELSE "settle"
  /\ UNCHANGED <<cli_enable, buf, close_after_sent, fd_to_write,
                 file, network, handled>>

NothingToWrite ==
  /\ pc = "second" /\ peer = "rst" /\ fd_to_send = NoFile
  /\ is_end' = TRUE /\ pc' = "exited"
  /\ UNCHANGED <<cli_enable, buf, fd_to_send, close_after_sent, fd_to_write,
                 file, network, handled>>

NoSecond ==
  /\ pc = "second" /\ pc' = "settle"
  /\ UNCHANGED <<object, file, network, handled>>

(* Disconnect closes the files of a connection that ended.                 *)
Settle ==
  /\ pc = "settle"
  /\ IF is_end
     THEN pc' = "closed" /\ fd_to_send' = NoFile /\ fd_to_write' = FALSE
     ELSE pc' = "poll" /\ UNCHANGED <<fd_to_send, fd_to_write>>
  /\ UNCHANGED <<cli_enable, buf, is_end, close_after_sent, file, network, handled>>

(* The master starts a new worker, with new objects.                       *)
Respawn ==
  /\ pc = "exited" /\ pc' = "closed"
  /\ cli_enable' = FALSE /\ buf' = <<>> /\ is_end' = FALSE
  /\ fd_to_send' = NoFile /\ close_after_sent' = FALSE /\ fd_to_write' = FALSE
  /\ UNCHANGED <<file, network, handled>>

Trigger ==
  \/ FullBuffer \/ Read \/ ReadEnd \/ EndParse
  \/ \E n \in 1 .. Len(buf) : Plain(n) \/ Cat(n) \/ Recv(n) \/ Up(n)
  \/ SendChunk \/ SendDone \/ NothingToWrite \/ NoSecond \/ Settle

Next == Peer \/ Accept \/ AcceptReset \/ Trigger \/ Respawn

Spec == Init /\ [][Next]_vars

(* The worker serves every connection poll reports on; the client reads    *)
(* what it is sent.                                                        *)
FairSpec == Spec /\ WF_vars(Trigger)

-----------------------------------------------------------------------------
(* Properties.                                                             *)

(* The variables have the types of the fields they stand for; in           *)
(* particular pos never exceeds the size of the buffer.                    *)
TypeOK ==
  /\ pc \in {"closed", "poll", "parse", "second", "settle", "exited"}
  /\ buf \in Seq(Word \cup {NL}) /\ Len(buf) <= BUFFSIZE
  /\ rx \in Seq(Word \cup {NL}) /\ file \in Seq(Word \cup {NL})
  /\ input \in Seq(Word \cup {NL}) /\ handled \in Seq(Word \cup {NL})
  /\ cli_enable \in BOOLEAN /\ is_end \in BOOLEAN
  /\ close_after_sent \in BOOLEAN /\ fd_to_write \in BOOLEAN
  /\ fd_to_send \in {NoFile} \cup Nat
  /\ peer \in {"open", "fin", "rst"}

(* However the client's bytes are cut into reads and lines, each is taken  *)
(* once and in order: as part of a command line, as file data, or it is    *)
(* still waiting.                                                          *)
Framing == Live => input = handled \o file \o buf \o rx

(* No complete command is left in the buffer when the connection goes back *)
(* to poll, which would not report it again; no file data either.          *)
NothingLeftBehind ==
  pc = "poll" => IF fd_to_write THEN buf = <<>>
                 ELSE \A n \in 1 .. Len(buf) : buf[n] # NL

(* The connection as Session sees it.                                      *)
Ended == pc \in {"closed", "exited"} \/ is_end

Mode ==
  CASE Ended -> "closed"
    [] ~Ended /\ fd_to_write -> "read"
    [] ~Ended /\ ~fd_to_write /\ fd_to_send = NoFile -> "normal"
    [] ~Ended /\ ~fd_to_write /\ fd_to_send # NoFile ->
         IF close_after_sent THEN "write-close" ELSE "write"

Promised == INSTANCE Session
             WITH mode <- Mode, inbox <- IF Ended THEN <<>> ELSE buf \o rx,
                  done <- handled, data <- file

(* report.md:94 and 98-110: commands are carried out in normal mode only,  *)
(* and the modes change as in the state diagram.                           *)
ImplementsSession == Promised!Spec

Lines == {k \in 1 .. Len(handled) : k = 1 \/ handled[k - 1] = NL}

(* report.md:138: what follows an up command is file data; nothing of it   *)
(* is carried out as a command.                                            *)
AfterUpIsData ==
  [][handled' \notin {handled, <<>>} =>
       ~\E k \in Lines : handled[k] = "up" /\ handled[k + 1] = NL]_vars

(* A client that closes its end gets the connection closed, whatever it    *)
(* sent before, after the commands and the file under way.                 *)
Ends == peer = "fin" ~> pc \in {"closed", "exited"}
=============================================================================
