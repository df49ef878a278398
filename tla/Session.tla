------------------------------- MODULE Session -------------------------------
(***************************************************************************)
(* What a simple-ftp connection promises its client: the four modes of the *)
(* state diagram and, in each, what becomes of the next thing the client   *)
(* sent.  No buffer, no reads, no events.                                  *)
(***************************************************************************)
EXTENDS Integers, Sequences

CONSTANTS Word, NL

VARIABLES
  mode,   \* "normal", "write", "write-close", "read" or "closed"
  inbox,  \* sent by the client and without effect yet
  done,   \* the command lines carried out
  data    \* the file uploaded

svars == <<mode, inbox, done, data>>

Init == mode = "closed" /\ inbox = <<>> /\ done = <<>> /\ data = <<>>

Open ==
  /\ mode = "closed"
  /\ mode' = "normal" /\ inbox' = <<>> /\ done' = <<>> /\ data' = <<>>

Arrive ==
  /\ mode # "closed"
  /\ \E t \in Word \cup {NL} : inbox' = Append(inbox, t)
  /\ UNCHANGED <<mode, done, data>>

(* The mode a command leads to, if it succeeds.                            *)
Success(line) ==
  CASE line = <<"cat">>  -> "write"
    [] line = <<"recv">> -> "write-close"
    [] line = <<"up">>   -> "read"
    [] OTHER             -> "normal"

(* Commands are carried out in normal mode, one line after the other.      *)
Command ==
  /\ mode = "normal"
  /\ \E n \in 1 .. Len(inbox) :
       /\ inbox[n] = NL /\ \A k \in 1 .. n - 1 : inbox[k] # NL
       /\ done' = done \o SubSeq(inbox, 1, n)
       /\ \/ /\ mode' \in {"normal", Success(SubSeq(inbox, 1, n - 1))}
             /\ inbox' = SubSeq(inbox, n + 1, Len(inbox))
          \/ mode' = "closed" /\ inbox' = <<>>
  /\ UNCHANGED data

(* A file is sent to its end.                                              *)
FileSent ==
  \/ mode = "write" /\ mode' = "normal" /\ UNCHANGED <<inbox, done, data>>
  \/ mode = "write-close" /\ mode' = "closed" /\ inbox' = <<>> /\ UNCHANGED <<done, data>>

Store ==
  /\ mode = "read"
  /\ \E n \in 1 .. Len(inbox) :
       /\ data' = data \o SubSeq(inbox, 1, n)
       /\ inbox' = SubSeq(inbox, n + 1, Len(inbox))
  /\ UNCHANGED <<mode, done>>

(* The client closes or the connection breaks.                             *)
HangUp ==
  /\ mode # "closed" /\ mode' = "closed" /\ inbox' = <<>>
  /\ UNCHANGED <<done, data>>

Next == Open \/ Arrive \/ Command \/ FileSent \/ Store \/ HangUp

Spec == Init /\ [][Next]_svars
=============================================================================
