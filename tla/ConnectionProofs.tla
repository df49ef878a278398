-------------------------- MODULE ConnectionProofs --------------------------
(***************************************************************************)
(* Proofs about Connection, for every size of the buffer, every file and   *)
(* every length of input.                                                  *)
(*                                                                         *)
(* Framing is not inductive: handing a line to Handle puts it after        *)
(* everything written to the file, which is right only because no file     *)
(* has been written to before up; and NothingLeftBehind must hold from the *)
(* end of the parse loop on, not only when the connection is polled again. *)
(***************************************************************************)
EXTENDS Connection, SequenceTheorems, TLAPS

Token == Word \cup {NL}

(* A file is written only from up to the end of the connection.            *)
FileFromUp == Live /\ ~fd_to_write => file = <<>>

(* The parse loop ends with no line, and no file data, left in buf.        *)
Parsed ==
  Live /\ pc # "parse" => IF fd_to_write THEN buf = <<>>
                          ELSE \A n \in 1 .. Len(buf) : buf[n] # NL

IInv == TypeOK /\ FileFromUp /\ Parsed /\ Framing

-----------------------------------------------------------------------------
(* Sequences cut and joined.                                               *)

(* A sequence is its first n items and the others, if it has n.            *)
LEMMA Cut ==
  ASSUME NEW S, NEW s \in Seq(S), NEW n \in 0 .. Len(s)
  PROVE  /\ SubSeq(s, 1, n) \in Seq(S) /\ Len(SubSeq(s, 1, n)) = n
         /\ SubSeq(s, n + 1, Len(s)) \in Seq(S)
         /\ Len(SubSeq(s, n + 1, Len(s))) = Len(s) - n
         /\ SubSeq(s, 1, n) \o SubSeq(s, n + 1, Len(s)) = s
<1>1. Len(s) \in Nat /\ \A k \in 1 .. Len(s) : s[k] \in S
  BY LenProperties, ElementOfSeq
<1>2. SubSeq(s, 1, n) \in Seq(S) /\ Len(SubSeq(s, 1, n)) = n
  <2>1. \A k \in 1 .. n : s[k] \in S
    BY <1>1
  <2>2. SubSeq(s, 1, n) \in Seq(S)
        /\ Len(SubSeq(s, 1, n)) = IF 1 <= n THEN n - 1 + 1 ELSE 0
    BY <1>1, <2>1, SubSeqProperties
  <2> QED BY <1>1, <2>2
<1>3. /\ SubSeq(s, n + 1, Len(s)) \in Seq(S)
      /\ Len(SubSeq(s, n + 1, Len(s))) = Len(s) - n
  <2>1. \A k \in n + 1 .. Len(s) : s[k] \in S
    BY <1>1
  <2>2. SubSeq(s, n + 1, Len(s)) \in Seq(S)
        /\ Len(SubSeq(s, n + 1, Len(s)))
             = IF n + 1 <= Len(s) THEN Len(s) - (n + 1) + 1 ELSE 0
    BY <1>1, <2>1, SubSeqProperties
  <2> QED BY <1>1, <2>2
<1>4. SubSeq(s, 1, n) \o SubSeq(s, n + 1, Len(s)) = SubSeq(s, 1, Len(s))
  <2>1. n \in 1 - 1 .. Len(s) /\ Len(s) \in n .. Len(s) /\ 1 \in 1 .. Len(s) + 1
    BY <1>1
  <2> QED BY <2>1, ConcatAdjacentSubSeq
<1> QED BY <1>2, <1>3, <1>4, SubSeqFull

(* The same around an item at n: the line before a newline and the rest.   *)
LEMMA CutAt ==
  ASSUME NEW S, NEW s \in Seq(S), NEW n \in 1 .. Len(s)
  PROVE  /\ SubSeq(s, 1, n - 1) \in Seq(S)
         /\ Append(SubSeq(s, 1, n - 1), s[n]) \in Seq(S)
         /\ Append(SubSeq(s, 1, n - 1), s[n]) \o SubSeq(s, n + 1, Len(s)) = s
<1>1. Len(s) \in Nat /\ s[n] \in S
  BY LenProperties, ElementOfSeq
<1>2. SubSeq(s, 1, n) = SubSeq(s, 1, n - 1) \o <<s[n]>>
  BY <1>1, SubSeqRecursiveSecond
<1>3. SubSeq(s, 1, n - 1) \in Seq(S)
  <2>1. n - 1 \in 0 .. Len(s)
    BY <1>1
  <2> QED BY <2>1, Cut
<1>4. Append(SubSeq(s, 1, n - 1), s[n]) = SubSeq(s, 1, n)
  BY <1>1, <1>2, <1>3, AppendIsConcat
<1>5. n \in 0 .. Len(s)
  BY <1>1
<1>6. SubSeq(s, 1, n) \in Seq(S) /\ SubSeq(s, 1, n) \o SubSeq(s, n + 1, Len(s)) = s
  BY <1>5, Cut
<1> QED BY <1>3, <1>4, <1>6

(* The part between two cuts goes with what is before or behind it.        *)
LEMMA Regroup ==
  \A a, b, c \in Seq(Token) : a \o b \in Seq(Token) /\ (a \o b) \o c = a \o (b \o c)
OBVIOUS

-----------------------------------------------------------------------------
(* The types.                                                              *)

LEMMA TypeInit == Init => TypeOK
<1> SUFFICES ASSUME Init PROVE TypeOK
  OBVIOUS
<1>1. <<>> \in Seq(Word \cup {NL}) /\ Len(<<>>) = 0
  BY EmptySeq
<1>2. buf \in Seq(Word \cup {NL}) /\ Len(buf) <= BUFFSIZE
  BY <1>1, ConnectionAssumption DEF Init
<1>3. /\ rx \in Seq(Word \cup {NL}) /\ file \in Seq(Word \cup {NL})
      /\ input \in Seq(Word \cup {NL}) /\ handled \in Seq(Word \cup {NL})
  BY <1>1 DEF Init
<1> QED BY <1>2, <1>3 DEF Init, TypeOK

(* Each step of the client and of the worker keeps the types.              *)
LEMMA TypeStep ==
  ASSUME TypeOK, [Next]_vars
  PROVE  TypeOK'
<1> USE DEF TypeOK
<1>0. CASE UNCHANGED vars
  BY <1>0 DEF vars, object, network
<1>1. CASE Peer
  <2>1. CASE Hang
    BY <1>1, <2>1 DEF Peer, Hang, object
  <2>2. ASSUME NEW t \in Word \cup {NL}, Send(t)
        PROVE  TypeOK'
    <3>1. rx' \in Seq(Word \cup {NL}) /\ input' \in Seq(Word \cup {NL})
      BY <2>2, AppendProperties DEF Send
    <3> QED BY <1>1, <2>2, <3>1 DEF Peer, Send, object
  <2> QED BY <1>1, <2>1, <2>2 DEF Peer
<1>2. CASE Accept
  <2>1. <<>> \in Seq(Word \cup {NL}) /\ Len(<<>>) = 0
    BY EmptySeq
  <2>2. buf' \in Seq(Word \cup {NL}) /\ Len(buf') <= BUFFSIZE
    BY <1>2, <2>1, ConnectionAssumption DEF Accept, Emptied
  <2>3. /\ rx' \in Seq(Word \cup {NL}) /\ file' \in Seq(Word \cup {NL})
        /\ input' \in Seq(Word \cup {NL}) /\ handled' \in Seq(Word \cup {NL})
    BY <1>2, <2>1 DEF Accept
  <2> QED BY <1>2, <2>2, <2>3 DEF Accept
<1>3. CASE AcceptReset
  BY <1>3 DEF AcceptReset, object, network
<1>4. CASE FullBuffer \/ ReadEnd \/ NothingToWrite \/ NoSecond \/ Settle
  BY <1>4 DEF FullBuffer, ReadEnd, NothingToWrite, NoSecond, Settle, object, network
<1>5. CASE SendChunk \/ SendDone
  BY <1>5 DEF SendChunk, SendDone, network
<1>6. CASE Read
  <2> DEFINE n == Least(Len(rx), Room)
  <2>1. Len(rx) \in Nat /\ Len(buf) \in Nat
    BY LenProperties
  <2>2. n \in 0 .. Len(rx) /\ Len(buf) + n <= BUFFSIZE
    BY <1>6, <2>1, ConnectionAssumption DEF Read, Least, Room
  <2> HIDE DEF n
  <2>3. /\ SubSeq(rx, 1, n) \in Seq(Word \cup {NL}) /\ Len(SubSeq(rx, 1, n)) = n
        /\ SubSeq(rx, n + 1, Len(rx)) \in Seq(Word \cup {NL})
    BY <2>2, Cut
  <2>4. /\ buf \o SubSeq(rx, 1, n) \in Seq(Word \cup {NL})
        /\ Len(buf \o SubSeq(rx, 1, n)) = Len(buf) + n
    BY <2>3, ConcatProperties
  <2>5. buf' = buf \o SubSeq(rx, 1, n) /\ rx' = SubSeq(rx, n + 1, Len(rx))
    BY <1>6 DEF Read, n
  <2> QED BY <1>6, <2>2, <2>3, <2>4, <2>5 DEF Read
<1>7. CASE EndParse
  <2>1. <<>> \in Seq(Word \cup {NL}) /\ Len(<<>>) = 0
    BY EmptySeq
  <2>2. file \o buf \in Seq(Word \cup {NL})
    BY ConcatProperties
  <2>3. buf' \in Seq(Word \cup {NL}) /\ Len(buf') <= BUFFSIZE
    <3>1. CASE fd_to_write
      BY <1>7, <2>1, <3>1, ConnectionAssumption DEF EndParse, Stored
    <3>2. CASE ~fd_to_write
      BY <1>7, <3>2 DEF EndParse
    <3> QED BY <3>1, <3>2
  <2>4. file' \in Seq(Word \cup {NL})
    BY <1>7, <2>2 DEF EndParse
  <2> QED BY <1>7, <2>3, <2>4 DEF EndParse, network
<1>8. ASSUME NEW n \in 1 .. Len(buf), Plain(n) \/ Cat(n) \/ Recv(n) \/ Up(n)
      PROVE  TypeOK'
  <2>1. TakeLine(n)
    BY <1>8 DEF Plain, Cat, Recv, Up
  <2>2. Len(buf) \in Nat
    BY LenProperties
  <2>3. buf' \in Seq(Word \cup {NL}) /\ Len(buf') <= BUFFSIZE
    <3>1. n \in 0 .. Len(buf)
      BY <2>2
    <3>2. /\ Rest(n) \in Seq(Word \cup {NL}) /\ Len(Rest(n)) = Len(buf) - n
      BY <3>1, Cut DEF Rest
    <3> QED BY <2>1, <2>2, <3>2, ConnectionAssumption DEF TakeLine
  <2>4. handled' \in Seq(Word \cup {NL})
    <3>1. Append(Line(n), NL) \in Seq(Word \cup {NL})
      BY <2>1, CutAt DEF TakeLine, FirstNewline, Line
    <3> QED BY <2>1, <3>1, ConcatProperties DEF TakeLine
  <2>5. pc' \in {"exited", "parse"}
    BY <1>8 DEF Plain, Cat, Recv, Up, Answer
  <2>6. /\ is_end' \in BOOLEAN /\ close_after_sent' \in BOOLEAN
        /\ fd_to_write' \in BOOLEAN
    BY <1>8 DEF Plain, Cat, Recv, Up
  <2>7. fd_to_send' \in {fd_to_send} \cup Opened
    BY <1>8 DEF Plain, Cat, Recv, Up
  <2>8. fd_to_send' \in {NoFile} \cup Nat
    BY <2>7, ConnectionAssumption DEF Opened
  <2> QED BY <2>1, <2>3, <2>4, <2>5, <2>6, <2>8 DEF TakeLine, network
<1>9. CASE Respawn
  <2>1. <<>> \in Seq(Word \cup {NL}) /\ Len(<<>>) = 0
    BY EmptySeq
  <2>2. buf' \in Seq(Word \cup {NL}) /\ Len(buf') <= BUFFSIZE
    BY <1>9, <2>1, ConnectionAssumption DEF Respawn
  <2> QED BY <1>9, <2>2 DEF Respawn, network
<1> QED BY <1>0, <1>1, <1>2, <1>3, <1>4, <1>5, <1>6, <1>7, <1>8, <1>9
        DEF Next, Trigger

-----------------------------------------------------------------------------
(* What a line leaves: handling one goes on with the parse loop or ends    *)
(* the process, and is never done while a file is open for writing.        *)
LEMMA LineTaken ==
  ASSUME NEW n \in 1 .. Len(buf), Plain(n) \/ Cat(n) \/ Recv(n) \/ Up(n)
  PROVE  /\ TakeLine(n) /\ pc = "parse" /\ ~fd_to_write
         /\ pc' \in {"exited", "parse"}
<1>1. TakeLine(n) /\ pc' \in {"exited", "parse"}
  BY DEF Plain, Cat, Recv, Up, Answer
<1> QED BY <1>1 DEF TakeLine, Parsing

(* No file is written before up, not even an empty one.                    *)
LEMMA FileStep ==
  ASSUME TypeOK, FileFromUp, [Next]_vars
  PROVE  FileFromUp'
<1> USE DEF FileFromUp, Live
<1>1. CASE UNCHANGED vars
  BY <1>1 DEF vars, object
<1>2. CASE Peer
  BY <1>2 DEF Peer, object
<1>3. CASE Accept \/ AcceptReset \/ Respawn
  BY <1>3 DEF Accept, AcceptReset, Respawn
<1>4. CASE FullBuffer \/ Read \/ ReadEnd
  BY <1>4 DEF FullBuffer, Read, ReadEnd, Readable
<1>5. ASSUME NEW n \in 1 .. Len(buf), Plain(n) \/ Cat(n) \/ Recv(n) \/ Up(n)
      PROVE  FileFromUp'
  BY <1>5, LineTaken DEF TakeLine
<1>6. CASE EndParse
  BY <1>6 DEF EndParse
<1>7. CASE SendChunk \/ SendDone \/ NothingToWrite
  BY <1>7 DEF SendChunk, SendDone, NothingToWrite, WriteEvent
<1>8. CASE NoSecond \/ Settle
  BY <1>8 DEF NoSecond, Settle, object
<1> QED BY <1>1, <1>2, <1>3, <1>4, <1>5, <1>6, <1>7, <1>8 DEF Next, Trigger

(* After the parse loop buf holds no line and no file data.                *)
LEMMA ParsedStep ==
  ASSUME TypeOK, Parsed, [Next]_vars
  PROVE  Parsed'
<1> USE DEF Parsed, Live
<1>1. CASE UNCHANGED vars
  BY <1>1 DEF vars, object
<1>2. CASE Peer
  BY <1>2 DEF Peer, object
<1>3. CASE Accept
  <2>1. Len(buf') = 0 /\ fd_to_write' = FALSE
    BY <1>3, EmptySeq DEF Accept, Emptied
  <2> QED BY <2>1
<1>4. CASE AcceptReset \/ Respawn
  BY <1>4 DEF AcceptReset, Respawn
<1>5. CASE FullBuffer \/ Read \/ ReadEnd
  BY <1>5 DEF FullBuffer, Read, ReadEnd, Readable
<1>6. ASSUME NEW n \in 1 .. Len(buf), Plain(n) \/ Cat(n) \/ Recv(n) \/ Up(n)
      PROVE  Parsed'
  BY <1>6, LineTaken
<1>7. CASE EndParse
  BY <1>7 DEF EndParse, Stored
<1>8. CASE SendChunk \/ SendDone \/ NothingToWrite
  BY <1>8 DEF SendChunk, SendDone, NothingToWrite, WriteEvent
<1>9. CASE NoSecond \/ Settle
  BY <1>9 DEF NoSecond, Settle, object
<1> QED BY <1>1, <1>2, <1>3, <1>4, <1>5, <1>6, <1>7, <1>8, <1>9 DEF Next, Trigger

(* No byte is lost, repeated or moved by a read, a line or a write.        *)
LEMMA FramingStep ==
  ASSUME TypeOK, FileFromUp, Parsed, Framing, [Next]_vars
  PROVE  Framing'
<1> USE DEF Framing, Live
<1>0. /\ buf \in Seq(Token) /\ rx \in Seq(Token) /\ input \in Seq(Token)
      /\ file \in Seq(Token) /\ handled \in Seq(Token)
  BY DEF TypeOK, Token
<1>1. CASE UNCHANGED vars
  BY <1>1 DEF vars, object, network
<1>2. CASE Peer
  <2>1. CASE Hang
    BY <1>2, <2>1 DEF Peer, Hang, object
  <2>2. ASSUME NEW t \in Token, Send(t)
        PROVE  Framing'
    <3> DEFINE p == (handled \o file) \o buf
    <3>1. p \in Seq(Token) /\ <<t>> \in Seq(Token)
      BY <1>0, <2>2, ConcatProperties
    <3>2. input' = input \o <<t>> /\ rx' = rx \o <<t>>
      BY <1>0, <2>2, AppendIsConcat DEF Send
    <3>3. input = p \o rx
      BY <2>2 DEF Send
    <3>4. p' = p
      BY <1>2 DEF Peer, object
    <3> HIDE DEF p
    <3>5. (p \o rx) \o <<t>> = p \o (rx \o <<t>>)
      <4>1. rx \in Seq(Token)
        BY <1>0
      <4> QED BY <3>1, <4>1, Regroup, Zenon
    <3>6. input' = p' \o rx'
      BY <3>2, <3>3, <3>4, <3>5
    <3> QED BY <3>6 DEF p
  <2> QED BY <1>2, <2>1, <2>2 DEF Peer, Token
<1>3. CASE Accept
  <2>1. \A e : e = <<>> => e = ((e \o e) \o e) \o e
    BY EmptySeq, ConcatEmptySeq
  <2> QED BY <1>3, <2>1 DEF Accept, Emptied
<1>4. CASE AcceptReset \/ Respawn
  BY <1>4 DEF AcceptReset, Respawn
<1>5. CASE FullBuffer \/ ReadEnd
  BY <1>5 DEF FullBuffer, ReadEnd, Readable, network
<1>6. CASE Read
  <2> DEFINE n == Least(Len(rx), Room)
             a == SubSeq(rx, 1, n)
             b == SubSeq(rx, n + 1, Len(rx))
             p == handled \o file
  <2>1. n \in 0 .. Len(rx)
    <3>1. Len(rx) \in Nat /\ Len(buf) \in Nat
      BY <1>0, LenProperties
    <3> QED BY <1>6, <3>1, ConnectionAssumption DEF Read, Least, Room
  <2>2. a \in Seq(Token) /\ b \in Seq(Token) /\ a \o b = rx /\ p \in Seq(Token)
    <3> HIDE DEF n
    <3> QED BY <1>0, <2>1, Cut, ConcatProperties
  <2>3. buf' = buf \o a /\ rx' = b /\ UNCHANGED <<input, handled, file>>
    BY <1>6 DEF Read
  <2>4. input = (p \o buf) \o rx
    BY <1>6 DEF Read, Readable
  <2> HIDE DEF a, b, p
  <2>5. (p \o (buf \o a)) \o b = (p \o buf) \o (a \o b)
    <3>1. (p \o buf) \o (a \o b) = ((p \o buf) \o a) \o b
      <4>1. p \o buf \in Seq(Token)
        BY <1>0, <2>2, Regroup, Zenon
      <4> QED BY <2>2, <4>1, Regroup, Zenon
    <3>2. (p \o buf) \o a = p \o (buf \o a)
      <4>1. buf \in Seq(Token)
        BY <1>0
      <4> QED BY <2>2, <4>1, Regroup, Zenon
    <3> QED BY <3>1, <3>2
  <2>6. input' = ((handled' \o file') \o buf') \o rx'
    BY <2>2, <2>3, <2>4, <2>5 DEF p
  <2> QED BY <2>6
<1>7. ASSUME NEW n \in 1 .. Len(buf), Plain(n) \/ Cat(n) \/ Recv(n) \/ Up(n)
      PROVE  Framing'
  <2> DEFINE l == Append(Line(n), NL)
             r == Rest(n)
  <2>1. TakeLine(n) /\ pc = "parse" /\ ~fd_to_write
    BY <1>7, LineTaken
  <2>2. file = <<>>
    BY <2>1 DEF FileFromUp
  <2>3. l \in Seq(Token) /\ r \in Seq(Token) /\ l \o r = buf
    <3>1. r \in Seq(Token)
      <4>1. n \in 0 .. Len(buf)
        BY <1>0, LenProperties
      <4> QED BY <1>0, <4>1, Cut DEF Rest
    <3>2. l \in Seq(Token) /\ l \o r = buf
      BY <1>0, <2>1, CutAt DEF TakeLine, FirstNewline, Line, Rest
    <3> QED BY <3>1, <3>2
  <2>4. buf' = r /\ handled' = handled \o l /\ file' = file /\ UNCHANGED network
    BY <2>1 DEF TakeLine
  <2> HIDE DEF l, r
  <2>5. input = (handled \o (l \o r)) \o rx
    <3>1. handled \o <<>> = handled
      BY <1>0, ConcatEmptySeq
    <3> QED BY <2>1, <2>2, <2>3, <3>1
  <2>6. ((handled \o l) \o <<>>) \o r = (handled \o l) \o r
    <3>1. handled \o l \in Seq(Token)
      BY <1>0, <2>3, ConcatProperties
    <3> QED BY <3>1, ConcatEmptySeq
  <2>7. input = (((handled \o l) \o <<>>) \o r) \o rx
    <3>1. (handled \o l) \o r = handled \o (l \o r)
      BY <1>0, <2>3, Regroup, Zenon
    <3> QED BY <2>5, <2>6, <3>1
  <2>8. input' = ((handled' \o file') \o buf') \o rx'
    BY <2>2, <2>4, <2>7 DEF network
  <2> QED BY <2>8
<1>8. CASE EndParse
  <2>1. CASE ~fd_to_write
    BY <1>8, <2>1 DEF EndParse, network
  <2>2. CASE fd_to_write
    <3>1. input = ((handled \o file) \o buf) \o rx
      BY <1>8 DEF EndParse
    <3>2. file' = file \o buf /\ buf' = <<>> /\ UNCHANGED <<network, handled>>
      BY <1>8, <2>2 DEF EndParse, Stored
    <3>3. handled \o (file \o buf) = (handled \o file) \o buf
      BY <1>0, Regroup, Zenon
    <3>4. (handled \o (file \o buf)) \o <<>> = handled \o (file \o buf)
      <4>1. handled \o (file \o buf) \in Seq(Token)
        BY <1>0, ConcatProperties
      <4> QED BY <4>1, ConcatEmptySeq
    <3>5. input' = ((handled' \o file') \o buf') \o rx'
      BY <3>1, <3>2, <3>3, <3>4 DEF network
    <3> QED BY <3>5
  <2> QED BY <2>1, <2>2
<1>9. CASE SendChunk \/ SendDone \/ NothingToWrite
  BY <1>9 DEF SendChunk, SendDone, NothingToWrite, WriteEvent, network
<1>10. CASE NoSecond \/ Settle
  BY <1>10 DEF NoSecond, Settle, object, network
<1> QED BY <1>1, <1>2, <1>3, <1>4, <1>5, <1>6, <1>7, <1>8, <1>9, <1>10
        DEF Next, Trigger

-----------------------------------------------------------------------------
(* The theorems.                                                           *)

LEMMA InvInit == Init => IInv
<1> SUFFICES ASSUME Init PROVE IInv
  OBVIOUS
<1>1. TypeOK
  BY TypeInit
<1> QED BY <1>1 DEF Init, IInv, FileFromUp, Parsed, Framing, Live

LEMMA InvStep == IInv /\ [Next]_vars => IInv'
BY TypeStep, FileStep, ParsedStep, FramingStep DEF IInv

(* IInv holds in every state of the connections of a slot.                 *)
THEOREM Invariance == Spec => []IInv
BY InvInit, InvStep, PTL DEF Spec

(* The fields keep their types, and buf is never filled past its end.      *)
THEOREM TypeCorrect == Spec => []TypeOK
<1>1. IInv => TypeOK
  BY DEF IInv
<1> QED BY <1>1, Invariance, PTL

(* Every byte a client sends is taken once and in order, whatever the size *)
(* of the buffer and however the reads cut what was sent.                  *)
THEOREM BytesInOrder == Spec => []Framing
<1>1. IInv => Framing
  BY DEF IInv
<1> QED BY <1>1, Invariance, PTL

(* A connection that waits in poll has no command and no file data waiting *)
(* in its buffer.                                                          *)
THEOREM BufferIsDrained == Spec => []NothingLeftBehind
<1>1. IInv => NothingLeftBehind
  BY DEF IInv, Parsed, NothingLeftBehind, Live
<1> QED BY <1>1, Invariance, PTL

-----------------------------------------------------------------------------
(***************************************************************************)
(* Connection implements Session when clients wait for their answers: then *)
(* a line is the last thing a client has sent when it is handled, so that  *)
(* no line is left in buf for the parse loop to handle in another mode.    *)
(***************************************************************************)
Unhandled == buf \o rx

(* A client that is not uploading has sent one line, the last, at most.    *)
OneLine ==
  Live /\ ~fd_to_write =>
    \A k \in 1 .. Len(Unhandled) : Unhandled[k] = NL => k = Len(Unhandled)

(* It sends nothing on while a file is sent to it.                         *)
NoneWhileSending ==
  Live /\ fd_to_send # NoFile =>
    ~fd_to_write /\ \A k \in 1 .. Len(Unhandled) : Unhandled[k] # NL

(* A connection about to end handles nothing more.                         *)
NoneAfterEnd ==
  /\ pc = "poll" => ~is_end
  /\ pc = "parse" /\ is_end =>
       ~fd_to_write /\ \A k \in 1 .. Len(buf) : buf[k] # NL

Polite == OneLine /\ NoneWhileSending /\ NoneAfterEnd

LEMMA UnhandledIs ==
  ASSUME TypeOK
  PROVE  /\ Unhandled \in Seq(Token) /\ Len(Unhandled) = Len(buf) + Len(rx)
         /\ Len(buf) \in Nat /\ Len(rx) \in Nat
         /\ \A k \in 1 .. Len(buf) : Unhandled[k] = buf[k]
         /\ \A k \in 1 .. Len(rx) : Unhandled[Len(buf) + k] = rx[k]
<1>1. buf \in Seq(Token) /\ rx \in Seq(Token) /\ Len(buf) \in Nat /\ Len(rx) \in Nat
  BY LenProperties DEF TypeOK, Token
<1>2. /\ buf \o rx \in Seq(Token) /\ Len(buf \o rx) = Len(buf) + Len(rx)
      /\ \A i \in 1 .. Len(buf) + Len(rx) :
           (buf \o rx)[i] = IF i <= Len(buf) THEN buf[i] ELSE rx[i - Len(buf)]
  BY <1>1, ConcatProperties
<1>3. ASSUME NEW k \in 1 .. Len(buf) PROVE (buf \o rx)[k] = buf[k]
  BY <1>1, <1>2
<1>4. ASSUME NEW k \in 1 .. Len(rx) PROVE (buf \o rx)[Len(buf) + k] = rx[k]
  <2>1. Len(buf) + k \in 1 .. Len(buf) + Len(rx) /\ ~(Len(buf) + k <= Len(buf))
        /\ Len(buf) + k - Len(buf) = k
    BY <1>1
  <2> QED
    BY <1>2, <2>1
<1> QED
  BY <1>1, <1>2, <1>3, <1>4 DEF Unhandled

(* Nothing the client sent is a newline if Sent has none.                  *)
LEMMA SentIs ==
  ASSUME TypeOK
  PROVE  NL \notin Sent <=> \A k \in 1 .. Len(Unhandled) : Unhandled[k] # NL
<1>1. ASSUME NL \notin Sent, NEW k \in 1 .. Len(Unhandled) PROVE Unhandled[k] # NL
  <2>1. CASE k \in 1 .. Len(buf)
    BY <1>1, <2>1, UnhandledIs DEF Sent
  <2>2. CASE k \notin 1 .. Len(buf)
    <3>1. k - Len(buf) \in 1 .. Len(rx) /\ k = Len(buf) + (k - Len(buf))
      BY <2>2, UnhandledIs
    <3> QED
      BY <1>1, <3>1, UnhandledIs DEF Sent
  <2> QED
    BY <2>1, <2>2
<1>2. ASSUME NL \in Sent PROVE \E k \in 1 .. Len(Unhandled) : Unhandled[k] = NL
  <2>1. CASE \E k \in 1 .. Len(buf) : buf[k] = NL
    BY <2>1, UnhandledIs
  <2>2. CASE \E k \in 1 .. Len(rx) : rx[k] = NL
    <3>1. PICK k \in 1 .. Len(rx) : rx[k] = NL
      BY <2>2
    <3>2. Len(buf) + k \in 1 .. Len(Unhandled)
      BY UnhandledIs
    <3> QED
      BY <3>1, <3>2, UnhandledIs
  <2> QED
    BY <1>2, <2>1, <2>2 DEF Sent
<1> QED
  BY <1>1, <1>2

(* What is read goes from the one part to the other.                       *)
LEMMA ReadMoves ==
  ASSUME TypeOK, Read
  PROVE  Unhandled' = Unhandled
<1> DEFINE n == Least(Len(rx), Room)
           a == SubSeq(rx, 1, n)
           b == SubSeq(rx, n + 1, Len(rx))
<1>1. buf \in Seq(Token) /\ rx \in Seq(Token)
  BY DEF TypeOK, Token
<1>2. n \in 0 .. Len(rx)
  <2>1. Len(rx) \in Nat /\ Len(buf) \in Nat
    BY <1>1, LenProperties
  <2> QED
    BY <2>1, ConnectionAssumption DEF Read, Least, Room
<1>3. buf' = buf \o a /\ rx' = b
  BY DEF Read
<1>4. a \in Seq(Token) /\ b \in Seq(Token) /\ a \o b = rx
  <2> HIDE DEF n
  <2> QED
    BY <1>1, <1>2, Cut
<1> HIDE DEF a, b
<1>5. (buf \o a) \o b = buf \o (a \o b)
  <2>1. buf \in Seq(Token)
    BY <1>1
  <2>2. a \in Seq(Token) /\ b \in Seq(Token)
    BY <1>4
  <2> QED
    BY <2>1, <2>2, Regroup, Zenon
<1> QED
  BY <1>3, <1>4, <1>5 DEF Unhandled

(* The line that is handled is the last thing sent.                        *)
LEMMA LastLine ==
  ASSUME TypeOK, Polite, NEW n \in 1 .. Len(buf), TakeLine(n)
  PROVE  /\ pc = "parse" /\ ~is_end /\ ~fd_to_write /\ fd_to_send = NoFile
         /\ n = Len(buf) /\ n = Len(Unhandled) /\ Unhandled = buf
         /\ Unhandled' = <<>> /\ buf' = <<>> /\ rx' = <<>>
<1>1. pc = "parse" /\ ~fd_to_write /\ buf[n] = NL /\ n \in 1 .. Len(buf)
      /\ buf' = Rest(n) /\ rx' = rx
  BY DEF TakeLine, Parsing, FirstNewline, network
<1>2. n \in 1 .. Len(Unhandled) /\ Unhandled[n] = NL
  BY <1>1, UnhandledIs
<1>3. n = Len(Unhandled)
  BY <1>1, <1>2 DEF Polite, OneLine, Live
<1>4. n = Len(buf) /\ Len(rx) = 0
  BY <1>1, <1>3, UnhandledIs
<1>5. rx = <<>>
  BY <1>4, EmptySeq DEF TypeOK
<1>6. Unhandled = buf
  BY <1>5, ConcatEmptySeq DEF TypeOK, Unhandled
<1>7. buf' = <<>>
  <2>1. n \in 0 .. Len(buf) /\ buf \in Seq(Word \cup {NL})
    BY <1>1, UnhandledIs DEF TypeOK
  <2>2. Rest(n) \in Seq(Word \cup {NL}) /\ Len(Rest(n)) = Len(buf) - n
    BY <2>1, Cut DEF Rest
  <2>3. Len(Rest(n)) = 0
    BY <1>4, <2>2, UnhandledIs
  <2> QED
    BY <1>1, <2>2, <2>3, EmptySeq
<1>8. Unhandled' = <<>>
  <2>1. <<>> \o <<>> = <<>>
    BY EmptySeq, ConcatEmptySeq
  <2> QED
    BY <1>1, <1>5, <1>7, <2>1 DEF Unhandled
<1>9. fd_to_send = NoFile
  BY <1>1, <1>2 DEF Polite, NoneWhileSending, Live
<1>10. ~is_end
  BY <1>1 DEF Polite, NoneAfterEnd
<1> QED
  BY <1>1, <1>3, <1>4, <1>5, <1>6, <1>7, <1>8, <1>9, <1>10

LEMMA PoliteInit == Init => Polite
BY DEF Init, Polite, OneLine, NoneWhileSending, NoneAfterEnd, Live

LEMMA PoliteStep ==
  ASSUME INTERACTIVE, TypeOK, TypeOK', Parsed, Polite, [Next]_vars
  PROVE  Polite'
<1>1. ASSUME Unhandled' = Unhandled, UNCHANGED <<fd_to_write, fd_to_send>>,
             Live, NoneAfterEnd'
      PROVE  Polite'
  BY <1>1 DEF Polite, OneLine, NoneWhileSending
<1>2. ASSUME ~Live' PROVE Polite'
  BY <1>2 DEF Polite, OneLine, NoneWhileSending, NoneAfterEnd, Live
<1>3. ASSUME Unhandled' = <<>>, buf' = <<>>, NoneAfterEnd' PROVE OneLine' /\ NoneAfterEnd'
  BY <1>3, EmptySeq DEF OneLine
<1>4. CASE UNCHANGED vars
  BY <1>4 DEF vars, object, network, Polite, OneLine, NoneWhileSending, NoneAfterEnd,
     Unhandled, Live
<1>5. CASE Peer
  <2>1. UNCHANGED <<pc, object>>
    BY <1>5 DEF Peer
  <2>2. NoneAfterEnd'
    BY <2>1 DEF object, NoneAfterEnd, Polite
  <2>3. CASE Hang
    BY <1>1, <2>1, <2>2, <2>3 DEF Hang, Unhandled, object
  <2>4. ASSUME NEW t \in Token, Send(t) PROVE Polite'
    <3>1. Live /\ rx' = Append(rx, t) /\ (fd_to_write \/ (NL \notin Sent /\ fd_to_send = NoFile))
      BY <2>4 DEF Send
    <3>2. CASE fd_to_write
      BY <2>1, <2>2, <3>1, <3>2 DEF Polite, OneLine, NoneWhileSending, object, Live
    <3>3. CASE ~fd_to_write
      <4>1. fd_to_send = NoFile /\ \A k \in 1 .. Len(Unhandled) : Unhandled[k] # NL
        BY <3>1, <3>3, SentIs
      <4>2. Unhandled' = Append(Unhandled, t)
        <5>1. buf \in Seq(Token) /\ rx \in Seq(Token) /\ <<t>> \in Seq(Token)
          BY <2>4 DEF TypeOK, Token
        <5>2. rx' = rx \o <<t>> /\ Append(Unhandled, t) = Unhandled \o <<t>>
          BY <2>4, <3>1, <5>1, AppendIsConcat, UnhandledIs
        <5>3. (buf \o rx) \o <<t>> = buf \o (rx \o <<t>>)
          BY <5>1, Regroup, Zenon
        <5> QED
          BY <2>1, <5>2, <5>3 DEF Unhandled, object
      <4>3. /\ Len(Append(Unhandled, t)) = Len(Unhandled) + 1 /\ Len(Unhandled) \in Nat
            /\ \A k \in 1 .. Len(Unhandled) : Append(Unhandled, t)[k] = Unhandled[k]
        BY <2>4, UnhandledIs, AppendProperties
      <4>4. OneLine'
        BY <4>1, <4>2, <4>3 DEF OneLine
      <4>5. NoneWhileSending'
        BY <2>1, <4>1 DEF NoneWhileSending, object
      <4> QED
        BY <2>2, <4>4, <4>5 DEF Polite
    <3> QED
      BY <3>2, <3>3
  <2> QED
    BY <1>5, <2>3, <2>4 DEF Peer, Token
<1>6. CASE Accept
  <2>1. Unhandled' = <<>>
    <3>1. <<>> \o <<>> = <<>>
      BY EmptySeq, ConcatEmptySeq
    <3> QED
      BY <1>6, <3>1 DEF Accept, Emptied, Unhandled
  <2>2. OneLine'
    BY <2>1, EmptySeq DEF OneLine
  <2>3. NoneWhileSending' /\ NoneAfterEnd'
    BY <1>6 DEF Accept, NoneWhileSending, NoneAfterEnd
  <2> QED
    BY <2>2, <2>3 DEF Polite
<1>7. CASE AcceptReset \/ Respawn
  <2>1. ~Live'
    BY <1>7 DEF AcceptReset, Respawn, Live
  <2> QED
    BY <1>2, <2>1
<1>8. CASE FullBuffer \/ ReadEnd \/ NoSecond
  BY <1>1, <1>8 DEF FullBuffer, ReadEnd, NoSecond, Readable, NoneAfterEnd, Unhandled, Live,
     object, network, Polite, OneLine, NoneWhileSending
<1>9. CASE Read
  <2>1. Unhandled' = Unhandled
    BY <1>9, ReadMoves
  <2>2. ~is_end' /\ pc' = "parse" /\ Live
    BY <1>9 DEF Read, Readable, Live, Polite, NoneAfterEnd
  <2>3. NoneAfterEnd'
    BY <2>2 DEF NoneAfterEnd
  <2> QED
    BY <1>1, <1>9, <2>1, <2>2, <2>3 DEF Read
<1>10. ASSUME NEW n \in 1 .. Len(buf), Plain(n) \/ Cat(n) \/ Recv(n) \/ Up(n)
       PROVE  Polite'
  <2>1. TakeLine(n) /\ pc' \in {"exited", "parse"}
    BY <1>10, LineTaken
  <2>2. /\ ~is_end /\ ~fd_to_write /\ fd_to_send = NoFile
        /\ Unhandled' = <<>> /\ buf' = <<>>
    BY <2>1, LastLine
  <2>3. OneLine'
    BY <2>2, EmptySeq DEF OneLine
  <2>4. fd_to_write' => fd_to_send' = NoFile /\ ~is_end'
    BY <1>10, <2>2 DEF Plain, Cat, Recv, Up
  <2>5. NoneWhileSending'
    BY <2>2, <2>4, EmptySeq DEF NoneWhileSending
  <2>6. NoneAfterEnd'
    BY <2>1, <2>2, <2>4, EmptySeq DEF NoneAfterEnd
  <2> QED
    BY <2>3, <2>5, <2>6 DEF Polite
<1>11. CASE EndParse
  <2>1. NoneAfterEnd' /\ Live /\ UNCHANGED <<fd_to_write, fd_to_send, rx>>
    BY <1>11 DEF EndParse, NoneAfterEnd, Live, network
  <2>2. CASE ~fd_to_write
    <3>1. Unhandled' = Unhandled
      BY <1>11, <2>2 DEF EndParse, Unhandled, network
    <3> QED
      BY <1>1, <2>1, <3>1
  <2>3. CASE fd_to_write
    BY <2>1, <2>3 DEF Polite, OneLine, NoneWhileSending
  <2> QED
    BY <2>2, <2>3
<1>12. CASE SendChunk \/ SendDone \/ NothingToWrite
  <2>1. UNCHANGED <<buf, rx, fd_to_write>> /\ pc' \notin {"poll", "parse"}
    BY <1>12 DEF SendChunk, SendDone, NothingToWrite, network
  <2>2. Live /\ (fd_to_send' # NoFile => fd_to_send # NoFile)
    BY <1>12 DEF SendChunk, SendDone, NothingToWrite, WriteEvent, Live
  <2> QED
    BY <2>1, <2>2 DEF Polite, OneLine, NoneWhileSending, NoneAfterEnd, Unhandled
<1>13. CASE Settle
  <2>1. UNCHANGED <<buf, rx>> /\ Live /\ NoneAfterEnd'
    BY <1>13 DEF Settle, network, Live, NoneAfterEnd
  <2>2. CASE is_end
    BY <1>2, <1>13, <2>2 DEF Settle, Live
  <2>3. CASE ~is_end
    BY <1>1, <1>13, <2>1, <2>3 DEF Settle, Unhandled
  <2> QED
    BY <2>2, <2>3
<1> QED
  BY <1>4, <1>5, <1>6, <1>7, <1>8, <1>9, <1>10, <1>11, <1>12, <1>13 DEF Next, Trigger

(* The connection as Session sees it, by its parts.                        *)
Inbox == IF Ended THEN <<>> ELSE Unhandled

LEMMA Stutters ==
  ASSUME UNCHANGED <<Mode, Inbox, handled, file>>
  PROVE  [Promised!Next]_(Promised!svars)
BY DEF Promised!svars, Inbox, Unhandled

LEMMA HangsUp ==
  ASSUME Mode' = "closed", Inbox' = <<>>, UNCHANGED <<handled, file>>
  PROVE  [Promised!Next]_(Promised!svars)
<1>1. CASE Mode = "closed"
  <2>1. Ended
    BY <1>1 DEF Mode
  <2> QED
    BY <1>1, <2>1, Stutters DEF Inbox
<1>2. CASE Mode # "closed"
  BY <1>2 DEF Promised!Next, Promised!HangUp, Inbox, Unhandled
<1> QED
  BY <1>1, <1>2

LEMMA RefineInit == Init => Promised!Init
BY DEF Init, Promised!Init, Mode, Ended

(* A line is carried out in normal mode, and leads to the mode Session     *)
(* says, or back to normal mode, or to the end of the connection.          *)
LEMMA CommandStep ==
  ASSUME TypeOK, TypeOK', Polite, NEW n \in 1 .. Len(buf),
         Plain(n) \/ Cat(n) \/ Recv(n) \/ Up(n)
  PROVE  Promised!Command
<1>1. TakeLine(n) /\ pc = "parse" /\ pc' \in {"exited", "parse"}
  BY LineTaken
<1>2. /\ ~is_end /\ ~fd_to_write /\ fd_to_send = NoFile
      /\ n = Len(buf) /\ n = Len(Unhandled) /\ Unhandled = buf /\ Unhandled' = <<>>
  BY <1>1, LastLine
<1>3. Mode = "normal" /\ Inbox = Unhandled
  BY <1>1, <1>2 DEF Mode, Ended, Inbox
<1>4. n \in 1 .. Len(Unhandled) /\ Unhandled[n] = NL
      /\ \A k \in 1 .. n - 1 : Unhandled[k] # NL
  BY <1>1, <1>2 DEF TakeLine, FirstNewline
<1>5. handled' = handled \o SubSeq(Unhandled, 1, n)
  <2>1. Append(Line(n), NL) = SubSeq(buf, 1, n)
    <3>1. buf \in Seq(Word \cup {NL}) /\ n \in 0 .. Len(buf)
      BY DEF TypeOK
    <3>2. SubSeq(buf, 1, n) = SubSeq(buf, 1, n - 1) \o <<buf[n]>>
      BY <3>1, SubSeqRecursiveSecond, LenProperties
    <3>3. SubSeq(buf, 1, n - 1) \in Seq(Word \cup {NL}) /\ buf[n] \in Word \cup {NL}
      BY <3>1, CutAt, ElementOfSeq
    <3>4. Append(SubSeq(buf, 1, n - 1), buf[n]) = SubSeq(buf, 1, n)
      BY <3>2, <3>3, AppendIsConcat
    <3> QED
      BY <1>1, <3>4 DEF TakeLine, FirstNewline, Line
  <2> QED
    BY <1>1, <1>2, <2>1 DEF TakeLine
<1>6. SubSeq(Unhandled, n + 1, Len(Unhandled)) = <<>>
  BY <1>2, <1>4, UnhandledIs, SubSeqEmpty
<1>7. Inbox' = <<>>
  BY <1>2 DEF Inbox
<1>8. Mode' \in {"normal", "closed", Promised!Success(Line(n))}
  <2>1. CASE Plain(n)
    BY <1>1, <1>2, <2>1 DEF Plain, Mode, Ended
  <2>2. CASE Cat(n)
    BY <1>1, <1>2, <2>2 DEF Cat, Mode, Ended, Promised!Success
  <2>3. CASE Recv(n)
    BY <1>1, <1>2, <2>3 DEF Recv, Mode, Ended, Promised!Success
  <2>4. CASE Up(n)
    BY <1>1, <1>2, <2>4 DEF Up, Mode, Ended, Promised!Success
  <2> QED
    BY <2>1, <2>2, <2>3, <2>4
<1>9. Line(n) = SubSeq(Unhandled, 1, n - 1)
  BY <1>2 DEF Line
<1>10. file' = file
  BY <1>1 DEF TakeLine
<1> QED
  BY <1>3, <1>4, <1>5, <1>6, <1>7, <1>8, <1>9, <1>10
     DEF Promised!Command, Inbox, Unhandled

(* Every other step is one of Session, or nothing to it.                   *)
LEMMA RefineStep ==
  ASSUME INTERACTIVE, TypeOK, TypeOK', Parsed, Polite, Polite', [Next]_vars
  PROVE  [Promised!Next]_(Promised!svars)
<1>1. CASE UNCHANGED vars
  BY <1>1, Stutters DEF vars, object, network, Mode, Ended, Inbox, Unhandled
<1>2. CASE Peer
  <2>1. UNCHANGED <<pc, object, file, handled>> /\ Mode' = Mode /\ Ended' = Ended
    BY <1>2 DEF Peer, object, Mode, Ended
  <2>2. CASE Hang
    BY <2>1, <2>2, Stutters DEF Hang, Inbox, Unhandled, object
  <2>3. ASSUME NEW t \in Token, Send(t) PROVE [Promised!Next]_(Promised!svars)
    <3>1. CASE Ended
      BY <2>1, <3>1, Stutters DEF Inbox
    <3>2. CASE ~Ended
      <4>1. Mode # "closed"
        BY <3>2 DEF Mode
      <4>2. Unhandled' = Append(Unhandled, t)
        <5>1. buf \in Seq(Token) /\ rx \in Seq(Token) /\ <<t>> \in Seq(Token)
          BY <2>3 DEF TypeOK, Token
        <5>2. rx' = rx \o <<t>> /\ Append(Unhandled, t) = Unhandled \o <<t>>
          BY <2>3, <5>1, AppendIsConcat, UnhandledIs DEF Send
        <5>3. (buf \o rx) \o <<t>> = buf \o (rx \o <<t>>)
          BY <5>1, Regroup, Zenon
        <5> QED
          BY <2>1, <5>2, <5>3 DEF Unhandled, object
      <4>3. Promised!Arrive
        BY <2>1, <2>3, <3>2, <4>1, <4>2 DEF Promised!Arrive, Unhandled, Token
      <4> QED
        BY <4>3 DEF Promised!Next
    <3> QED
      BY <3>1, <3>2
  <2> QED
    BY <1>2, <2>2, <2>3 DEF Peer, Token
<1>3. CASE Accept
  <2>1. Unhandled' = <<>>
    <3>1. <<>> \o <<>> = <<>>
      BY EmptySeq, ConcatEmptySeq
    <3> QED
      BY <1>3, <3>1 DEF Accept, Emptied, Unhandled
  <2>2. Mode = "closed" /\ Mode' = "normal" /\ handled' = <<>> /\ file' = <<>>
    BY <1>3 DEF Accept, Mode, Ended
  <2>3. Promised!Open
    BY <2>1, <2>2 DEF Promised!Open, Unhandled
  <2> QED
    BY <2>3 DEF Promised!Next
<1>4. CASE AcceptReset \/ Respawn \/ NothingToWrite
  <2>1. Ended' /\ UNCHANGED <<handled, file>>
    BY <1>4 DEF AcceptReset, Respawn, NothingToWrite, Ended, network
  <2> QED
    BY <2>1, HangsUp DEF Mode, Inbox
<1>5. CASE FullBuffer \/ ReadEnd
  <2>1. Ended' /\ UNCHANGED <<handled, file>>
    BY <1>5 DEF FullBuffer, ReadEnd, Ended
  <2> QED
    BY <2>1, HangsUp DEF Mode, Inbox
<1>6. CASE Read
  <2>1. Unhandled' = Unhandled
    BY <1>6, ReadMoves
  <2>2. UNCHANGED <<is_end, fd_to_send, fd_to_write, close_after_sent, file, handled>>
        /\ pc = "poll" /\ pc' = "parse"
    BY <1>6 DEF Read, Readable
  <2> QED
    BY <2>1, <2>2, Stutters DEF Mode, Ended, Inbox
<1>7. ASSUME NEW n \in 1 .. Len(buf), Plain(n) \/ Cat(n) \/ Recv(n) \/ Up(n)
      PROVE  [Promised!Next]_(Promised!svars)
  BY <1>7, CommandStep DEF Promised!Next
<1>8. CASE EndParse
  <2>1. UNCHANGED <<is_end, fd_to_send, fd_to_write, close_after_sent, rx, handled>>
        /\ pc = "parse" /\ pc' = "second"
    BY <1>8 DEF EndParse, network
  <2>2. Mode' = Mode /\ Ended' = Ended
    BY <2>1 DEF Mode, Ended
  <2>3. CASE ~fd_to_write \/ buf = <<>>
    <3>1. buf' = buf /\ file' = file
      BY <1>8, <2>3, ConcatEmptySeq DEF EndParse, Stored, TypeOK
    <3> QED
      BY <2>1, <2>2, <3>1, Stutters DEF Inbox, Unhandled
  <2>4. CASE fd_to_write /\ buf # <<>>
    <3>1. ~is_end /\ Mode = "read" /\ ~Ended
      BY <2>1, <2>4 DEF Polite, NoneAfterEnd, Mode, Ended
    <3>2. file' = file \o buf /\ buf' = <<>>
      BY <1>8, <2>4 DEF EndParse, Stored
    <3>3. Len(buf) \in 1 .. Len(Unhandled)
      <4>1. Len(buf) # 0
        BY <2>4, EmptySeq DEF TypeOK
      <4> QED
        BY <4>1, UnhandledIs
    <3>4. SubSeq(Unhandled, 1, Len(buf)) = buf
          /\ SubSeq(Unhandled, Len(buf) + 1, Len(Unhandled)) = rx
      <4>1. buf \in Seq(Token) /\ rx \in Seq(Token)
        BY DEF TypeOK, Token
      <4> QED
        BY <4>1, SubSeqOfConcat1, SubSeqOfConcat2, SubSeqFull, UnhandledIs DEF Unhandled
    <3>5. Unhandled' = rx
      <4>1. <<>> \o rx = rx
        BY ConcatEmptySeq DEF TypeOK
      <4> QED
        BY <2>1, <3>2, <4>1 DEF Unhandled
    <3>6. Promised!Store
      BY <2>1, <2>2, <3>1, <3>2, <3>3, <3>4, <3>5 DEF Promised!Store, Unhandled
    <3> QED
      BY <3>6 DEF Promised!Next
  <2> QED
    BY <2>3, <2>4
<1>9. CASE SendChunk \/ SendDone
  <2>1. /\ UNCHANGED <<buf, rx, fd_to_write, close_after_sent, handled, file>>
        /\ pc \in {"poll", "second"} /\ pc' \in {"exited", "settle"}
        /\ fd_to_send # NoFile /\ Unhandled' = Unhandled
    BY <1>9, ConnectionAssumption DEF SendChunk, SendDone, WriteEvent, network, Unhandled
  <2>2. CASE Ended'
    BY <2>1, <2>2, HangsUp DEF Mode, Inbox
  <2>3. CASE ~Ended'
    <3>1. ~Ended /\ ~fd_to_write
      <4>1. ~is_end'
        BY <2>3 DEF Ended
      <4>2. CASE SendChunk
        BY <2>1, <4>1, <4>2 DEF SendChunk, Ended, Polite, NoneWhileSending, Live
      <4>3. CASE SendDone
        BY <2>1, <4>1, <4>3 DEF SendDone, Ended, Polite, NoneWhileSending, Live
      <4> QED
        BY <1>9, <4>2, <4>3
    <3>2. CASE SendChunk
      <4>1. fd_to_send' # NoFile
        BY <2>1, <3>2, ConnectionAssumption DEF SendChunk, TypeOK
      <4> QED
        BY <2>1, <2>3, <3>1, <4>1, Stutters DEF Mode, Inbox
    <3>3. CASE SendDone
      <4>1. ~close_after_sent /\ fd_to_send' = NoFile
        BY <2>3, <3>3 DEF SendDone, Ended
      <4>2. Mode = "write" /\ Mode' = "normal"
        BY <2>1, <2>3, <3>1, <4>1 DEF Mode
      <4>3. Promised!FileSent
        BY <2>1, <2>3, <3>1, <4>2 DEF Promised!FileSent, Unhandled
      <4> QED
        BY <4>3 DEF Promised!Next
    <3> QED
      BY <1>9, <3>2, <3>3
  <2> QED
    BY <2>2, <2>3
<1>10. CASE NoSecond \/ Settle
  <2>1. UNCHANGED <<buf, rx, is_end, close_after_sent, handled, file>>
        /\ pc \notin {"closed", "exited"} /\ Unhandled' = Unhandled
    BY <1>10 DEF NoSecond, Settle, object, network, Unhandled
  <2>2. CASE is_end
    BY <2>1, <2>2, HangsUp DEF Mode, Inbox, Ended
  <2>3. CASE ~is_end
    <3>1. UNCHANGED <<fd_to_send, fd_to_write>> /\ pc' \notin {"closed", "exited"}
      BY <1>10, <2>3 DEF NoSecond, Settle, object
    <3> QED
      BY <2>1, <2>3, <3>1, Stutters DEF Mode, Inbox, Ended
  <2> QED
    BY <2>2, <2>3
<1> QED
  BY <1>1, <1>2, <1>3, <1>4, <1>5, <1>6, <1>7, <1>8, <1>9, <1>10 DEF Next, Trigger

(* What an interactive client is promised, it gets: the connection carries *)
(* out commands in normal mode only, one after the other, and changes its  *)
(* mode as the state diagram of report.md says, for every size of buf and  *)
(* however the reads cut what is sent.                                     *)
THEOREM SessionIsImplemented == INTERACTIVE => (Spec => ImplementsSession)
<1> SUFFICES ASSUME INTERACTIVE PROVE Spec => ImplementsSession
  OBVIOUS
<1>1. Init => Promised!Init /\ IInv /\ Polite
  BY RefineInit, InvInit, PoliteInit
<1>2. IInv /\ Polite /\ [Next]_vars => IInv' /\ Polite'
  <2> SUFFICES ASSUME IInv, Polite, [Next]_vars PROVE IInv' /\ Polite'
    OBVIOUS
  <2>1. IInv'
    BY InvStep
  <2>2. TypeOK /\ TypeOK' /\ Parsed
    BY <2>1 DEF IInv
  <2> QED
    BY <2>1, <2>2, PoliteStep
<1>3. IInv /\ Polite /\ IInv' /\ Polite' /\ [Next]_vars
        => [Promised!Next]_(Promised!svars)
  BY RefineStep DEF IInv
<1> QED
  BY <1>1, <1>2, <1>3, PTL DEF Spec, ImplementsSession, Promised!Spec

=============================================================================
