----------------------------- MODULE StreamProofs -----------------------------
(***************************************************************************)
(* Proofs about Stream: however read and write cut the bytes, the client   *)
(* prints the line it sent.  What readline has, the bytes on the way       *)
(* there and back, and what writen has left are always one line.           *)
(***************************************************************************)
EXTENDS Stream, SequenceTheorems, TLAPS

Bytes == Seq(Int)

StreamTyped ==
  /\ StreamTypeOK
  /\ sendline \in Bytes /\ unsent \in Bytes /\ recvline \in Bytes
  /\ read_buf \in Bytes /\ echo \in Bytes /\ up \in Bytes /\ down \in Bytes

(* What is on the way after the bytes the client has or can get.           *)
Rest == echo \o (up \o unsent)
Way(rest) == recvline \o (read_buf \o (down \o rest))

(* While the client has a line under way, all of it is on the way, as long *)
(* as the server lives, and else the start of it.                          *)
OneLine ==
  client \in {"write", "read"} =>
    /\ server # "gone" => Way(Rest) = sendline
    /\ \E rest \in Bytes : Way(rest) = sendline

(* Between lines nothing is on the way.                                    *)
Between ==
  /\ client \in {"fgets", "print"} => read_buf = <<>> /\ down = <<>>
  /\ client \in {"fgets", "print"} /\ server # "gone" => up = <<>> /\ echo = <<>>
  /\ client \in {"fgets", "write"} => recvline = <<>>
  /\ client \in {"fgets", "read", "print"} => unsent = <<>>
  /\ server = "read" => echo = <<>>

(* The line that is printed.                                               *)
Printed ==
  client = "print" =>
    recvline = sendline \/ (server = "gone" /\ recvline = Upto(sendline, Len(recvline)))

(* A newline is nowhere but at the end of a line.                          *)
OneNewline == \A k \in 1 .. Len(sendline) - 1 : sendline[k] >= 0

StreamInv == StreamTyped /\ OneLine /\ Between /\ Printed /\ OneNewline

-----------------------------------------------------------------------------
(* Sequences.                                                              *)

LEMMA Nothing == <<>> \in Bytes /\ Len(<<>>) = 0
BY EmptySeq DEF Bytes

LEMMA Cats ==
  ASSUME NEW a \in Bytes, NEW b \in Bytes
  PROVE  a \o b \in Bytes /\ Len(a \o b) = Len(a) + Len(b) /\ Len(a) \in Nat
BY DEF Bytes

(* Whichever two of the three are joined first, the whole is the same.     *)
Joins(a, b, c) == (a \o b) \o c = a \o (b \o c)

LEMMA Assoc == \A a, b, c \in Bytes : Joins(a, b, c)
<1>1. SUFFICES ASSUME NEW a \in Bytes, NEW b \in Bytes, NEW c \in Bytes
               PROVE  Joins(a, b, c)
  OBVIOUS
<1>2. a \in Seq(Int) /\ b \in Seq(Int) /\ c \in Seq(Int)
  BY DEF Bytes
<1> QED
  BY <1>2, ConcatAssociative DEF Joins

LEMMA NoneBefore == \A a \in Bytes : <<>> \o a = a /\ a \o <<>> = a
BY DEF Bytes

(* A sequence is what has been taken of it, and what is left.              *)
LEMMA Pieces ==
  ASSUME NEW a \in Bytes, NEW n \in 0 .. Len(a)
  PROVE  /\ Upto(a, n) \in Bytes /\ Len(Upto(a, n)) = n
         /\ From(a, n) \in Bytes /\ Len(From(a, n)) = Len(a) - n
         /\ Upto(a, n) \o From(a, n) = a
<1>1. Len(a) \in Nat /\ a \in Seq(Int) /\ n \in Nat /\ n <= Len(a)
  BY DEF Bytes
<1>2. Upto(a, n) \in Seq(Int) /\ Len(Upto(a, n)) = n
  BY <1>1 DEF Upto
<1>3. From(a, n) \in Seq(Int) /\ Len(From(a, n)) = Len(a) - n
  BY <1>1 DEF From
<1>4. SubSeq(a, 1, n) \o SubSeq(a, n + 1, Len(a)) = SubSeq(a, 1, Len(a))
  <2>1. n \in 1 - 1 .. Len(a) /\ Len(a) \in n .. Len(a) /\ 1 \in 1 .. Len(a) + 1
    BY <1>1
  <2> QED
    BY <1>1, <2>1, ConcatAdjacentSubSeq
<1>5. SubSeq(a, 1, Len(a)) = a
  BY <1>1, SubSeqFull
<1>6. Upto(a, n) \o From(a, n) = a
  BY <1>4, <1>5 DEF Upto, From
<1> QED
  BY <1>2, <1>3, <1>6 DEF Bytes

(* Bytes that move from one place to the one before it leave the whole.    *)
LEMMA Moved ==
  ASSUME NEW a \in Bytes, NEW b \in Bytes, NEW x \in Bytes, NEW n \in 0 .. Len(b)
  PROVE  (a \o Upto(b, n)) \o (From(b, n) \o x) = a \o (b \o x)
<1>1. PICK u \in Bytes, f \in Bytes : u = Upto(b, n) /\ f = From(b, n) /\ u \o f = b
  BY Pieces
<1>2. PICK y \in Bytes : y = f \o x
  BY Cats, Zenon
<1>3. Joins(a, u, y) /\ Joins(u, f, x)
  BY Assoc, Zenon
<1>4. (a \o u) \o y = a \o (u \o y) /\ (u \o f) \o x = u \o (f \o x)
  BY <1>3, Zenon DEF Joins
<1> QED
  BY <1>1, <1>2, <1>4, Zenon

(* The start of a line that has as many bytes is the line.                 *)
LEMMA AllOfIt ==
  ASSUME NEW a \in Bytes, NEW b \in Bytes, NEW d \in Bytes, NEW x \in Bytes,
         Len(a) >= Len(a \o (b \o (d \o x)))
  PROVE  a \o (b \o (d \o x)) = a /\ b = <<>> /\ d = <<>> /\ x = <<>>
<1>1. d \o x \in Bytes /\ b \o (d \o x) \in Bytes
  BY Cats
<1>2. /\ Len(a \o (b \o (d \o x))) = Len(a) + Len(b \o (d \o x))
      /\ Len(b \o (d \o x)) = Len(b) + Len(d \o x)
      /\ Len(d \o x) = Len(d) + Len(x)
      /\ Len(a) \in Nat /\ Len(b) \in Nat /\ Len(d) \in Nat /\ Len(x) \in Nat
  BY <1>1, Cats, Nothing
<1>3. Len(b) = 0 /\ Len(d) = 0 /\ Len(x) = 0
  BY <1>2
<1>4. b = <<>> /\ d = <<>> /\ x = <<>>
  BY <1>3, EmptySeq DEF Bytes
<1>5. a \o (b \o (d \o x)) = a
  BY <1>4, NoneBefore, Nothing
<1> QED
  BY <1>4, <1>5

(* The start of a line is the line up to there.                            *)
LEMMA StartOfLine ==
  ASSUME NEW a \in Bytes, NEW x \in Bytes
  PROVE  /\ Upto(a \o x, Len(a)) = a
         /\ \A k \in 1 .. Len(a) : (a \o x)[k] = a[k]
<1>1. a \in Seq(Int) /\ x \in Seq(Int) /\ Len(a) \in Nat /\ Len(x) \in Nat
  BY DEF Bytes
<1>2. a \o x \in Seq(Int) /\ Len(a \o x) = Len(a) + Len(x)
  BY <1>1
<1>3. \A k \in 1 .. Len(a) : (a \o x)[k] = a[k]
  BY <1>1
<1>4. Upto(a \o x, Len(a)) \in Seq(Int) /\ Len(Upto(a \o x, Len(a))) = Len(a)
  BY <1>1, <1>2 DEF Upto
<1>5. \A k \in 1 .. Len(a) : Upto(a \o x, Len(a))[k] = a[k]
  BY <1>1, <1>2, <1>3 DEF Upto
<1> QED
  BY <1>1, <1>3, <1>4, <1>5, SeqEqual

(* What is between one and the smaller of two numbers.                     *)
LEMMA Leasts ==
  ASSUME NEW a \in Int, NEW b \in Int, NEW n \in 1 .. Least(a, b)
  PROVE  n \in 1 .. a /\ n \in 1 .. b
BY DEF Least

(* Bytes moved behind others.                                              *)
LEMMA MovedType ==
  ASSUME NEW a \in Bytes, NEW b \in Bytes, NEW n \in 1 .. Len(b)
  PROVE  /\ a \o Upto(b, n) \in Bytes /\ Len(a \o Upto(b, n)) = Len(a) + n
         /\ From(b, n) \in Bytes /\ Len(From(b, n)) = Len(b) - n
         /\ Upto(b, n) \in Bytes /\ Len(Upto(b, n)) = n
<1>1. n \in 0 .. Len(b)
  OBVIOUS
<1>2. /\ Upto(b, n) \in Bytes /\ Len(Upto(b, n)) = n
      /\ From(b, n) \in Bytes /\ Len(From(b, n)) = Len(b) - n
  BY <1>1, Pieces
<1> QED
  BY <1>2, Cats

(* The first byte of a sequence.                                           *)
LEMMA FirstByte ==
  ASSUME NEW a \in Bytes, NEW b \in Bytes, b # <<>>
  PROVE  /\ 1 \in 1 .. Len(b) /\ Head(b) \in Int
         /\ Append(a, Head(b)) = a \o Upto(b, 1) /\ Tail(b) = From(b, 1)
         /\ Append(a, Head(b))[Len(a) + 1] = Head(b)
<1>1. b \in Seq(Int) /\ a \in Seq(Int) /\ Len(b) \in Nat /\ Len(b) >= 1
  BY EmptySeq DEF Bytes
<1>2. Head(b) \in Int /\ Head(b) = b[1] /\ Tail(b) = From(b, 1)
  BY <1>1 DEF From
<1>3. Upto(b, 1) = <<Head(b)>>
  <2>1. Upto(b, 1) \in Seq(Int) /\ Len(Upto(b, 1)) = 1 /\ Upto(b, 1)[1] = b[1]
    BY <1>1 DEF Upto
  <2>2. <<Head(b)>> \in Seq(Int) /\ Len(<<Head(b)>>) = 1 /\ <<Head(b)>>[1] = b[1]
    BY <1>2
  <2> QED
    BY <2>1, <2>2, SeqEqual
<1>4. Append(a, Head(b)) = a \o <<Head(b)>> /\ Append(a, Head(b))[Len(a) + 1] = Head(b)
  BY <1>1, <1>2, AppendProperties, AppendIsConcat
<1>5. 1 \in 1 .. Len(b)
  BY <1>1
<1> QED
  BY <1>2, <1>3, <1>4, <1>5

-----------------------------------------------------------------------------
(* Types.                                                                  *)

(* The line that is typed.                                                 *)
LEMMA FgetsLine ==
  ASSUME StreamTyped, Fgets
  PROVE  /\ sendline' \in Bytes /\ Len(sendline') < MAXLINE /\ sendline' # <<>>
         /\ \A k \in 1 .. Len(sendline') - 1 : sendline'[k] >= 0
         /\ typed' \in 0 .. TYPED /\ eof' \in BOOLEAN
<1>1. PICK n \in Sizes, newline \in BOOLEAN :
        /\ typed + n <= TYPED
        /\ sendline' = [k \in 1 .. n |->
                          IF k = n /\ newline THEN -(typed + k) ELSE typed + k]
        /\ eof' = ~Whole(sendline')
        /\ typed' = typed + n
  BY DEF Fgets
<1>2. n \in Nat /\ 1 <= n /\ n < MAXLINE /\ typed \in Nat
  BY StreamAssumption DEF Sizes, StreamTyped, StreamTypeOK
<1>3. sendline' \in [1 .. n -> Int]
  BY <1>1, <1>2
<1>4. sendline' \in Seq(Int) /\ Len(sendline') = n
  BY <1>2, <1>3
<1>5. \A k \in 1 .. n - 1 : sendline'[k] >= 0
  BY <1>1, <1>2
<1>6. typed' \in 0 .. TYPED
  BY <1>1, <1>2
<1>7. eof' \in BOOLEAN
  BY <1>1
<1> QED
  BY <1>2, <1>4, <1>5, <1>6, <1>7, Nothing DEF Bytes

(* Steps that move bytes, and leave their number within the buffers.       *)
LEMMA WriteMoves ==
  ASSUME StreamTyped, Write
  PROVE  \E n \in 1 .. Len(unsent) :
           /\ up' = up \o Upto(unsent, n) /\ unsent' = From(unsent, n)
           /\ Len(up) + n <= CAPACITY
<1>1. Len(unsent) \in Int /\ CAPACITY - Len(up) \in Int
  BY Cats, StreamAssumption DEF StreamTyped
<1>2. PICK n \in 1 .. Least(Len(unsent), CAPACITY - Len(up)) :
        up' = up \o Upto(unsent, n) /\ unsent' = Advanced(unsent, n)
  BY DEF Write
<1>3. n \in 1 .. Len(unsent) /\ n \in 1 .. CAPACITY - Len(up)
  BY <1>1, <1>2, Leasts
<1>4. Len(up) + n <= CAPACITY
  BY <1>1, <1>3, Cats, StreamAssumption DEF StreamTyped
<1> QED
  BY <1>2, <1>3, <1>4 DEF Advanced

LEMMA FillMoves ==
  ASSUME StreamTyped, Fill
  PROVE  \E n \in 1 .. Len(down) :
           read_buf' = Upto(down, n) /\ down' = From(down, n) /\ n <= MAXLINE
<1>1. Len(down) \in Int /\ MAXLINE \in Int
  BY Cats, StreamAssumption DEF StreamTyped
<1> QED
  BY <1>1, Leasts DEF Fill, Readable

LEMMA ServerReadMoves ==
  ASSUME StreamTyped, ServerRead
  PROVE  \E n \in 1 .. Len(up) :
           echo' = Upto(up, n) /\ up' = From(up, n) /\ n <= MAXLINE
<1>1. Len(up) \in Int /\ MAXLINE \in Int
  BY Cats, StreamAssumption DEF StreamTyped
<1> QED
  BY <1>1, Leasts DEF ServerRead, Readable

LEMMA ServerWriteMoves ==
  ASSUME StreamTyped, ServerWrite
  PROVE  \E n \in 1 .. Len(echo) :
           /\ down' = down \o Upto(echo, n) /\ echo' = From(echo, n)
           /\ Len(down) + n <= CAPACITY
<1>1. Len(echo) \in Int /\ CAPACITY - Len(down) \in Int
  BY Cats, StreamAssumption DEF StreamTyped
<1>2. PICK n \in 1 .. Least(Len(echo), CAPACITY - Len(down)) :
        down' = down \o Upto(echo, n) /\ echo' = Advanced(echo, n)
  BY DEF ServerWrite
<1>3. n \in 1 .. Len(echo) /\ n \in 1 .. CAPACITY - Len(down)
  BY <1>1, <1>2, Leasts
<1>4. Len(down) + n <= CAPACITY
  BY <1>1, <1>3, Cats, StreamAssumption DEF StreamTyped
<1> QED
  BY <1>2, <1>3, <1>4 DEF Advanced

(* Every step keeps the types.                                             *)
LEMMA StreamTypeStep == StreamTyped /\ [StreamNext]_talk => StreamTyped'
<1> SUFFICES ASSUME StreamTyped, [StreamNext]_talk PROVE StreamTyped'
  OBVIOUS
<1> USE StreamAssumption DEF StreamTyped, StreamTypeOK, input
<1>0. /\ <<>> \in Bytes /\ Len(<<>>) = 0
      /\ \A a \in Bytes : Len(a) \in Nat
      /\ 0 < MAXLINE /\ 0 <= CAPACITY
  BY Nothing, Cats
<1>1. CASE Fgets
  BY <1>1, FgetsLine DEF Fgets
<1>2. CASE InputEnds
  BY <1>2 DEF InputEnds
<1>3. CASE Write
  <2>1. PICK n \in 1 .. Len(unsent) :
          /\ up' = up \o Upto(unsent, n) /\ unsent' = From(unsent, n)
          /\ Len(up) + n <= CAPACITY
    BY <1>3, WriteMoves
  <2>2. up' \in Bytes /\ unsent' \in Bytes /\ Len(up') <= CAPACITY
    BY <2>1, MovedType
  <2> QED
    BY <1>3, <2>2 DEF Write
<1>4. CASE WriteReset
  BY <1>0, <1>4 DEF WriteReset
<1>5. CASE WriteFails \/ Written \/ LineFull \/ EndOfStream \/ ReadFails \/ Fputs
  BY <1>0, <1>5 DEF WriteFails, Written, LineFull, EndOfStream, ReadFails, Fputs
<1>6. CASE TakeByte
  <2>1. 1 \in 1 .. Len(read_buf)
        /\ recvline' = recvline \o Upto(read_buf, 1) /\ read_buf' = From(read_buf, 1)
    BY <1>6, FirstByte DEF TakeByte
  <2> DEFINE one == 1
  <2> HIDE DEF one
  <2>2. one \in 1 .. Len(read_buf) /\ one = 1
    BY <2>1 DEF one
  <2>3. /\ recvline \o Upto(read_buf, one) \in Bytes
        /\ Len(recvline \o Upto(read_buf, one)) = Len(recvline) + one
        /\ From(read_buf, one) \in Bytes
        /\ Len(From(read_buf, one)) = Len(read_buf) - one
    BY <2>2, MovedType
  <2>4. /\ recvline' \in Bytes /\ Len(recvline') = Len(recvline) + 1
        /\ read_buf' \in Bytes /\ Len(read_buf') = Len(read_buf) - 1
    BY <2>1, <2>2, <2>3
  <2>5. Len(recvline') < MAXLINE /\ Len(read_buf') <= MAXLINE
    BY <1>0, <1>6, <2>4 DEF TakeByte, Room
  <2> QED
    BY <1>6, <2>4, <2>5 DEF TakeByte
<1>7. CASE Fill
  <2>1. PICK n \in 1 .. Len(down) :
          read_buf' = Upto(down, n) /\ down' = From(down, n) /\ n <= MAXLINE
    BY <1>7, FillMoves
  <2>2. /\ read_buf' \in Bytes /\ Len(read_buf') = n
        /\ down' \in Bytes /\ Len(down') = Len(down) - n
    BY <2>1, MovedType
  <2>3. Len(read_buf') <= MAXLINE /\ Len(down') <= CAPACITY
    BY <1>0, <2>1, <2>2
  <2> QED
    BY <1>7, <2>2, <2>3 DEF Fill
<1>8. CASE ServerRead
  <2>1. PICK n \in 1 .. Len(up) :
          echo' = Upto(up, n) /\ up' = From(up, n) /\ n <= MAXLINE
    BY <1>8, ServerReadMoves
  <2>2. /\ echo' \in Bytes /\ Len(echo') = n
        /\ up' \in Bytes /\ Len(up') = Len(up) - n
    BY <2>1, MovedType
  <2>3. Len(echo') <= MAXLINE /\ Len(up') <= CAPACITY
    BY <1>0, <2>1, <2>2
  <2> QED
    BY <1>8, <2>2, <2>3 DEF ServerRead
<1>9. CASE ServerWrite
  <2>1. PICK n \in 1 .. Len(echo) :
          /\ down' = down \o Upto(echo, n) /\ echo' = From(echo, n)
          /\ Len(down) + n <= CAPACITY
    BY <1>9, ServerWriteMoves
  <2>2. /\ down' \in Bytes /\ Len(down') <= CAPACITY
        /\ echo' \in Bytes /\ Len(echo') = Len(echo) - n
    BY <2>1, MovedType
  <2>3. Len(echo') <= MAXLINE
    BY <1>0, <2>1, <2>2
  <2> QED
    BY <1>9, <2>2, <2>3 DEF ServerWrite
<1>10. CASE Echoed \/ ServerEnds
  BY <1>10 DEF Echoed, ServerEnds
<1>11. CASE Dies
  <2>1. /\ down' \in Bytes /\ Len(down') <= CAPACITY /\ broken' \in BOOLEAN
    BY <1>0, <1>11 DEF Dies
  <2>2. echo' \in Bytes /\ Len(echo') <= MAXLINE /\ up' \in Bytes /\ Len(up') <= CAPACITY
    BY <1>0, <1>11 DEF Dies
  <2> QED
    BY <1>11, <2>1, <2>2 DEF Dies
<1>12. CASE UNCHANGED talk
  BY <1>12 DEF talk
<1> QED
  BY <1>1, <1>2, <1>3, <1>4, <1>5, <1>6, <1>7, <1>8, <1>9, <1>10, <1>11, <1>12
  DEF StreamNext, ClientStep, ServerStep

-----------------------------------------------------------------------------
(* The line.                                                               *)

LEMMA MovedLast ==
  ASSUME NEW a \in Bytes, NEW b \in Bytes, NEW n \in 0 .. Len(b)
  PROVE  (a \o Upto(b, n)) \o From(b, n) = a \o b
<1>1. From(b, n) \in Bytes
  BY Pieces
<1>2. (a \o Upto(b, n)) \o (From(b, n) \o <<>>) = a \o (b \o <<>>)
  BY Moved, Nothing
<1> QED
  BY <1>1, <1>2, NoneBefore

LEMMA MovedFirst ==
  ASSUME NEW b \in Bytes, NEW x \in Bytes, NEW n \in 0 .. Len(b)
  PROVE  Upto(b, n) \o (From(b, n) \o x) = b \o x
<1>1. Upto(b, n) \in Bytes /\ b \o x \in Bytes
  BY Pieces, Cats
<1>2. (<<>> \o Upto(b, n)) \o (From(b, n) \o x) = <<>> \o (b \o x)
  BY Moved, Nothing
<1> QED
  BY <1>1, <1>2, NoneBefore

LEMMA RestType == StreamTyped => Rest \in Bytes
BY Cats DEF StreamTyped, Rest

(* What readline has is the whole line as soon as it has as many bytes.    *)
LEMMA Complete ==
  ASSUME StreamTyped, NEW r \in Bytes, NEW b \in Bytes,
         server # "gone" => r \o (b \o (down \o Rest)) = sendline,
         NEW rest \in Bytes, r \o (b \o (down \o rest)) = sendline,
         Len(r) >= Len(sendline)
  PROVE  /\ r = sendline /\ b = <<>> /\ down = <<>>
         /\ server # "gone" => up = <<>> /\ echo = <<>> /\ unsent = <<>>
<1>0. /\ down \in Bytes /\ sendline \in Bytes
      /\ up \in Bytes /\ echo \in Bytes /\ unsent \in Bytes
  BY DEF StreamTyped
<1>1. r = sendline /\ b = <<>> /\ down = <<>>
  <2>1. Len(r) >= Len(r \o (b \o (down \o rest)))
    OBVIOUS
  <2>2. r \o (b \o (down \o rest)) = r /\ b = <<>> /\ down = <<>>
    BY <1>0, <2>1, AllOfIt
  <2> QED
    BY <2>2
<1>2. ASSUME server # "gone" PROVE up = <<>> /\ echo = <<>> /\ unsent = <<>>
  <2>1. Rest \in Bytes
    BY RestType
  <2>2. Len(r) >= Len(r \o (b \o (down \o Rest)))
    BY <1>2
  <2>3. Rest = <<>>
    BY <1>0, <2>1, <2>2, AllOfIt
  <2>4. <<>> \o (echo \o (up \o unsent)) = <<>>
    BY <2>1, <2>3, NoneBefore DEF Rest
  <2>5. Len(<<>>) >= Len(<<>> \o (echo \o (up \o unsent)))
    BY <2>4, Nothing
  <2> QED
    BY <1>0, <2>5, AllOfIt, Nothing
<1> QED
  BY <1>1, <1>2

(* The start of a line with a newline at its end is the line.              *)
LEMMA NewlineIsLast ==
  ASSUME StreamTyped, OneNewline, NEW r \in Bytes, NEW x \in Bytes,
         r \o x = sendline, r # <<>>, r[Len(r)] < 0
  PROVE  Len(r) >= Len(sendline)
<1>1. /\ Len(r) \in Nat /\ Len(r) # 0
      /\ Len(sendline) \in Nat /\ Len(sendline) = Len(r) + Len(x) /\ Len(x) \in Nat
  BY Cats, EmptySeq DEF Bytes
<1>2. sendline[Len(r)] = r[Len(r)]
  BY <1>1, StartOfLine
<1>3. r[Len(r)] \in Int
  BY <1>1 DEF Bytes
<1>4. ~(Len(r) \in 1 .. Len(sendline) - 1)
  BY <1>2, <1>3 DEF OneNewline
<1> QED
  BY <1>1, <1>4

(* TakeByte moves a byte, and ends the line only if it is complete.        *)
LEMMA TakeByteMoves ==
  ASSUME StreamTyped, TakeByte
  PROVE  /\ recvline' = recvline \o Upto(read_buf, 1)
         /\ read_buf' = From(read_buf, 1)
         /\ 1 \in 0 .. Len(read_buf)
         /\ \A x \in Bytes :
              recvline' \o (read_buf' \o x) = recvline \o (read_buf \o x)
         /\ client' = "print" => recvline' # <<>> /\ recvline'[Len(recvline')] < 0
<1>1. recvline \in Bytes /\ read_buf \in Bytes /\ read_buf # <<>>
  BY DEF TakeByte, StreamTyped
<1>2. /\ 1 \in 1 .. Len(read_buf)
      /\ Append(recvline, Head(read_buf)) = recvline \o Upto(read_buf, 1)
      /\ Tail(read_buf) = From(read_buf, 1)
      /\ Append(recvline, Head(read_buf))[Len(recvline) + 1] = Head(read_buf)
      /\ Head(read_buf) \in Int
  BY <1>1, FirstByte
<1>3. 1 \in 0 .. Len(read_buf)
  BY <1>2
<1>4. \A x \in Bytes :
        (recvline \o Upto(read_buf, 1)) \o (From(read_buf, 1) \o x)
          = recvline \o (read_buf \o x)
  BY <1>1, <1>3, Moved
<1>5. /\ recvline' = Append(recvline, Head(read_buf)) /\ read_buf' = Tail(read_buf)
      /\ client' = "print" => Head(read_buf) < 0
  BY DEF TakeByte
<1>6. /\ Append(recvline, Head(read_buf)) # <<>>
      /\ Len(Append(recvline, Head(read_buf))) = Len(recvline) + 1
  BY <1>1, <1>2, AppendProperties DEF Bytes
<1> QED
  BY <1>2, <1>3, <1>4, <1>5, <1>6

(* A line that readline returns while the server lives, or with a newline, *)
(* is the whole line.                                                      *)
LEMMA TakesAll ==
  ASSUME StreamInv, StreamTyped', TakeByte, client' = "print"
  PROVE  /\ recvline' = sendline /\ read_buf' = <<>> /\ down = <<>>
         /\ server # "gone" => up = <<>> /\ echo = <<>> /\ unsent = <<>>
<1> USE DEF StreamInv
<1>1. client = "read"
  BY DEF TakeByte
<1>2. PICK rest \in Bytes : Way(rest) = sendline
  BY <1>1 DEF OneLine
<1>3. /\ down \in Bytes /\ Rest \in Bytes /\ recvline' \in Bytes /\ read_buf' \in Bytes
  BY RestType DEF StreamTyped
<1>4. down \o rest \in Bytes /\ down \o Rest \in Bytes
  BY <1>3, Cats
<1>5. recvline' \o (read_buf' \o (down \o rest)) = sendline
  BY <1>2, <1>4, TakeByteMoves DEF Way
<1>6. server # "gone" => recvline' \o (read_buf' \o (down \o Rest)) = sendline
  BY <1>1, <1>4, TakeByteMoves DEF Way, OneLine
<1>7. read_buf' \o (down \o rest) \in Bytes
  BY <1>3, <1>4, Cats
<1>8. Len(recvline') >= Len(sendline)
  BY <1>3, <1>5, <1>7, NewlineIsLast, TakeByteMoves
<1> QED
  BY <1>3, <1>5, <1>6, <1>8, Complete

LEMMA FullIsAll ==
  ASSUME StreamInv, LineFull
  PROVE  /\ recvline = sendline /\ read_buf = <<>> /\ down = <<>>
         /\ server # "gone" => up = <<>> /\ echo = <<>> /\ unsent = <<>>
<1> USE DEF StreamInv
<1>1. client = "read" /\ Len(recvline) + 1 >= MAXLINE
  BY StreamAssumption, Cats DEF LineFull, Room, StreamTyped
<1>2. PICK rest \in Bytes : Way(rest) = sendline
  BY <1>1 DEF OneLine
<1>3. server # "gone" => Way(Rest) = sendline
  BY <1>1 DEF OneLine
<1>4. recvline \in Bytes /\ read_buf \in Bytes /\ sendline \in Bytes
  BY DEF StreamTyped
<1>5. Len(recvline) \in Nat /\ Len(sendline) \in Nat
  BY <1>4, Cats
<1>6. Len(sendline) < MAXLINE /\ MAXLINE \in Nat
  BY StreamAssumption DEF StreamTyped, StreamTypeOK
<1>7. Len(recvline) >= Len(sendline)
  BY <1>1, <1>5, <1>6
<1> QED
  BY <1>2, <1>3, <1>4, <1>7, Complete DEF Way

-----------------------------------------------------------------------------
(* Steps.                                                                  *)

(* A newline is typed at the end of a line only.                           *)
LEMMA OneNewlineStep == StreamInv /\ [StreamNext]_talk => OneNewline'
<1> SUFFICES ASSUME StreamInv, [StreamNext]_talk PROVE OneNewline'
  OBVIOUS
<1> USE DEF StreamInv, OneNewline, input
<1>1. CASE Fgets
  BY <1>1, FgetsLine
<1>2. CASE Fputs
  BY <1>2, Nothing DEF Fputs
<1>3. CASE UNCHANGED sendline
  BY <1>3
<1> QED
  BY <1>1, <1>2, <1>3
  DEF StreamNext, ClientStep, ServerStep, InputEnds, Write, WriteReset, WriteFails,
      Written, TakeByte, LineFull, Fill, EndOfStream, ReadFails, ServerRead,
      ServerWrite, Echoed, ServerEnds, Dies, talk

(* Nothing is on the way when a line is complete, nor before the next one. *)
LEMMA BetweenStep == StreamInv /\ StreamTyped' /\ [StreamNext]_talk => Between'
<1> SUFFICES ASSUME StreamInv, StreamTyped', [StreamNext]_talk PROVE Between'
  OBVIOUS
<1> USE DEF StreamInv, Between, input
<1>0. Len(<<>>) = 0
  BY Nothing
<1>1. CASE Fgets \/ InputEnds
  BY <1>1 DEF Fgets, InputEnds
<1>2. CASE Write \/ WriteReset \/ WriteFails \/ Written
  BY <1>2 DEF Write, WriteReset, WriteFails, Written
<1>3. CASE TakeByte
  BY <1>3, TakesAll DEF TakeByte
<1>4. CASE LineFull
  BY <1>4, FullIsAll DEF LineFull
<1>5. CASE Fill
  BY <1>5 DEF Fill
<1>6. CASE EndOfStream \/ ReadFails \/ Fputs
  BY <1>6 DEF EndOfStream, ReadFails, Fputs
<1>7. CASE ServerRead
  <2>1. \E n \in 1 .. Len(up) : TRUE
    BY <1>7, ServerReadMoves
  <2>2. up # <<>>
    BY <1>0, <2>1
  <2> QED
    BY <1>7, <2>2 DEF ServerRead
<1>8. CASE ServerWrite
  BY <1>8 DEF ServerWrite
<1>9. CASE Echoed \/ ServerEnds
  BY <1>9 DEF Echoed, ServerEnds
<1>10. CASE Dies
  BY <1>10 DEF Dies
<1>11. CASE UNCHANGED talk
  BY <1>11 DEF talk
<1> QED
  BY <1>1, <1>2, <1>3, <1>4, <1>5, <1>6, <1>7, <1>8, <1>9, <1>10, <1>11
  DEF StreamNext, ClientStep, ServerStep

(* The line that is printed is the one that was sent, or what came of it.  *)
LEMMA PrintedStep == StreamInv /\ StreamTyped' /\ [StreamNext]_talk => Printed'
<1> SUFFICES ASSUME StreamInv, StreamTyped', [StreamNext]_talk PROVE Printed'
  OBVIOUS
<1> USE DEF StreamInv, Printed, input
<1>1. CASE TakeByte
  BY <1>1, TakesAll DEF TakeByte
<1>2. CASE LineFull
  BY <1>2, FullIsAll DEF LineFull
<1>3. CASE EndOfStream
  <2>1. client = "read" /\ read_buf = <<>> /\ down = <<>> /\ server = "gone"
    BY <1>3 DEF EndOfStream
  <2>2. PICK rest \in Bytes : Way(rest) = sendline
    BY <2>1 DEF OneLine
  <2>3. recvline \o rest = sendline
    BY <2>1, <2>2, NoneBefore DEF Way
  <2>4. recvline \in Bytes
    BY DEF StreamTyped
  <2>5. Upto(recvline \o rest, Len(recvline)) = recvline
    BY <2>4, StartOfLine
  <2> QED
    BY <1>3, <2>1, <2>3, <2>5 DEF EndOfStream
<1>4. ASSUME client' = client, UNCHANGED <<recvline, sendline>>,
             server = "gone" => server' = "gone"
      PROVE  Printed'
  BY <1>4
<1>5. CASE ServerRead \/ ServerWrite \/ Echoed \/ ServerEnds \/ Dies
  BY <1>4, <1>5 DEF ServerRead, ServerWrite, Echoed, ServerEnds, Dies
<1>6. CASE Fgets \/ InputEnds \/ Write \/ WriteReset \/ WriteFails \/ Written
           \/ Fill \/ ReadFails \/ Fputs
  BY <1>6 DEF Fgets, InputEnds, Write, WriteReset, WriteFails, Written, Fill,
     ReadFails, Fputs
<1>7. CASE UNCHANGED talk
  BY <1>4, <1>7 DEF talk
<1> QED
  BY <1>1, <1>2, <1>3, <1>5, <1>6, <1>7 DEF StreamNext, ClientStep, ServerStep

(* Steps that leave the places of the line before Rest as they are.        *)
LEMMA SameWay ==
  ASSUME OneLine, client \in {"write", "read"},
         UNCHANGED <<sendline, recvline, read_buf, down>>,
         server' # "gone" => server # "gone" /\ Rest' = Rest
  PROVE  OneLine'
<1>1. PICK rest \in Bytes : Way(rest) = sendline
  BY DEF OneLine
<1>2. recvline' \o (read_buf' \o (down' \o rest)) = sendline'
  BY <1>1 DEF Way
<1>3. server' # "gone" => recvline' \o (read_buf' \o (down' \o Rest')) = sendline'
  BY DEF OneLine, Way
<1> QED
  BY <1>2, <1>3 DEF OneLine, Way

(* Steps that move bytes of a line leave them in their order.              *)
LEMMA OneLineStep == StreamInv /\ [StreamNext]_talk => OneLine'
<1> SUFFICES ASSUME StreamInv, [StreamNext]_talk PROVE OneLine'
  OBVIOUS
<1> USE DEF StreamInv, input
<1>0. /\ sendline \in Bytes /\ unsent \in Bytes /\ recvline \in Bytes
      /\ read_buf \in Bytes /\ echo \in Bytes /\ up \in Bytes /\ down \in Bytes
      /\ up \o unsent \in Bytes /\ Rest \in Bytes
  BY RestType, Cats DEF StreamTyped
<1>1. CASE Fgets
  <2>1. sendline' \in Bytes
    BY <1>1, FgetsLine
  <2>2. /\ unsent' = sendline' /\ recvline' = <<>> /\ read_buf' = <<>> /\ down' = <<>>
        /\ server' # "gone" => echo' = <<>> /\ up' = <<>>
    BY <1>1 DEF Fgets, Between
  <2>3. Way(sendline)'  = sendline'
    BY <2>1, <2>2, NoneBefore DEF Way
  <2>4. server' # "gone" => Rest' = sendline'
    BY <2>1, <2>2, NoneBefore DEF Rest
  <2>5. server' # "gone" => Way(Rest)' = sendline'
    BY <2>3, <2>4 DEF Way
  <2> QED
    BY <2>1, <2>3, <2>5 DEF OneLine, Way
<1>2. CASE Write
  <2>1. PICK n \in 1 .. Len(unsent) :
          up' = up \o Upto(unsent, n) /\ unsent' = From(unsent, n)
    BY <1>2, WriteMoves
  <2>2. n \in 0 .. Len(unsent)
    BY <2>1
  <2>3. up' \o unsent' = up \o unsent
    BY <1>0, <2>1, <2>2, MovedLast
  <2>4. Rest' = Rest
    BY <1>2, <2>3 DEF Rest, Write
  <2> QED
    BY <1>2, <2>4, SameWay DEF Write
<1>3. CASE WriteReset
  BY <1>3, SameWay DEF WriteReset
<1>4. CASE Written
  <2>1. recvline' = recvline /\ Rest' = Rest
    BY <1>4 DEF Written, Between, Rest
  <2> QED
    BY <1>4, <2>1, SameWay DEF Written
<1>5. CASE TakeByte
  <2>1. \A x \in Bytes : recvline' \o (read_buf' \o x) = recvline \o (read_buf \o x)
    BY <1>5, TakeByteMoves
  <2>2. /\ client = "read" /\ Rest' = Rest
        /\ UNCHANGED <<sendline, down, server>>
    BY <1>5 DEF TakeByte, Rest
  <2>3. PICK rest \in Bytes : Way(rest) = sendline
    BY <2>2 DEF OneLine
  <2>4. down \o rest \in Bytes /\ down \o Rest \in Bytes
    BY <1>0, Cats
  <2>5. recvline' \o (read_buf' \o (down' \o rest)) = sendline'
    BY <2>1, <2>2, <2>3, <2>4 DEF Way
  <2>6. server' # "gone" => recvline' \o (read_buf' \o (down' \o Rest')) = sendline'
    BY <2>1, <2>2, <2>4 DEF Way, OneLine
  <2> QED
    BY <2>5, <2>6 DEF OneLine, Way
<1>6. CASE Fill
  <2>1. PICK n \in 1 .. Len(down) :
          read_buf' = Upto(down, n) /\ down' = From(down, n)
    BY <1>6, FillMoves
  <2>2. n \in 0 .. Len(down)
    BY <2>1
  <2>3. /\ client = "read" /\ read_buf = <<>> /\ Rest' = Rest
        /\ UNCHANGED <<sendline, recvline, server>>
    BY <1>6 DEF Fill, Rest
  <2>4. ASSUME NEW x \in Bytes
        PROVE  recvline' \o (read_buf' \o (down' \o x)) = Way(x)
    <3>1. down \o x \in Bytes
      BY <1>0, Cats
    <3>2. read_buf' \o (down' \o x) = down \o x
      BY <1>0, <2>1, <2>2, MovedFirst
    <3>3. read_buf \o (down \o x) = down \o x
      BY <2>3, <3>1, NoneBefore
    <3> QED
      BY <2>3, <3>2, <3>3 DEF Way
  <2>5. PICK rest \in Bytes : Way(rest) = sendline
    BY <2>3 DEF OneLine
  <2>6. recvline' \o (read_buf' \o (down' \o rest)) = sendline'
    BY <2>3, <2>4, <2>5
  <2>7. server' # "gone" => recvline' \o (read_buf' \o (down' \o Rest')) = sendline'
    BY <1>0, <2>3, <2>4 DEF OneLine
  <2> QED
    BY <2>6, <2>7 DEF OneLine, Way
<1>7. CASE ServerRead
  <2>1. PICK n \in 1 .. Len(up) : echo' = Upto(up, n) /\ up' = From(up, n)
    BY <1>7, ServerReadMoves
  <2>2. n \in 0 .. Len(up) /\ echo = <<>>
    BY <1>7, <2>1 DEF ServerRead, Between
  <2>3. echo' \o (up' \o unsent) = up \o unsent
    BY <1>0, <2>1, <2>2, MovedFirst
  <2>4. echo \o (up \o unsent) = up \o unsent
    BY <1>0, <2>2, NoneBefore
  <2>5. Rest' = Rest
    BY <1>7, <2>3, <2>4 DEF Rest, ServerRead
  <2>6. ~(client' \in {"write", "read"}) => OneLine'
    BY DEF OneLine
  <2> QED
    BY <1>7, <2>5, <2>6, SameWay DEF ServerRead
<1>8. CASE ServerWrite
  <2>1. PICK n \in 1 .. Len(echo) :
          down' = down \o Upto(echo, n) /\ echo' = From(echo, n)
    BY <1>8, ServerWriteMoves
  <2>2. n \in 0 .. Len(echo)
    BY <2>1
  <2>3. down' \o (echo' \o (up \o unsent)) = down \o (echo \o (up \o unsent))
    <3>1. ASSUME NEW x \in Bytes
          PROVE  (down \o Upto(echo, n)) \o (From(echo, n) \o x) = down \o (echo \o x)
      <4>1. down \in Bytes /\ echo \in Bytes
        BY <1>0
      <4> QED
        BY <2>2, <4>1, Moved, Zenon
    <3> QED
      BY <1>0, <2>1, <3>1
  <2>4. /\ server # "gone"
        /\ UNCHANGED <<client, sendline, recvline, read_buf, up, unsent>>
    BY <1>8 DEF ServerWrite
  <2>5. down' \o Rest' = down \o Rest
    BY <2>3, <2>4 DEF Rest
  <2>6. Rest' \in Bytes
    <3>1. echo' \in Bytes
      BY <1>0, <2>1, <2>2, Pieces
    <3> QED
      BY <1>0, <2>4, <3>1, Cats DEF Rest
  <2>7. client' \in {"write", "read"} => Way(Rest) = sendline
    BY <2>4 DEF OneLine
  <2>8. client' \in {"write", "read"} =>
          recvline' \o (read_buf' \o (down' \o Rest')) = sendline'
    BY <2>4, <2>5, <2>7 DEF Way
  <2> QED
    BY <2>6, <2>8 DEF OneLine, Way
<1>9. CASE Echoed
  <2>1. Rest' = Rest
    BY <1>9 DEF Echoed, Rest
  <2>2. ~(client' \in {"write", "read"}) => OneLine'
    BY DEF OneLine
  <2> QED
    BY <1>9, <2>1, <2>2, SameWay DEF Echoed
<1>10. CASE Dies
  <2> SUFFICES ASSUME client' \in {"write", "read"}
               PROVE  \E rest \in Bytes :
                        recvline' \o (read_buf' \o (down' \o rest)) = sendline'
    BY <1>10 DEF OneLine, Way, Dies
  <2>1. PICK rest \in Bytes : Way(rest) = sendline
    BY <1>10 DEF Dies, OneLine
  <2>2. UNCHANGED <<sendline, recvline, read_buf>>
    BY <1>10 DEF Dies
  <2>3. CASE down' = down
    BY <2>1, <2>2, <2>3 DEF Way
  <2>4. CASE down' = <<>>
    <3>1. down \o rest \in Bytes
      BY <1>0, Cats
    <3>2. down' \o (down \o rest) = down \o rest
      BY <2>4, <3>1, NoneBefore
    <3>3. recvline' \o (read_buf' \o (down' \o (down \o rest))) = sendline'
      BY <2>1, <2>2, <3>2 DEF Way
    <3> QED
      BY <3>1, <3>3
  <2> QED
    BY <1>10, <2>3, <2>4 DEF Dies
<1>11. CASE InputEnds \/ WriteFails \/ LineFull \/ EndOfStream \/ ReadFails \/ Fputs
            \/ ServerEnds
  BY <1>11 DEF InputEnds, WriteFails, LineFull, EndOfStream, ReadFails, Fputs,
     ServerEnds, OneLine
<1>12. CASE UNCHANGED talk
  <2>1. Rest' = Rest /\ UNCHANGED <<client, server, sendline, recvline, read_buf, down>>
    BY <1>12 DEF talk, Rest
  <2>2. ~(client' \in {"write", "read"}) => OneLine'
    BY DEF OneLine
  <2> QED
    BY <2>1, <2>2, SameWay
<1> QED
  BY <1>1, <1>2, <1>3, <1>4, <1>5, <1>6, <1>7, <1>8, <1>9, <1>10, <1>11, <1>12
  DEF StreamNext, ClientStep, ServerStep

-----------------------------------------------------------------------------
(* At the start nothing is on the way.                                     *)
LEMMA StreamInvInit == StreamInit => StreamInv
<1> SUFFICES ASSUME StreamInit PROVE StreamInv
  OBVIOUS
<1>1. StreamTyped
  <2>1. /\ sendline \in Bytes /\ unsent \in Bytes /\ recvline \in Bytes
        /\ read_buf \in Bytes /\ echo \in Bytes /\ up \in Bytes /\ down \in Bytes
    BY Nothing DEF StreamInit
  <2>2. /\ Len(sendline) = 0 /\ Len(recvline) = 0 /\ Len(read_buf) = 0
        /\ Len(echo) = 0 /\ Len(up) = 0 /\ Len(down) = 0
    BY Nothing DEF StreamInit
  <2>3. /\ client = "fgets" /\ server = "read" /\ eof = FALSE /\ broken = FALSE
        /\ typed = 0
    BY DEF StreamInit
  <2>4. eof \in BOOLEAN /\ broken \in BOOLEAN
    BY <2>3
  <2>5. /\ Len(sendline) < MAXLINE /\ Len(recvline) < MAXLINE
        /\ Len(read_buf) <= MAXLINE /\ Len(echo) <= MAXLINE
        /\ Len(up) <= CAPACITY /\ Len(down) <= CAPACITY
    BY <2>2, StreamAssumption
  <2>6. typed \in 0 .. TYPED
    BY <2>3, StreamAssumption
  <2>7. StreamTypeOK
    BY <2>3, <2>4, <2>5, <2>6 DEF StreamTypeOK
  <2> QED
    BY <2>1, <2>7 DEF StreamTyped
<1>2. OneLine /\ Between /\ Printed
  BY DEF StreamInit, OneLine, Between, Printed
<1>3. OneNewline
  BY Nothing DEF StreamInit, OneNewline
<1> QED
  BY <1>1, <1>2, <1>3 DEF StreamInv

(* Every step keeps the invariant.                                         *)
LEMMA StreamInvStep == StreamInv /\ [StreamNext]_talk => StreamInv'
<1> SUFFICES ASSUME StreamInv, [StreamNext]_talk PROVE StreamInv'
  OBVIOUS
<1>1. StreamTyped'
  BY StreamTypeStep DEF StreamInv
<1> QED
  BY <1>1, OneLineStep, BetweenStep, PrintedStep, OneNewlineStep DEF StreamInv

(* What is printed is what was sent, and nothing is left over.             *)
LEMMA StreamInvInStep == StreamInv => StreamTypeOK /\ InStep
BY DEF StreamInv, StreamTyped, Between, Printed, InStep
=============================================================================
