--------------------------- MODULE RepositoryProofs ---------------------------
(***************************************************************************)
(* Proofs about Repository, for any sessions, command lines and trees: an  *)
(* upload leaves in the file what was sent, and a file of which a piece is *)
(* sent is sent to its end as it is, unless somebody interferes (part 1,   *)
(* IInv); every command stays below the base and in what its path means    *)
(* (part 2, PathInv); and an rmdir nobody interferes with removes its      *)
(* directory (part 3, RemoveInv).                                          *)
(***************************************************************************)
EXTENDS Repository, PathProofs

Block == {Hole} \cup (Session \X Nat)

Commands == {"idle", "mkdir", "rm", "rmdir", "up", "dead"}

(* The types of what the transfers use; a session uploads one file, and    *)
(* sends one.                                                              *)
Typed ==
  /\ \A p \in DOMAIN file : file[p] \in Inode
  /\ content \in [Inode -> Seq(Block)]
  /\ pc \in [Session -> Commands]
  /\ ino \in [Session -> SUBSET Inode]
  /\ \A s \in Session : \A i, j \in ino[s] : i = j
  /\ off \in [Session -> Nat] /\ data \in [Session -> Seq(Block)]
  /\ sending \in [Session -> {"no", "cat", "recv"}]
  /\ source \in [Session -> SUBSET Inode]
  /\ \A s \in Session : \A i, j \in source[s] : i = j
  /\ sent \in [Session -> Seq(Block)]
  /\ is_end \in [Session -> BOOLEAN] /\ reset \subseteq Session
  /\ touched \subseteq Session \X {"rmdir", "send", "up"}

(* No other session uploads to a file.                                     *)
Alone(s, i) == \A t \in Session \ {s} : i \notin ino[t]

(* What an upload has flushed is the start of what it received.            *)
Uploaded(s, i) ==
  /\ off[s] <= Len(data[s])
  /\ content[i] = SubSeq(data[s], 1, off[s])

(* What a download has sent is the start of the file.                      *)
Downloaded(s, i) ==
  /\ Len(sent[s]) <= Len(content[i])
  /\ sent[s] = SubSeq(content[i], 1, Len(sent[s]))

Uploading(s) ==
  <<s, "up">> \notin touched => \A i \in ino[s] : Alone(s, i) /\ Uploaded(s, i)

Downloading(s) ==
  <<s, "send">> \notin touched =>
    \A i \in source[s] : (\A t \in Session : i \notin ino[t]) /\ Downloaded(s, i)

(* A session that has sent a piece sends that file still, and its          *)
(* connection is not about to end unless its client has reset it.          *)
Orderly(s) ==
  /\ sending[s] = "no" => sent[s] = <<>>
  /\ is_end[s] => sent[s] = <<>> \/ s \in reset

IInv ==
  /\ Typed
  /\ \A s \in Session : Uploading(s) /\ Downloading(s)
  /\ \A s \in Session : Orderly(s)

-----------------------------------------------------------------------------
(* Sequences.                                                              *)

(* The start of a sequence is not changed by what is appended to it.       *)
LEMMA StartOfAppend ==
  ASSUME NEW S, NEW q \in Seq(S), NEW e \in S, NEW n \in Nat, n <= Len(q)
  PROVE  SubSeq(Append(q, e), 1, n) = SubSeq(q, 1, n)
<1>1. Append(q, e) \in Seq(S) /\ Len(Append(q, e)) = Len(q) + 1
  OBVIOUS
<1>2. \A k \in 1 .. n : Append(q, e)[k] = q[k]
  OBVIOUS
<1> QED
  BY <1>1, <1>2

(* The start that is longer by one.                                        *)
LEMMA StartLonger ==
  ASSUME NEW S, NEW q \in Seq(S), NEW n \in Nat, n < Len(q)
  PROVE  SubSeq(q, 1, n + 1) = Append(SubSeq(q, 1, n), q[n + 1])
OBVIOUS

(* The start that is everything.                                           *)
LEMMA StartWhole ==
  ASSUME NEW S, NEW q \in Seq(S), NEW n \in Nat, n = Len(q)
  PROVE  SubSeq(q, 1, n) = q
OBVIOUS

(* A block stored behind the last one is appended.                         *)
LEMMA StoredNext ==
  ASSUME NEW S, NEW q \in Seq(S), NEW e \in S
  PROVE  Stored(q, Len(q) + 1, e) = Append(q, e)
<1>1. Len(q) \in Nat /\ Len(q) + 1 > Len(q)
  OBVIOUS
<1>2. Stored(q, Len(q) + 1, e)
        = [j \in 1 .. Len(q) + 1 |->
             IF j = Len(q) + 1 THEN e ELSE IF j <= Len(q) THEN q[j] ELSE Hole]
  BY <1>1 DEF Stored
<1> DEFINE f == [j \in 1 .. Len(q) + 1 |->
                  IF j = Len(q) + 1 THEN e ELSE IF j <= Len(q) THEN q[j] ELSE Hole]
<1>3. \A j \in 1 .. Len(q) + 1 : f[j] \in S
  BY <1>1
<1>4. f \in Seq(S) /\ Len(f) = Len(q) + 1
  BY <1>1, <1>3
<1>5. /\ Append(q, e) \in Seq(S) /\ Len(Append(q, e)) = Len(q) + 1
      /\ \A j \in 1 .. Len(q) : Append(q, e)[j] = q[j]
      /\ Append(q, e)[Len(q) + 1] = e
  BY AppendProperties
<1>6. \A j \in 1 .. Len(f) : f[j] = Append(q, e)[j]
  BY <1>1, <1>4, <1>5
<1>7. f = Append(q, e)
  BY <1>4, <1>5, <1>6, SeqEqual
<1> QED
  BY <1>2, <1>7

(* A stored block keeps the type of the file.                              *)
LEMMA StoredType ==
  ASSUME NEW q \in Seq(Block), NEW k \in Nat, NEW e \in Block
  PROVE  Stored(q, k, e) \in Seq(Block)
<1>1. Len(q) \in Nat /\ \A j \in 1 .. Len(q) : q[j] \in Block
  OBVIOUS
<1>2. Hole \in Block
  BY DEF Block
<1> DEFINE n == IF k > Len(q) THEN k ELSE Len(q)
           f == [j \in 1 .. n |-> IF j = k THEN e ELSE IF j <= Len(q) THEN q[j] ELSE Hole]
<1>3. n \in Nat
  BY <1>1
<1>4. \A j \in 1 .. n : f[j] \in Block
  BY <1>1, <1>2
<1>5. f \in [1 .. n -> Block]
  BY <1>4
<1>6. f \in Seq(Block)
  BY <1>3, <1>5
<1> QED
  BY <1>6 DEF Stored

(* Nothing is a sequence of blocks, and the start of every sequence.       *)
LEMMA EmptyFacts ==
  /\ <<>> \in Seq(Block) /\ Len(<<>>) = 0
  /\ \A S : \A q \in Seq(S) : SubSeq(q, 1, 0) = <<>>
<1>1. <<>> \in Seq(Block) /\ Len(<<>>) = 0
  BY EmptySeq
<1>2. ASSUME NEW S, NEW q \in Seq(S) PROVE SubSeq(q, 1, 0) = <<>>
  OBVIOUS
<1> QED
  BY <1>1, <1>2

-----------------------------------------------------------------------------
(* Types.                                                                  *)

LEMMA DisturbedType ==
  ASSUME NEW s, NEW places
  PROVE  Disturbed(s, places) \subseteq Session \X {"rmdir"}
BY DEF Disturbed

(* An upload begins with nothing received.                                 *)
LEMMA OpenedType ==
  ASSUME Typed, NEW s \in Session, NEW args, Opened(s, args)
  PROVE  /\ pc' \in [Session -> Commands] /\ pc'[s] = "up"
         /\ off' \in [Session -> Nat] /\ off'[s] = 0
         /\ data' \in [Session -> Seq(Block)] /\ data'[s] = <<>>
         /\ \A t \in Session \ {s} :
              pc'[t] = pc[t] /\ off'[t] = off[t] /\ data'[t] = data[t]
         /\ UNCHANGED <<sending, source, sent, is_end, reset>>
<1>1. /\ pc' = [pc EXCEPT ![s] = "up"]
      /\ off' = [off EXCEPT ![s] = 0] /\ data' = [data EXCEPT ![s] = <<>>]
      /\ UNCHANGED <<sending, source, sent, is_end, reset>>
  BY DEF Opened, Begin, download
<1>2. data' \in [Session -> Seq(Block)]
  BY <1>1, EmptyFacts DEF Typed
<1> QED
  BY <1>1, <1>2 DEF Typed, Commands

(* A download opens the file at the place of its path, if there is one.    *)
LEMMA DownloadFacts ==
  ASSUME Typed, NEW s \in Session, NEW args, Download(s, args)
  PROVE  \E opened \in SUBSET Inode, word \in {"cat", "recv"} :
           /\ \A i, j \in opened : i = j
           /\ sending' = [sending EXCEPT ![s] = word]
           /\ source' = [source EXCEPT ![s] = opened]
           /\ sent' = [sent EXCEPT ![s] = <<>>]
           /\ touched' = (touched \ {<<s, "send">>})
                \cup {<<s, "send">> : i \in {j \in opened : Uploaders(j) # {}}}
<1>1. PICK word \in {"cat", "recv"} : sending' = [sending EXCEPT ![s] = word]
  BY DEF Download
<1>2. PICK opened \in OpenedAt(FilePathOf(s, args)) :
        /\ source' = [source EXCEPT ![s] = opened]
        /\ touched' = (touched \ {<<s, "send">>})
             \cup {<<s, "send">> : i \in {j \in opened : Uploaders(j) # {}}}
  BY DEF Download
<1>3. opened \subseteq Inode /\ \A i, j \in opened : i = j
  BY <1>2 DEF OpenedAt, Typed
<1> QED
  BY <1>1, <1>2, <1>3 DEF Download

LEMMA DownloadType ==
  ASSUME Typed, NEW s \in Session, NEW args, Download(s, args)
  PROVE  Typed'
<1>1. PICK opened \in SUBSET Inode, word \in {"cat", "recv"} :
           /\ \A i, j \in opened : i = j
           /\ sending' = [sending EXCEPT ![s] = word]
           /\ source' = [source EXCEPT ![s] = opened]
           /\ sent' = [sent EXCEPT ![s] = <<>>]
           /\ touched' = (touched \ {<<s, "send">>})
                \cup {<<s, "send">> : i \in {j \in opened : Uploaders(j) # {}}}
  BY DownloadFacts
<1>2. source' \in [Session -> SUBSET Inode] /\ \A t \in Session : \A i, j \in source'[t] : i = j
  BY <1>1 DEF Typed
<1>3. sent' \in [Session -> Seq(Block)]
  BY <1>1, EmptyFacts DEF Typed
<1>4. touched' \subseteq Session \X {"rmdir", "send", "up"}
  BY <1>1 DEF Typed
<1>5. sending' \in [Session -> {"no", "cat", "recv"}]
  BY <1>1 DEF Typed
<1>6. UNCHANGED <<file, content, pc, ino, off, data, is_end, reset>>
  BY DEF Download, tree, command, open
<1> QED
  BY <1>2, <1>3, <1>4, <1>5, <1>6 DEF Typed

(* An upload opens the file i, which is then empty.                        *)
Emptied(s, i) ==
  /\ i \in Inode
  /\ ino' = [ino EXCEPT ![s] = {i}]
  /\ content' = [content EXCEPT ![i] = <<>>]

LEMMA EmptiedType ==
  ASSUME Typed, NEW s \in Session, NEW i, Emptied(s, i)
  PROVE  /\ ino' \in [Session -> SUBSET Inode]
         /\ \A t \in Session : \A j, k \in ino'[t] : j = k
         /\ content' \in [Inode -> Seq(Block)]
BY EmptyFacts DEF Emptied, Typed

LEMMA OverwriteEmpties ==
  ASSUME Typed, NEW s \in Session, NEW args, Overwrite(s, args)
  PROVE  \E i : /\ Emptied(s, i)
                /\ touched' = (touched \ {<<s, "up">>})
                     \cup {<<t, "send">> : t \in Downloaders(i)}
                     \cup (Uploaders(i) \cup {t \in {s} : Uploaders(i) # {}}) \X {"up"}
<1>1. PICK p \in Walk(final'[s]) \cap DOMAIN file :
        /\ ino' = [ino EXCEPT ![s] = {file[p]}]
        /\ content' = [content EXCEPT ![file[p]] = Truncated(@)]
        /\ touched' = (touched \ {<<s, "up">>})
             \cup {<<t, "send">> : t \in Downloaders(file[p])}
             \cup (Uploaders(file[p]) \cup {t \in {s} : Uploaders(file[p]) # {}}) \X {"up"}
  BY DEF Overwrite
<1>2. file[p] \in Inode
  BY DEF Typed
<1>3. Emptied(s, file[p])
  BY <1>1, <1>2 DEF Emptied, Truncated
<1> QED
  BY <1>1, <1>3

(* A new file is one that no session has open.                             *)
LEMMA CreateEmpties ==
  ASSUME Typed, NEW s \in Session, NEW args, Create(s, args)
  PROVE  \E i : /\ Emptied(s, i)
                /\ \A t \in Session : i \notin ino[t] /\ i \notin source[t]
                /\ \A p \in DOMAIN file' : file'[p] \in Inode
                /\ touched \ {<<s, "up">>} \subseteq touched'
                /\ touched' \subseteq Session \X {"rmdir", "send", "up"}
<1> DEFINE i == CHOOSE j \in Unused : TRUE
<1>1. PICK p \in Walk(final'[s]) \ (Entries \cup {Outside}) :
        /\ Unused # {}
        /\ file' = [q \in DOMAIN file \cup {p} |-> IF q = p THEN i ELSE file[q]]
        /\ ino' = [ino EXCEPT ![s] = {i}]
        /\ content' = [content EXCEPT ![i] = <<>>]
        /\ touched' = (touched \ {<<s, "up">>}) \cup Disturbed(s, {p})
  BY DEF Create
<1>2. i \in Unused
  BY <1>1
<1> HIDE DEF i
<1>3. i \in Inode /\ \A t \in Session : i \notin ino[t] \cup source[t]
  BY <1>2 DEF Unused
<1>4. \A q \in DOMAIN file' : file'[q] \in Inode
  BY <1>1, <1>3 DEF Typed
<1>5. /\ touched \ {<<s, "up">>} \subseteq touched'
      /\ touched' \subseteq Session \X {"rmdir", "send", "up"}
  BY <1>1, DisturbedType DEF Typed
<1> QED
  BY <1>1, <1>3, <1>4, <1>5 DEF Emptied

LEMMA UploadType ==
  ASSUME Typed, NEW s \in Session, NEW args, Overwrite(s, args) \/ Create(s, args)
  PROVE  Typed'
<1>1. Opened(s, args)
  BY DEF Overwrite, Create
<1>2. /\ pc' \in [Session -> Commands] /\ off' \in [Session -> Nat]
      /\ data' \in [Session -> Seq(Block)]
      /\ UNCHANGED <<sending, source, sent, is_end, reset>>
  BY <1>1, OpenedType
<1>3. CASE Overwrite(s, args)
  <2>1. PICK i : /\ Emptied(s, i)
                 /\ touched' = (touched \ {<<s, "up">>})
                      \cup {<<t, "send">> : t \in Downloaders(i)}
                      \cup (Uploaders(i) \cup {t \in {s} : Uploaders(i) # {}}) \X {"up"}
    BY <1>3, OverwriteEmpties
  <2>2. touched' \subseteq Session \X {"rmdir", "send", "up"}
    BY <2>1 DEF Uploaders, Downloaders, Typed
  <2>3. UNCHANGED file
    BY <1>3 DEF Overwrite, tree
  <2> QED
    BY <1>2, <2>1, <2>2, <2>3, EmptiedType DEF Typed
<1>4. CASE Create(s, args)
  <2>1. PICK i : /\ Emptied(s, i)
                 /\ \A p \in DOMAIN file' : file'[p] \in Inode
                 /\ touched' \subseteq Session \X {"rmdir", "send", "up"}
    BY <1>4, CreateEmpties
  <2> QED
    BY <1>2, <2>1, EmptiedType DEF Typed
<1> QED
  BY <1>3, <1>4

(* Steps that close the files of a session.                                *)
LEMMA ClosedType ==
  ASSUME Typed, NEW s \in Session, Closed(s)
  PROVE  /\ ino' \in [Session -> SUBSET Inode]
         /\ \A t \in Session : \A i, j \in ino'[t] : i = j
         /\ off' \in [Session -> Nat] /\ data' \in [Session -> Seq(Block)]
         /\ ino'[s] = {}
         /\ \A t \in Session \ {s} :
              ino'[t] = ino[t] /\ off'[t] = off[t] /\ data'[t] = data[t]
BY EmptyFacts DEF Closed, Typed

LEMMA NotSendingType ==
  ASSUME Typed, NEW s \in Session, NotSending(s)
  PROVE  /\ sending' \in [Session -> {"no", "cat", "recv"}]
         /\ source' \in [Session -> SUBSET Inode]
         /\ \A t \in Session : \A i, j \in source'[t] : i = j
         /\ sent' \in [Session -> Seq(Block)]
         /\ sending'[s] = "no" /\ source'[s] = {} /\ sent'[s] = <<>>
         /\ \A t \in Session \ {s} :
              /\ sending'[t] = sending[t] /\ source'[t] = source[t]
              /\ sent'[t] = sent[t]
BY EmptyFacts DEF NotSending, Typed

LEMMA DisconnectType ==
  ASSUME Typed, NEW s \in Session, Disconnect(s), UNCHANGED <<file, content>>,
         pc' \in [Session -> Commands]
  PROVE  Typed'
<1>1. Closed(s) /\ NotSending(s)
  BY DEF Disconnect
<1>2. is_end' \in [Session -> BOOLEAN] /\ reset' \subseteq Session
  BY DEF Disconnect, Typed
<1>3. touched' \subseteq Session \X {"rmdir", "send", "up"}
  BY DEF Disconnect, Typed
<1> QED
  BY <1>1, <1>2, <1>3, ClosedType, NotSendingType DEF Typed

LEMMA UnlinkedType ==
  ASSUME Typed, NEW string, file' = Unlinked(string)
  PROVE  \A p \in DOMAIN file' : file'[p] \in Inode
BY DEF Unlinked, Typed

(* A piece of the file is sent.                                            *)
LEMMA SendType ==
  ASSUME Typed, NEW s \in Session, SendPiece(s)
  PROVE  \E i \in source[s] :
           /\ Len(sent[s]) < Len(content[i])
           /\ content[i][Len(sent[s]) + 1] \in Block
           /\ sent' = [sent EXCEPT ![s] = Append(@, content[i][Len(sent[s]) + 1])]
<1>1. PICK i \in source[s] :
        sent' = [sent EXCEPT ![s] = Append(@, content[i][Len(sent[s]) + 1])]
  BY DEF SendPiece, Typed
<1>2. i \in Inode /\ content[i] \in Seq(Block) /\ sent[s] \in Seq(Block)
  BY DEF Typed
<1>3. Len(sent[s]) \in Nat /\ Len(content[i]) \in Nat
  BY <1>2
<1>4. PICK j \in source[s] : ~(Len(sent[s]) >= Len(content[j]))
  BY DEF SendPiece, Ended
<1>5. j = i
  BY <1>4 DEF Typed
<1>6. Len(sent[s]) < Len(content[i])
  BY <1>3, <1>4, <1>5
<1>7. content[i][Len(sent[s]) + 1] \in Block
  BY <1>2, <1>3, <1>6
<1> QED
  BY <1>1, <1>6, <1>7

(* A block is received.                                                    *)
LEMMA ReceiveType ==
  ASSUME Typed, NEW s \in Session, Receive(s)
  PROVE  /\ <<s, Len(data[s]) + 1>> \in Block
         /\ data' = [data EXCEPT ![s] = Append(@, <<s, Len(data[s]) + 1>>)]
<1>1. data[s] \in Seq(Block) /\ Len(data[s]) + 1 \in Nat
  BY DEF Typed
<1> QED
  BY <1>1 DEF Receive, Block, Typed

(* A block reaches the file.                                               *)
LEMMA FlushType ==
  ASSUME Typed, NEW s \in Session, Flush(s)
  PROVE  \E i \in ino[s] :
           /\ data[s][off[s] + 1] \in Block
           /\ content' = [content EXCEPT
                            ![i] = Stored(@, off[s] + 1, data[s][off[s] + 1])]
           /\ content' \in [Inode -> Seq(Block)]
<1>1. PICK i \in ino[s] :
        content' = [content EXCEPT ![i] = Stored(@, off[s] + 1, data[s][off[s] + 1])]
  BY DEF Flush
<1>2. i \in Inode /\ content[i] \in Seq(Block) /\ off[s] + 1 \in Nat
  BY DEF Typed
<1>3. data[s] \in Seq(Block) /\ off[s] \in Nat /\ off[s] < Len(data[s])
  BY DEF Flush, Typed
<1>4. data[s][off[s] + 1] \in Block
  BY <1>3
<1>5. Stored(content[i], off[s] + 1, data[s][off[s] + 1]) \in Seq(Block)
  BY <1>2, <1>4, StoredType
<1>6. content' \in [Inode -> Seq(Block)]
  BY <1>1, <1>2, <1>5 DEF Typed
<1> QED
  BY <1>1, <1>4, <1>6

(* Every step keeps the types.                                             *)
LEMMA TypeStep == Typed /\ [Next]_vars => Typed'
<1> SUFFICES ASSUME Typed, [Next]_vars PROVE Typed'
  OBVIOUS
<1>1. ASSUME UNCHANGED <<file, content, pc, open, download, touched>> PROVE Typed'
  BY <1>1 DEF open, download, Typed
<1>2. ASSUME NEW s \in Session, NEW args, Cd(s, args) PROVE Typed'
  BY <1>1, <1>2 DEF Cd, command, tree
<1>3. ASSUME NEW s \in Session, NEW args, NEW word \in {"mkdir", "rm", "rmdir"},
             Check(s, args, word)
      PROVE  Typed'
  BY <1>3 DEF Check, Begin, open, download, tree, Typed, Commands
<1>4. ASSUME NEW s \in Session, Mkdir(s) PROVE Typed'
  <2>1. touched' \subseteq Session \X {"rmdir", "send", "up"}
    BY <1>4, DisturbedType DEF Mkdir, Touch, Typed
  <2> QED
    BY <1>4, <2>1 DEF Mkdir, Finish, open, download, Typed, Commands
<1>5. ASSUME NEW s \in Session, Rm(s) PROVE Typed'
  <2>1. \A p \in DOMAIN file' : file'[p] \in Inode
    BY <1>5, UnlinkedType DEF Rm
  <2>2. touched' \subseteq Session \X {"rmdir", "send", "up"}
    BY <1>5, DisturbedType DEF Rm, Touch, Typed
  <2> QED
    BY <1>5, <2>1, <2>2 DEF Rm, Finish, open, download, Typed, Commands
<1>6. ASSUME NEW s \in Session, RmdirStart(s) \/ RmdirSub(s) PROVE Typed'
  BY <1>1, <1>6 DEF RmdirStart, RmdirSub, InCall, command, tree
<1>7. ASSUME NEW s \in Session, RmdirFile(s) PROVE Typed'
  <2>1. \A p \in DOMAIN file' : file'[p] \in Inode
    BY <1>7, UnlinkedType DEF RmdirFile
  <2>2. touched' \subseteq Session \X {"rmdir", "send", "up"}
    BY <1>7, DisturbedType DEF RmdirFile, Touch, Typed
  <2> QED
    BY <1>7, <2>1, <2>2 DEF RmdirFile, InCall, command, open, download, Typed
<1>8. ASSUME NEW s \in Session, RmdirSelf(s) PROVE Typed'
  <2>1. pc' \in [Session -> Commands]
    BY <1>8 DEF RmdirSelf, Finish, command, Typed, Commands
  <2>2. touched' \subseteq Session \X {"rmdir", "send", "up"}
    BY <1>8, DisturbedType DEF RmdirSelf, Touch, Typed
  <2> QED
    BY <1>8, <2>1, <2>2 DEF RmdirSelf, InCall, open, download, Typed
<1>9. ASSUME NEW s \in Session, SendPiece(s) PROVE Typed'
  <2>1. PICK e \in Block : sent' = [sent EXCEPT ![s] = Append(@, e)]
    BY <1>9, SendType
  <2>2. Append(sent[s], e) \in Seq(Block)
    BY <2>1, AppendProperties DEF Typed
  <2>3. sent' \in [Session -> Seq(Block)]
    BY <2>1, <2>2 DEF Typed
  <2> QED
    BY <1>9, <2>3 DEF SendPiece, command, open, tree, Typed
<1>10. ASSUME NEW s \in Session, CatDone(s) PROVE Typed'
  <2>1. touched' \subseteq Session \X {"rmdir", "send", "up"}
    BY <1>10 DEF CatDone, Typed
  <2> QED
    BY <1>10, <2>1, NotSendingType DEF CatDone, command, open, tree, Typed
<1>11. ASSUME NEW s \in Session, RecvDone(s) \/ Hang(s) \/ Die(s) PROVE Typed'
  <2>1. pc' \in [Session -> Commands]
    BY <1>11 DEF RecvDone, Hang, Die, Finish, Typed, Commands
  <2> QED
    BY <1>11, <2>1, DisconnectType DEF RecvDone, Hang, Die, tree
<1>12. ASSUME NEW s \in Session, Receive(s) PROVE Typed'
  <2>1. PICK e \in Block : data' = [data EXCEPT ![s] = Append(@, e)]
    BY <1>12, ReceiveType
  <2>2. Append(data[s], e) \in Seq(Block)
    BY <2>1, AppendProperties DEF Typed
  <2>3. data' \in [Session -> Seq(Block)]
    BY <2>1, <2>2 DEF Typed
  <2> QED
    BY <1>12, <2>3 DEF Receive, command, download, tree, Typed
<1>13. ASSUME NEW s \in Session, Flush(s) PROVE Typed'
  <2>1. content' \in [Inode -> Seq(Block)]
    BY <1>13, FlushType
  <2> QED
    BY <1>13, <2>1 DEF Flush, command, download, tree, Typed
<1>14. ASSUME NEW s \in Session, FlushFails(s) PROVE Typed'
  <2>1. data[s] \in Seq(Block) /\ off[s] \in Nat /\ off[s] < Len(data[s])
    BY <1>14 DEF FlushFails, Typed
  <2>2. SubSeq(data[s], 1, off[s]) \in Seq(Block)
    BY <2>1
  <2>3. SubSeq(data[s], off[s] + 2, Len(data[s])) \in Seq(Block)
    BY <2>1
  <2>4. SubSeq(data[s], 1, off[s]) \o SubSeq(data[s], off[s] + 2, Len(data[s]))
          \in Seq(Block)
    BY <2>2, <2>3
  <2>5. touched' \subseteq Session \X {"rmdir", "send", "up"}
    BY <1>14 DEF FlushFails, Typed
  <2> QED
    BY <1>14, <2>4, <2>5 DEF FlushFails, command, download, tree, Typed
<1>15. ASSUME NEW s \in Session, Reset(s) PROVE Typed'
  BY <1>15 DEF Reset, command, open, tree, Typed
<1>16. ASSUME NEW s \in Session, Fork(s) PROVE Typed'
  BY <1>16 DEF Fork, Finish, open, download, tree, Typed, Commands
<1>17. ASSUME NEW s \in Session, NEW args, OpenFails(s, args) PROVE Typed'
  <2>1. /\ sending' \in [Session -> {"no", "cat", "recv"}]
        /\ source' \in [Session -> SUBSET Inode]
        /\ \A t \in Session : \A i, j \in source'[t] : i = j
        /\ sent' \in [Session -> Seq(Block)]
    <3>1. CASE UpFails(s, args)
      BY <3>1 DEF UpFails, Typed
    <3>2. CASE CatFails(s, args) \/ RecvFails(s, args)
      BY <3>2, NotSendingType DEF CatFails, RecvFails
    <3> QED
      BY <1>17, <3>1, <3>2 DEF OpenFails
  <2>2. is_end' \in [Session -> BOOLEAN]
    BY <1>17 DEF OpenFails, CatFails, RecvFails, UpFails, Typed
  <2> QED
    BY <1>17, <2>1, <2>2 DEF OpenFails, command, open, tree, Typed
<1>18. CASE UNCHANGED vars
  BY <1>1, <1>18 DEF vars, command, tree
<1>19. ASSUME NEW s \in Session, Client(s) PROVE Typed'
  BY <1>2, <1>3, <1>11, <1>12, <1>15, <1>17, <1>19, DownloadType, UploadType DEF Client
<1>20. ASSUME NEW s \in Session, Work(s) PROVE Typed'
  BY <1>4, <1>5, <1>6, <1>7, <1>8, <1>9, <1>10, <1>11, <1>20 DEF Work
<1> QED
  BY <1>11, <1>13, <1>14, <1>16, <1>18, <1>19, <1>20 DEF Next

-----------------------------------------------------------------------------
(* Files, and what has been sent or received of them.                      *)

UpKept(t) ==
  /\ ino'[t] = ino[t] /\ off'[t] = off[t] /\ data'[t] = data[t]
  /\ <<t, "up">> \in touched => <<t, "up">> \in touched'

SendKept(t) ==
  /\ source'[t] = source[t] /\ sent'[t] = sent[t]
  /\ <<t, "send">> \in touched => <<t, "send">> \in touched'

(* An upload goes on as long as its file is left alone.                    *)
LEMMA UploadKept ==
  ASSUME NEW t \in Session, Uploading(t), UpKept(t),
         <<t, "up">> \notin touched' =>
           \A i \in ino[t] :
             /\ content'[i] = content[i]
             /\ \A u \in Session \ {t} : i \in ino'[u] => i \in ino[u]
  PROVE  Uploading(t)'
<1> SUFFICES ASSUME <<t, "up">> \notin touched', NEW i \in ino[t]
             PROVE  Alone(t, i)' /\ Uploaded(t, i)'
  BY DEF Uploading, UpKept
<1>1. Alone(t, i) /\ Uploaded(t, i)
  BY DEF Uploading, UpKept
<1>2. Alone(t, i)'
  BY <1>1 DEF Alone
<1>3. Uploaded(t, i)'
  BY <1>1 DEF Uploaded, UpKept
<1> QED
  BY <1>2, <1>3

(* So does a download.                                                     *)
LEMMA DownloadKept ==
  ASSUME NEW t \in Session, Downloading(t), SendKept(t),
         <<t, "send">> \notin touched' =>
           \A i \in source[t] :
             /\ content'[i] = content[i]
             /\ \A u \in Session : i \in ino'[u] => i \in ino[u]
  PROVE  Downloading(t)'
<1> SUFFICES ASSUME <<t, "send">> \notin touched', NEW i \in source[t]
             PROVE  (\A u \in Session : i \notin ino'[u]) /\ Downloaded(t, i)'
  BY DEF Downloading, SendKept
<1>1. (\A u \in Session : i \notin ino[u]) /\ Downloaded(t, i)
  BY DEF Downloading, SendKept
<1>2. Downloaded(t, i)'
  BY <1>1 DEF Downloaded, SendKept
<1> QED
  BY <1>1, <1>2

(* A step that changes no file and begins no transfer.                     *)
LEMMA Quiet ==
  ASSUME \A t \in Session : Uploading(t) /\ Downloading(t), UNCHANGED content,
         \A t \in Session : UpKept(t) \/ ino'[t] = {},
         \A t \in Session : SendKept(t) \/ source'[t] = {}
  PROVE  \A t \in Session : Uploading(t)' /\ Downloading(t)'
<1>1. \A u \in Session : ino'[u] \subseteq ino[u]
  BY DEF UpKept
<1>2. ASSUME NEW t \in Session PROVE Uploading(t)'
  <2>1. CASE UpKept(t)
    BY <1>1, <2>1, UploadKept
  <2>2. CASE ino'[t] = {}
    BY <2>2 DEF Uploading
  <2> QED
    BY <2>1, <2>2
<1>3. ASSUME NEW t \in Session PROVE Downloading(t)'
  <2>1. CASE SendKept(t)
    BY <1>1, <2>1, DownloadKept
  <2>2. CASE source'[t] = {}
    BY <2>2 DEF Downloading
  <2> QED
    BY <2>1, <2>2
<1> QED
  BY <1>2, <1>3

(* A download begins with nothing sent, and no upload to its file, unless  *)
(* it is touched.                                                          *)
LEMMA DownloadSound ==
  ASSUME Typed, \A t \in Session : Uploading(t) /\ Downloading(t),
         NEW s \in Session, NEW args, Download(s, args)
  PROVE  \A t \in Session : Uploading(t)' /\ Downloading(t)'
<1>1. PICK opened \in SUBSET Inode :
        /\ source' = [source EXCEPT ![s] = opened]
        /\ sent' = [sent EXCEPT ![s] = <<>>]
        /\ touched' = (touched \ {<<s, "send">>})
             \cup {<<s, "send">> : i \in {j \in opened : Uploaders(j) # {}}}
  BY DownloadFacts
<1>2. UNCHANGED <<content, ino, off, data>>
  BY DEF Download, open
<1>3. \A t \in Session : UpKept(t)
  BY <1>1, <1>2 DEF UpKept
<1>4. ASSUME NEW t \in Session PROVE Uploading(t)'
  BY <1>2, <1>3, UploadKept
<1>5. ASSUME NEW t \in Session \ {s} PROVE Downloading(t)'
  <2>1. SendKept(t)
    BY <1>1 DEF SendKept, Typed
  <2> QED
    BY <1>2, <2>1, DownloadKept
<1>6. Downloading(s)'
  <2> SUFFICES ASSUME <<s, "send">> \notin touched', NEW i \in opened
               PROVE  (\A t \in Session : i \notin ino[t]) /\ Downloaded(s, i)'
    BY <1>1, <1>2 DEF Downloading, Typed
  <2>1. Uploaders(i) = {}
    BY <1>1
  <2>2. \A t \in Session : i \notin ino[t]
    BY <2>1 DEF Uploaders
  <2>3. content[i] \in Seq(Block)
    BY DEF Typed
  <2>4. sent'[s] = <<>> /\ content'[i] = content[i]
    BY <1>1, <1>2 DEF Typed
  <2>5. Len(content[i]) \in Nat /\ Len(<<>>) = 0 /\ SubSeq(content[i], 1, 0) = <<>>
    BY <2>3, EmptyFacts
  <2>6. Downloaded(s, i)'
    BY <2>4, <2>5 DEF Downloaded
  <2> QED
    BY <2>2, <2>6
<1> QED
  BY <1>4, <1>5, <1>6

(* An upload begins with an empty file, which no other session uploads and *)
(* nobody is sent, unless they are touched.                                *)
LEMMA UploadSound ==
  ASSUME Typed, \A t \in Session : Uploading(t) /\ Downloading(t),
         NEW s \in Session, NEW args, Overwrite(s, args) \/ Create(s, args)
  PROVE  \A t \in Session : Uploading(t)' /\ Downloading(t)'
<1>1. /\ off'[s] = 0 /\ data'[s] = <<>>
      /\ \A t \in Session \ {s} : off'[t] = off[t] /\ data'[t] = data[t]
      /\ UNCHANGED <<source, sent>>
  BY OpenedType DEF Overwrite, Create
<1>2. PICK i : /\ Emptied(s, i)
               /\ touched \ {<<s, "up">>} \subseteq touched'
               /\ \A t \in Session : <<t, "send">> \notin touched' => i \notin source[t]
               /\ \A t \in Session : <<t, "up">> \notin touched' => i \notin ino[t]
               /\ <<s, "up">> \notin touched' => \A t \in Session : i \notin ino[t]
  <2>1. CASE Overwrite(s, args)
    <3>1. PICK i : /\ Emptied(s, i)
                   /\ touched' = (touched \ {<<s, "up">>})
                        \cup {<<t, "send">> : t \in Downloaders(i)}
                        \cup (Uploaders(i) \cup {t \in {s} : Uploaders(i) # {}}) \X {"up"}
      BY <2>1, OverwriteEmpties
    <3>2. \A t \in Session : <<t, "send">> \notin touched' => i \notin source[t]
      BY <3>1 DEF Downloaders
    <3>3. \A t \in Session : <<t, "up">> \notin touched' => i \notin ino[t]
      BY <3>1 DEF Uploaders
    <3>4. <<s, "up">> \notin touched' => \A t \in Session : i \notin ino[t]
      BY <3>1 DEF Uploaders
    <3>5. touched \ {<<s, "up">>} \subseteq touched'
      BY <3>1
    <3> QED
      BY <3>1, <3>2, <3>3, <3>4, <3>5
  <2>2. CASE Create(s, args)
    BY <2>2, CreateEmpties
  <2> QED
    BY <2>1, <2>2
<1>3. ino'[s] = {i} /\ content'[i] = <<>> /\ i \in Inode
  BY <1>2 DEF Emptied, Typed
<1>4. \A t \in Session \ {s} : ino'[t] = ino[t]
  BY <1>2 DEF Emptied, Typed
<1>5. \A j \in Inode : j # i => content'[j] = content[j]
  BY <1>2 DEF Emptied, Typed
<1>6. ASSUME NEW t \in Session PROVE Downloading(t)'
  <2>1. SendKept(t)
    BY <1>1, <1>2 DEF SendKept
  <2>2. ASSUME <<t, "send">> \notin touched', NEW j \in source[t]
        PROVE  /\ content'[j] = content[j]
               /\ \A u \in Session : j \in ino'[u] => j \in ino[u]
    <3>1. j # i /\ j \in Inode
      BY <1>2, <2>2 DEF Typed
    <3> QED
      BY <1>3, <1>4, <1>5, <3>1
  <2> QED
    BY <2>1, <2>2, DownloadKept
<1>7. ASSUME NEW t \in Session \ {s} PROVE Uploading(t)'
  <2>1. UpKept(t)
    BY <1>1, <1>2, <1>4 DEF UpKept
  <2>2. ASSUME <<t, "up">> \notin touched', NEW j \in ino[t]
        PROVE  /\ content'[j] = content[j]
               /\ \A u \in Session \ {t} : j \in ino'[u] => j \in ino[u]
    <3>1. j # i /\ j \in Inode
      BY <1>2, <2>2 DEF Typed
    <3> QED
      BY <1>3, <1>4, <1>5, <3>1
  <2> QED
    BY <2>1, <2>2, UploadKept
<1>8. Uploading(s)'
  <2> SUFFICES ASSUME <<s, "up">> \notin touched'
               PROVE  Alone(s, i)' /\ Uploaded(s, i)'
    BY <1>3 DEF Uploading
  <2>1. Alone(s, i)'
    BY <1>2, <1>4 DEF Alone
  <2>2. Uploaded(s, i)'
    BY <1>1, <1>3, EmptyFacts DEF Uploaded
  <2> QED
    BY <2>1, <2>2
<1> QED
  BY <1>6, <1>7, <1>8

(* The next piece that is sent is the next one of the file.                *)
LEMMA SendSound ==
  ASSUME Typed, \A t \in Session : Uploading(t) /\ Downloading(t),
         NEW s \in Session, SendPiece(s)
  PROVE  \A t \in Session : Uploading(t)' /\ Downloading(t)'
<1>1. PICK i \in source[s] :
        /\ Len(sent[s]) < Len(content[i])
        /\ content[i][Len(sent[s]) + 1] \in Block
        /\ sent' = [sent EXCEPT ![s] = Append(@, content[i][Len(sent[s]) + 1])]
  BY SendType
<1>2. UNCHANGED <<content, ino, off, data, source, touched>>
  BY DEF SendPiece, open
<1>3. ASSUME NEW t \in Session PROVE Uploading(t)'
  <2>1. UpKept(t)
    BY <1>2 DEF UpKept
  <2> QED
    BY <1>2, <2>1, UploadKept
<1>4. ASSUME NEW t \in Session \ {s} PROVE Downloading(t)'
  <2>1. SendKept(t)
    BY <1>1, <1>2 DEF SendKept, Typed
  <2> QED
    BY <1>2, <2>1, DownloadKept
<1>5. Downloading(s)'
  <2> SUFFICES ASSUME <<s, "send">> \notin touched
               PROVE  (\A t \in Session : i \notin ino[t]) /\ Downloaded(s, i)'
    BY <1>2 DEF Downloading, Typed
  <2>1. (\A t \in Session : i \notin ino[t]) /\ Downloaded(s, i)
    BY DEF Downloading
  <2>2. content[i] \in Seq(Block) /\ sent[s] \in Seq(Block)
    BY DEF Typed
  <2>3. Len(content[i]) \in Nat /\ Len(sent[s]) \in Nat
    BY <2>2
  <2>4. SubSeq(content[i], 1, Len(sent[s]) + 1)
          = Append(sent[s], content[i][Len(sent[s]) + 1])
    BY <1>1, <2>1, <2>2, <2>3, StartLonger DEF Downloaded
  <2>5. sent'[s] = Append(sent[s], content[i][Len(sent[s]) + 1])
    BY <1>1 DEF Typed
  <2>6. Len(sent'[s]) = Len(sent[s]) + 1
    BY <1>1, <2>2, <2>5, AppendProperties
  <2>7. Downloaded(s, i)'
    BY <1>1, <1>2, <2>3, <2>4, <2>5, <2>6 DEF Downloaded
  <2> QED
    BY <2>1, <2>7
<1> QED
  BY <1>3, <1>4, <1>5

(* What is received comes behind what the file has.                        *)
LEMMA ReceiveSound ==
  ASSUME Typed, \A t \in Session : Uploading(t) /\ Downloading(t),
         NEW s \in Session, Receive(s)
  PROVE  \A t \in Session : Uploading(t)' /\ Downloading(t)'
<1> DEFINE e == <<s, Len(data[s]) + 1>>
<1>1. e \in Block /\ data' = [data EXCEPT ![s] = Append(@, e)]
  BY ReceiveType
<1> HIDE DEF e
<1>2. UNCHANGED <<content, ino, off, source, sent, touched>>
  BY DEF Receive, download
<1>3. ASSUME NEW t \in Session PROVE Downloading(t)'
  <2>1. SendKept(t)
    BY <1>2 DEF SendKept
  <2> QED
    BY <1>2, <2>1, DownloadKept
<1>4. ASSUME NEW t \in Session \ {s} PROVE Uploading(t)'
  <2>1. UpKept(t)
    BY <1>1, <1>2 DEF UpKept, Typed
  <2> QED
    BY <1>2, <2>1, UploadKept
<1>5. Uploading(s)'
  <2> SUFFICES ASSUME <<s, "up">> \notin touched, NEW i \in ino[s]
               PROVE  Alone(s, i)' /\ Uploaded(s, i)'
    BY <1>2 DEF Uploading
  <2>1. Alone(s, i) /\ Uploaded(s, i)
    BY DEF Uploading
  <2>2. data[s] \in Seq(Block) /\ off[s] \in Nat /\ Len(data[s]) \in Nat
    BY DEF Typed
  <2>3. data'[s] = Append(data[s], e)
    BY <1>1 DEF Typed
  <2>4. SubSeq(Append(data[s], e), 1, off[s]) = SubSeq(data[s], 1, off[s])
    BY <1>1, <2>1, <2>2, StartOfAppend DEF Uploaded
  <2>5. Len(Append(data[s], e)) = Len(data[s]) + 1
    BY <1>1, <2>2
  <2>6. Uploaded(s, i)'
    BY <1>2, <2>1, <2>2, <2>3, <2>4, <2>5 DEF Uploaded
  <2> QED
    BY <1>2, <2>1, <2>6 DEF Alone
<1> QED
  BY <1>3, <1>4, <1>5

(* A flush extends the file by the next block, and no untouched session    *)
(* but the one that uploads has that file open.                            *)
LEMMA FlushSound ==
  ASSUME Typed, \A t \in Session : Uploading(t) /\ Downloading(t),
         NEW s \in Session, Flush(s)
  PROVE  \A t \in Session : Uploading(t)' /\ Downloading(t)'
<1> DEFINE e == data[s][off[s] + 1]
<1>1. PICK i \in ino[s] :
        /\ e \in Block
        /\ content' = [content EXCEPT ![i] = Stored(@, off[s] + 1, e)]
  BY FlushType
<1>2. /\ off[s] < Len(data[s])
      /\ off' = [off EXCEPT ![s] = @ + 1]
      /\ UNCHANGED <<ino, data, source, sent, touched>>
  BY DEF Flush, download
<1>3. \A j \in Inode : j # i => content'[j] = content[j]
  BY <1>1 DEF Typed
<1>4. ASSUME NEW t \in Session PROVE Downloading(t)'
  <2>1. SendKept(t)
    BY <1>2 DEF SendKept
  <2>2. ASSUME <<t, "send">> \notin touched, NEW j \in source[t]
        PROVE  content'[j] = content[j]
    <3>1. j \notin ino[s] /\ j \in Inode
      BY <2>2 DEF Downloading, Typed
    <3> QED
      BY <1>1, <1>3, <3>1
  <2> QED
    BY <1>2, <2>1, <2>2, DownloadKept
<1>5. ASSUME NEW t \in Session \ {s} PROVE Uploading(t)'
  <2>1. UpKept(t)
    BY <1>2 DEF UpKept, Typed
  <2>2. ASSUME <<t, "up">> \notin touched, NEW j \in ino[t]
        PROVE  content'[j] = content[j]
    <3>1. Alone(t, j) /\ j \in Inode
      BY <2>2 DEF Uploading, Typed
    <3>2. j # i
      BY <1>1, <3>1 DEF Alone
    <3> QED
      BY <1>3, <3>1, <3>2
  <2> QED
    BY <1>2, <2>1, <2>2, UploadKept
<1>6. Uploading(s)'
  <2> SUFFICES ASSUME <<s, "up">> \notin touched
               PROVE  Alone(s, i)' /\ Uploaded(s, i)'
    BY <1>2 DEF Uploading, Typed
  <2>1. Alone(s, i) /\ Uploaded(s, i)
    BY DEF Uploading
  <2>2. data[s] \in Seq(Block) /\ off[s] \in Nat /\ Len(data[s]) \in Nat
    BY DEF Typed
  <2>3. content[i] \in Seq(Block) /\ i \in Inode
    BY DEF Typed
  <2>4. Len(content[i]) = off[s]
    BY <1>2, <2>1, <2>2 DEF Uploaded
  <2>5. content'[i] = Append(content[i], e)
    BY <1>1, <2>3, <2>4, StoredNext DEF Typed
  <2>6. SubSeq(data[s], 1, off[s] + 1) = Append(SubSeq(data[s], 1, off[s]), e)
    BY <1>2, <2>2, StartLonger
  <2>7. off'[s] = off[s] + 1 /\ data'[s] = data[s]
    BY <1>2 DEF Typed
  <2>8. off[s] + 1 <= Len(data[s]) /\ content[i] = SubSeq(data[s], 1, off[s])
    BY <1>2, <2>1, <2>2 DEF Uploaded
  <2> HIDE DEF e
  <2>9. content'[i] = SubSeq(data[s], 1, off[s] + 1)
    BY <2>5, <2>6, <2>8
  <2>10. Uploaded(s, i)'
    BY <2>7, <2>8, <2>9 DEF Uploaded
  <2> QED
    BY <1>2, <2>1, <2>10 DEF Alone
<1> QED
  BY <1>4, <1>5, <1>6

(* The end of a transfer or of the connection.                             *)
LEMMA EndSound ==
  ASSUME Typed, \A t \in Session : Uploading(t) /\ Downloading(t), NEW s \in Session,
         RecvDone(s) \/ Hang(s) \/ Die(s) \/ CatDone(s)
  PROVE  \A t \in Session : Uploading(t)' /\ Downloading(t)'
<1>1. UNCHANGED content
  BY DEF RecvDone, Hang, Die, CatDone
<1>2. NotSending(s)
  BY DEF RecvDone, Hang, Die, CatDone, Disconnect
<1>3. \A t \in Session \ {s} :
        \A w \in {"up", "send"} : <<t, w>> \in touched => <<t, w>> \in touched'
  BY DEF RecvDone, Hang, Die, CatDone, Disconnect
<1>4. \A t \in Session : SendKept(t) \/ source'[t] = {}
  BY <1>2, <1>3, NotSendingType DEF SendKept
<1>5. ASSUME NEW t \in Session PROVE UpKept(t) \/ ino'[t] = {}
  <2>1. CASE CatDone(s)
    BY <2>1 DEF CatDone, UpKept, open
  <2>2. CASE RecvDone(s) \/ Hang(s) \/ Die(s)
    <3>1. Closed(s)
      BY <2>2 DEF RecvDone, Hang, Die, Disconnect
    <3> QED
      BY <1>3, <3>1, ClosedType DEF UpKept
  <2> QED
    BY <2>1, <2>2
<1> QED
  BY <1>1, <1>4, <1>5, Quiet

(* Every step keeps all transfers sound.                                   *)
LEMMA SoundStep ==
  Typed /\ (\A t \in Session : Uploading(t) /\ Downloading(t)) /\ [Next]_vars
    => \A t \in Session : Uploading(t)' /\ Downloading(t)'
<1> SUFFICES ASSUME Typed, \A t \in Session : Uploading(t) /\ Downloading(t), [Next]_vars
             PROVE  \A t \in Session : Uploading(t)' /\ Downloading(t)'
  OBVIOUS
<1> DEFINE Goal == \A t \in Session : Uploading(t)' /\ Downloading(t)'
<1>1. ASSUME UNCHANGED <<content, open, source, sent>>,
             \A t \in Session : \A w \in {"up", "send"} :
               <<t, w>> \in touched => <<t, w>> \in touched'
      PROVE  Goal
  <2>1. \A t \in Session : UpKept(t) /\ SendKept(t)
    BY <1>1 DEF UpKept, SendKept, open
  <2> QED
    BY <1>1, <2>1, Quiet
<1>2. ASSUME NEW s \in Session, NEW args, Cd(s, args) PROVE Goal
  BY <1>1, <1>2 DEF Cd, download
<1>3. ASSUME NEW s \in Session, NEW args, NEW word \in {"mkdir", "rm", "rmdir"},
             Check(s, args, word)
      PROVE  Goal
  BY <1>1, <1>3 DEF Check, download
<1>4. ASSUME NEW s \in Session, Mkdir(s) \/ Rm(s) \/ RmdirFile(s) \/ RmdirSelf(s)
      PROVE  Goal
  BY <1>1, <1>4 DEF Mkdir, Rm, RmdirFile, RmdirSelf, InCall, Touch, download
<1>5. ASSUME NEW s \in Session, RmdirStart(s) \/ RmdirSub(s) \/ Fork(s) \/ Reset(s)
      PROVE  Goal
  BY <1>1, <1>5 DEF RmdirStart, RmdirSub, InCall, Fork, Reset, download
<1>6. ASSUME NEW s \in Session, NEW args, OpenFails(s, args) PROVE Goal
  <2>1. UNCHANGED <<content, open, touched>>
    BY <1>6 DEF OpenFails
  <2>2. CASE UpFails(s, args)
    BY <1>1, <2>1, <2>2 DEF UpFails
  <2>3. CASE NotSending(s)
    <3>1. \A t \in Session : UpKept(t)
      BY <2>1 DEF UpKept, open
    <3>2. \A t \in Session : SendKept(t) \/ source'[t] = {}
      BY <2>1, <2>3, NotSendingType DEF SendKept
    <3> QED
      BY <2>1, <3>1, <3>2, Quiet
  <2> QED
    BY <1>6, <2>2, <2>3 DEF OpenFails, CatFails, RecvFails
<1>7. ASSUME NEW s \in Session, FlushFails(s) PROVE Goal
  <2>1. /\ UNCHANGED <<content, ino, off, source, sent>>
        /\ touched' = touched \cup {<<s, "up">>}
        /\ \A t \in Session \ {s} : data'[t] = data[t]
    BY <1>7 DEF FlushFails, download, Typed
  <2>2. ASSUME NEW t \in Session \ {s} PROVE Uploading(t)'
    <3>1. UpKept(t)
      BY <2>1 DEF UpKept
    <3> QED
      BY <2>1, <3>1, UploadKept
  <2>3. Uploading(s)'
    BY <2>1 DEF Uploading
  <2>4. ASSUME NEW t \in Session PROVE Downloading(t)'
    <3>1. SendKept(t)
      BY <2>1 DEF SendKept
    <3> QED
      BY <2>1, <3>1, DownloadKept
  <2> QED
    BY <2>2, <2>3, <2>4
<1>8. CASE UNCHANGED vars
  BY <1>1, <1>8 DEF vars, download
<1>9. ASSUME NEW s \in Session, Client(s) PROVE Goal
  <2>1. CASE Receive(s) \/ Reset(s) \/ Hang(s)
    BY <1>5, <2>1, ReceiveSound, EndSound DEF Goal
  <2>2. CASE \E args \in Received :
               \/ Cd(s, args)
               \/ \E word \in {"mkdir", "rm", "rmdir"} : Check(s, args, word)
               \/ OpenFails(s, args)
    BY <1>2, <1>3, <1>6, <2>2
  <2>3. CASE \E args \in Received :
               Download(s, args) \/ Overwrite(s, args) \/ Create(s, args)
    BY <2>3, DownloadSound, UploadSound DEF Goal
  <2> QED
    BY <1>9, <2>1, <2>2, <2>3 DEF Client
<1>10. ASSUME NEW s \in Session, Work(s) PROVE Goal
  <2>1. CASE SendPiece(s) \/ CatDone(s) \/ RecvDone(s)
    BY <2>1, SendSound, EndSound DEF Goal
  <2>2. CASE Mkdir(s) \/ Rm(s) \/ RmdirFile(s) \/ RmdirSelf(s)
    BY <1>4, <2>2
  <2>3. CASE RmdirStart(s) \/ RmdirSub(s)
    BY <1>5, <2>3
  <2> QED
    BY <1>10, <2>1, <2>2, <2>3 DEF Work
<1>11. ASSUME NEW s \in Session, Flush(s) \/ Die(s) PROVE Goal
  BY <1>11, FlushSound, EndSound DEF Goal
<1>12. ASSUME NEW s \in Session,
              Client(s) \/ Work(s) \/ Flush(s) \/ FlushFails(s) \/ Die(s) \/ Fork(s)
       PROVE  Goal
  <2>1. CASE Fork(s)
    BY <1>5, <2>1
  <2> QED
    BY <1>7, <1>9, <1>10, <1>11, <1>12, <2>1
<1>13. CASE Next
  BY <1>12, <1>13, Zenon DEF Next
<1> QED
  BY <1>8, <1>13

(* What a session has sent is there as long as it sends the file.          *)
LEMMA OrderlyStep ==
  Typed /\ (\A t \in Session : Orderly(t)) /\ [Next]_vars
    => \A t \in Session : Orderly(t)'
<1> SUFFICES ASSUME Typed, \A t \in Session : Orderly(t), [Next]_vars,
                    NEW t \in Session
             PROVE  Orderly(t)'
  OBVIOUS
<1>1. ASSUME UNCHANGED download PROVE Orderly(t)'
  BY <1>1 DEF Orderly, download
<1>2. ASSUME NEW s \in Session, NEW args, Download(s, args) PROVE Orderly(t)'
  <2>1. PICK word \in {"cat", "recv"} : sending' = [sending EXCEPT ![s] = word]
    BY <1>2, DownloadFacts
  <2>2. sent' = [sent EXCEPT ![s] = <<>>] /\ UNCHANGED <<is_end, reset>>
    BY <1>2 DEF Download
  <2> QED
    BY <2>1, <2>2 DEF Orderly, Typed
<1>3. ASSUME NEW s \in Session, NEW args, OpenFails(s, args) PROVE Orderly(t)'
  <2>1. UNCHANGED reset
    BY <1>3 DEF OpenFails
  <2>2. CASE UpFails(s, args)
    <3>1. sending[s] = "no" \/ sent[s] = <<>> \/ s \in reset
      BY <2>2 DEF UpFails, Commanded, Reading
    <3>2. is_end' = [is_end EXCEPT ![s] = TRUE] /\ UNCHANGED <<sending, sent>>
      BY <2>2 DEF UpFails
    <3> QED
      BY <2>1, <3>1, <3>2 DEF Orderly, Typed
  <2>3. CASE CatFails(s, args) \/ RecvFails(s, args)
    <3>1. NotSending(s)
      BY <2>3 DEF CatFails, RecvFails
    <3>2. \A u \in Session \ {s} : is_end'[u] = is_end[u]
      BY <2>3 DEF CatFails, RecvFails, Typed
    <3> QED
      BY <2>1, <3>1, <3>2, NotSendingType DEF Orderly
  <2> QED
    BY <1>3, <2>2, <2>3 DEF OpenFails
<1>4. ASSUME NEW s \in Session, SendPiece(s) PROVE Orderly(t)'
  <2>1. sending[s] # "no" /\ ~is_end[s] /\ UNCHANGED <<sending, is_end, reset>>
    BY <1>4 DEF SendPiece, Sends
  <2>2. \A u \in Session \ {s} : sent'[u] = sent[u]
    BY <1>4, SendType DEF Typed
  <2> QED
    BY <2>1, <2>2 DEF Orderly
<1>5. ASSUME NEW s \in Session, CatDone(s) PROVE Orderly(t)'
  BY <1>5, NotSendingType DEF CatDone, Orderly
<1>6. ASSUME NEW s \in Session, Disconnect(s) PROVE Orderly(t)'
  <2>1. NotSending(s) /\ is_end' = [is_end EXCEPT ![s] = FALSE] /\ reset' = reset \ {s}
    BY <1>6 DEF Disconnect
  <2> QED
    BY <2>1, NotSendingType DEF Orderly, Typed
<1>7. ASSUME NEW s \in Session, Reset(s) PROVE Orderly(t)'
  BY <1>7 DEF Reset, Orderly
<1>8. ASSUME NEW s \in Session, Client(s) PROVE Orderly(t)'
  <2>1. CASE Receive(s) \/ Reset(s) \/ Hang(s)
    BY <1>1, <1>6, <1>7, <2>1 DEF Receive, Hang
  <2>2. ASSUME NEW args \in Received,
               \/ Cd(s, args) \/ Overwrite(s, args) \/ Create(s, args)
               \/ \E word \in {"mkdir", "rm", "rmdir"} : Check(s, args, word)
        PROVE  Orderly(t)'
    BY <1>1, <2>2 DEF Cd, Overwrite, Create, Opened, Check
  <2> QED
    BY <1>2, <1>3, <1>8, <2>1, <2>2 DEF Client
<1>9. ASSUME NEW s \in Session, Work(s) PROVE Orderly(t)'
  <2>1. CASE \/ Mkdir(s) \/ Rm(s) \/ RmdirStart(s) \/ RmdirFile(s) \/ RmdirSub(s)
             \/ RmdirSelf(s)
    BY <1>1, <2>1 DEF Mkdir, Rm, RmdirStart, RmdirFile, RmdirSub, RmdirSelf, InCall
  <2> QED
    BY <1>4, <1>5, <1>6, <1>9, <2>1 DEF Work, RecvDone
<1>10. ASSUME NEW s \in Session, Flush(s) \/ FlushFails(s) \/ Die(s) \/ Fork(s)
      PROVE  Orderly(t)'
  BY <1>1, <1>6, <1>10 DEF Flush, FlushFails, Die, Fork
<1> QED
  BY <1>1, <1>8, <1>9, <1>10 DEF Next, vars

-----------------------------------------------------------------------------
(* No session has anything open at the start.                              *)
LEMMA InitIInv == Init => IInv
<1> SUFFICES ASSUME Init PROVE IInv
  OBVIOUS
<1>1. \A p \in DOMAIN file : file[p] \in Inode
  BY RepositoryAssumption DEF Init
<1>2. <<Hole, Hole>> \in Seq(Block)
  BY DEF Block
<1>3. content \in [Inode -> Seq(Block)]
  BY <1>2, EmptyFacts DEF Init
<1>4. data \in [Session -> Seq(Block)] /\ sent \in [Session -> Seq(Block)]
  BY EmptyFacts DEF Init
<1>5. Typed
  BY <1>1, <1>3, <1>4 DEF Init, Typed, Commands
<1>6. \A s \in Session : Uploading(s) /\ Downloading(s) /\ Orderly(s)
  BY DEF Init, Uploading, Downloading, Orderly
<1> QED
  BY <1>5, <1>6 DEF IInv

LEMMA NextIInv == IInv /\ [Next]_vars => IInv'
BY TypeStep, SoundStep, OrderlyStep DEF IInv

(* IInv holds in every state: in particular a file that is uploaded or     *)
(* sent without interference is one nobody else writes to.                 *)
THEOREM Invariance == Spec => []IInv
<1> QED
  BY InitIInv, NextIInv, PTL DEF Spec

-----------------------------------------------------------------------------
(* The ends of the transfers.                                              *)

(* The steps that end an upload, its worker staying alive.                 *)
LEMMA EndsUpload ==
  ASSUME Typed, [Next]_vars, NEW s \in Session, pc[s] = "up", pc'[s] = "idle"
  PROVE  Hang(s) \/ RecvDone(s)
<1> USE DEF Typed
<1>1. ASSUME NEW t \in Session, NEW args,
             \/ Cd(t, args) \/ OpenFails(t, args) \/ Download(t, args)
             \/ Overwrite(t, args) \/ Create(t, args)
             \/ \E word \in {"mkdir", "rm", "rmdir"} : Check(t, args, word)
      PROVE  FALSE
  BY <1>1 DEF Cd, OpenFails, Download, Overwrite, Create, Check, Opened, Begin, command
<1>2. ASSUME NEW t \in Session,
             \/ Mkdir(t) \/ Rm(t) \/ RmdirStart(t) \/ RmdirFile(t) \/ RmdirSub(t)
             \/ RmdirSelf(t) \/ SendPiece(t) \/ CatDone(t)
      PROVE  FALSE
  BY <1>2 DEF Mkdir, Rm, RmdirStart, RmdirFile, RmdirSub, RmdirSelf, SendPiece,
     CatDone, InCall, Finish, command
<1>3. ASSUME NEW t \in Session,
             \/ Receive(t) \/ Reset(t) \/ Flush(t) \/ FlushFails(t) \/ Die(t) \/ Fork(t)
      PROVE  FALSE
  BY <1>3 DEF Receive, Reset, Flush, FlushFails, Die, Fork, Finish, command
<1>4. ~UNCHANGED vars
  BY DEF vars, command
<1>5. ASSUME NEW t \in Session, Hang(t) \/ RecvDone(t) PROVE t = s
  BY <1>5 DEF Hang, RecvDone, Finish
<1> QED
  BY <1>1, <1>2, <1>3, <1>4, <1>5 DEF Next, Client, Work

(* The steps after which nothing is sent of a file any more.               *)
LEMMA EndsDownload ==
  ASSUME IInv, [Next]_vars, NEW s \in Session, sent[s] # <<>>, sent'[s] = <<>>,
         s \notin reset, pc'[s] # "dead"
  PROVE  CatDone(s) \/ RecvDone(s)
<1>1. Typed /\ Orderly(s)
  BY DEF IInv
<1>2. sending[s] # "no" /\ ~is_end[s] /\ ~Reading(s)
  BY <1>1 DEF Orderly, Reading
<1>3. sent'[s] # sent[s]
  OBVIOUS
<1>4. ASSUME UNCHANGED download PROVE FALSE
  BY <1>3, <1>4 DEF download
<1>5. ASSUME NEW t \in Session, t # s, NotSending(t) PROVE FALSE
  BY <1>1, <1>3, <1>5, NotSendingType
<1>6. ASSUME NEW t \in Session, SendPiece(t) PROVE FALSE
  <2>1. PICK e \in Block : sent' = [sent EXCEPT ![t] = Append(@, e)]
    BY <1>1, <1>6, SendType
  <2>2. t = s /\ sent[s] \in Seq(Block) /\ sent'[s] = Append(sent[s], e)
    BY <1>1, <1>3, <2>1 DEF Typed
  <2> QED
    BY <2>2, AppendProperties
<1>7. ASSUME NEW t \in Session, NEW args, Download(t, args) PROVE FALSE
  <2>1. Reading(t) /\ sent' = [sent EXCEPT ![t] = <<>>]
    BY <1>7 DEF Download, Commanded
  <2> QED
    BY <1>1, <1>2, <1>3, <2>1 DEF Typed
<1>8. ASSUME NEW t \in Session, NEW args, OpenFails(t, args) PROVE FALSE
  <2>1. Reading(t) /\ (NotSending(t) \/ UNCHANGED sent)
    BY <1>8 DEF OpenFails, CatFails, RecvFails, UpFails, Commanded
  <2> QED
    BY <1>2, <1>3, <1>5, <2>1
<1>9. ASSUME NEW t \in Session, Hang(t) \/ Die(t) PROVE FALSE
  <2>1. NotSending(t)
    BY <1>9 DEF Hang, Die, Disconnect
  <2>2. t = s
    BY <1>5, <2>1
  <2>3. ~Hang(s)
    BY <1>2 DEF Hang
  <2>4. ~Die(s)
    BY <1>1 DEF Die, Typed
  <2> QED
    BY <1>9, <2>2, <2>3, <2>4
<1>10. ASSUME NEW t \in Session, CatDone(t) \/ RecvDone(t) PROVE t = s
  BY <1>5, <1>10 DEF CatDone, RecvDone, Disconnect
<1>11. ASSUME NEW t \in Session, Client(t) PROVE FALSE
  <2>1. ASSUME NEW args \in Received,
               \/ Cd(t, args) \/ Overwrite(t, args) \/ Create(t, args)
               \/ \E word \in {"mkdir", "rm", "rmdir"} : Check(t, args, word)
        PROVE  FALSE
    BY <1>4, <2>1 DEF Cd, Overwrite, Create, Opened, Check
  <2>2. ~Receive(t) /\ ~Reset(t)
    BY <1>3 DEF Receive, Reset, download
  <2> QED
    BY <1>7, <1>8, <1>9, <1>11, <2>1, <2>2 DEF Client
<1>12. ASSUME NEW t \in Session, Work(t) PROVE CatDone(s) \/ RecvDone(s)
  <2>1. ~(\/ Mkdir(t) \/ Rm(t) \/ RmdirStart(t) \/ RmdirFile(t) \/ RmdirSub(t)
          \/ RmdirSelf(t))
    BY <1>4 DEF Mkdir, Rm, RmdirStart, RmdirFile, RmdirSub, RmdirSelf, InCall
  <2> QED
    BY <1>6, <1>10, <1>12, <2>1 DEF Work
<1>13. ASSUME NEW t \in Session, Flush(t) \/ FlushFails(t) \/ Fork(t) PROVE FALSE
  BY <1>4, <1>13 DEF Flush, FlushFails, Fork
<1>14. ~UNCHANGED vars
  BY <1>4 DEF vars
<1> QED
  BY <1>9, <1>11, <1>12, <1>13, <1>14 DEF Next

(* An upload nobody interfered with leaves in the file what was sent, for  *)
(* any number of sessions, wherever the others are and die.                *)
THEOREM UploadsAreIntact == Spec => UploadIntact
<1>1. ASSUME IInv, [Next]_vars, NEW s \in Session, pc[s] = "up", pc'[s] = "idle",
             <<s, "up">> \notin touched, NEW i \in ino[s]
      PROVE  content[i] = data[s]
  <2>1. off[s] >= Len(data[s])
    BY <1>1, EndsUpload DEF IInv, Hang, RecvDone
  <2>2. Uploaded(s, i)
    BY <1>1 DEF IInv, Uploading
  <2>3. data[s] \in Seq(Block) /\ Len(data[s]) \in Nat /\ off[s] \in Nat
    BY <1>1 DEF IInv, Typed
  <2>4. off[s] = Len(data[s])
    BY <2>1, <2>2, <2>3 DEF Uploaded
  <2> QED
    BY <2>2, <2>3, <2>4, StartWhole DEF Uploaded
<1>2. IInv /\ [Next]_vars =>
        [\A s \in Session :
           pc[s] = "up" /\ pc'[s] = "idle" /\ <<s, "up">> \notin touched
           => \A i \in ino[s] : content[i] = data[s]]_vars
  BY <1>1
<1> QED
  BY <1>2, Invariance, PTL DEF Spec, UploadIntact

(* A file of which a piece has been sent is sent to its end, as it is, for *)
(* any lines the client sends behind the command, unless the client resets *)
(* the connection, the worker dies or somebody uploads the file.           *)
THEOREM DownloadsAreIntact == Spec => DownloadIntact
<1>1. ASSUME IInv, [Next]_vars, NEW s \in Session, sent[s] # <<>>, sent'[s] = <<>>,
             pc'[s] # "dead", s \notin reset, <<s, "send">> \notin touched,
             NEW i \in source[s]
      PROVE  content[i] = sent[s]
  <2>1. Ended(s)
    BY <1>1, EndsDownload DEF CatDone, RecvDone
  <2>2. Downloaded(s, i)
    BY <1>1 DEF IInv, Downloading
  <2>3. content[i] \in Seq(Block) /\ sent[s] \in Seq(Block)
    BY <1>1 DEF IInv, Typed
  <2>4. Len(content[i]) \in Nat /\ Len(sent[s]) \in Nat
    BY <2>3
  <2>5. Len(sent[s]) = Len(content[i])
    BY <2>1, <2>2, <2>4 DEF Ended, Downloaded
  <2> QED
    BY <2>2, <2>3, <2>4, <2>5, StartWhole DEF Downloaded
<1>2. IInv /\ [Next]_vars =>
        [\A s \in Session :
           /\ sent[s] # <<>> /\ sent'[s] = <<>> /\ pc'[s] # "dead"
           /\ s \notin reset /\ <<s, "send">> \notin touched
           => \A i \in source[s] : content[i] = sent[s]]_vars
  BY <1>1
<1> QED
  BY <1>2, Invariance, PTL DEF Spec, DownloadIntact

-----------------------------------------------------------------------------
(* Paths, commands and the tree.                                           *)

(* The strings that are made from an acceptable path.                      *)
IsPath(string) ==
  /\ NodesOf(string) \in Seq(PathNode)
  /\ Acceptable(NodesOf(string)) /\ string = FilePath(NodesOf(string))

PlaceOf(string) == Lexical(NodesOf(string))

Busy  == {"mkdir", "rm", "rmdir", "up"}
Frame == [at : FileString, left : Seq(Listed)]

Shaped ==
  /\ IsTree(dirs, file)
  /\ path \in [Session -> Seq(PathNode)]
  /\ final \in [Session -> Seq(FileToken)] /\ goal \in [Session -> Place]
  /\ stack \in [Session -> Seq(Frame)]
  /\ left \in Nat

(* The path of a session is acceptable, and so is that of its command,     *)
(* which means its goal.                                                   *)
Directed(s) ==
  /\ Acceptable(path[s])
  /\ pc[s] \in Busy => IsPath(final[s]) /\ goal[s] = PlaceOf(final[s])
  /\ pc[s] \in {"mkdir", "rm", "rmdir"} => NodesOf(final[s]) # <<>>

(* Each call of rmdir is for an entry of the directory of its caller, the  *)
(* first for the path of the command.                                      *)
Nested(s) ==
  /\ pc[s] # "rmdir" => stack[s] = <<>>
  /\ \A j \in 1 .. Len(stack[s]) :
       /\ IsPath(stack[s][j].at) /\ NodesOf(stack[s][j].at) # <<>>
       /\ Below(PlaceOf(stack[s][j].at), goal[s])
       /\ j = 1 => stack[s][j].at = final[s]
       /\ j # 1 => \E e \in NameNode :
                     NodesOf(stack[s][j].at) = Append(NodesOf(stack[s][j - 1].at), e)

PathInv == Shaped /\ \A s \in Session : Directed(s) /\ Nested(s)

(* What remains of an rmdir that nobody interferes with.                   *)
Clear(string) ==
  /\ LastNode(string) \notin {Dot, DotDot}
  /\ \A q \in Through(string) : Below(q, PlaceOf(string)) => q = PlaceOf(string)

(* The place of a call, the entries it has left, and the places of these.  *)
At(s, j)       == PlaceOf(stack[s][j].at)
Rest(s, j)     == stack[s][j].left
Child(s, j, i) == Append(At(s, j), Rest(s, j)[i].name)

Covered(s, r) ==
  \E j \in 1 .. Len(stack[s]) :
    \/ j # 1 /\ r = At(s, j)
    \/ \E i \in 1 .. Len(Rest(s, j)) : Below(r, Child(s, j, i))

Complete(s) ==
  /\ Way(NodesOf(final[s])) \subseteq dirs
  /\ \A j \in 1 .. Len(stack[s]) :
       /\ At(s, j) \in dirs
       /\ IsListing(Rest(s, j), At(s, j))
       /\ j # 1 => \A i \in 1 .. Len(Rest(s, j - 1)) : Child(s, j - 1, i) # At(s, j)
  /\ stack[s] # <<>> =>
       \A r \in Entries : Below(r, goal[s]) /\ r # goal[s] => Covered(s, r)

Safe(s) == goal[s] \in dirs /\ (Clear(final[s]) => Complete(s))

Removing(s) == pc[s] = "rmdir" /\ <<s, "rmdir">> \notin touched => Safe(s)

RemoveInv == \A s \in Session : Removing(s)
-----------------------------------------------------------------------------
(* What the system calls do to the tree.                                   *)

LEMMA IsPathOf ==
  ASSUME NEW p \in Seq(PathNode), Acceptable(p)
  PROVE  /\ IsPath(FilePath(p)) /\ NodesOf(FilePath(p)) = p
         /\ PlaceOf(FilePath(p)) = Lexical(p)
BY NodesOfIs DEF IsPath, PlaceOf

LEMMA PathFacts ==
  ASSUME NEW string, IsPath(string)
  PROVE  /\ PlaceOf(string) \in Place /\ PlaceOf(string) # Outside
         /\ string \in FileString /\ string \in Seq(FileToken)
         /\ Walk(string) = IF Way(NodesOf(string)) \subseteq dirs
                           THEN {PlaceOf(string)} ELSE {}
<1> DEFINE p == NodesOf(string)
<1>1. p \in Seq(PathNode) /\ Acceptable(p) /\ string = FilePath(p)
  BY DEF IsPath
<1> HIDE DEF p
<1>2. Lexical(p) \in Place /\ Lexical(p) # Outside
  BY <1>1, LexicalType, OutsideIsNoPlace
<1>3. FilePath(p) \in FileString
  BY <1>1, FilePathType
<1>4. Walk(FilePath(p)) = Arrives(p)
  BY <1>1, WalkArrives
<1> QED
  BY <1>1, <1>2, <1>3, <1>4 DEF PlaceOf, Arrives, FileString, p

(* mkdir makes a directory at a new place in a directory.                  *)
LEMMA MadeTree ==
  ASSUME NEW string, IsPath(string), IsTree(dirs, file)
  PROVE  IsTree(Made(string), file)
<1> DEFINE v == PlaceOf(string)
<1>1. v \in Place /\ Walk(string) \subseteq {v}
      /\ (Walk(string) # {} => Way(NodesOf(string)) \subseteq dirs)
  BY PathFacts
<1>2. CASE Walk(string) \ (Entries \cup {Outside}) = {}
  BY <1>2 DEF Made
<1>3. CASE Walk(string) \ (Entries \cup {Outside}) # {}
  <2>1. Made(string) = dirs \cup {v} /\ v \notin dirs \cup DOMAIN file
    BY <1>1, <1>3 DEF Made, Entries
  <2>2. Way(NodesOf(string)) \subseteq dirs
    BY <1>1, <1>3
  <2>3. v # <<>> /\ Above(v) \in dirs
    BY <2>1, <2>2, NewPlace DEF IsPath, PlaceOf
  <2> HIDE DEF v
  <2> QED
    BY <1>1, <2>1, <2>3 DEF IsTree, Place, NameNode
<1> QED
  BY <1>2, <1>3

(* fopen makes a file at a new place in a directory.                       *)
LEMMA CreatedTree ==
  ASSUME NEW string, IsPath(string), IsTree(dirs, file),
         NEW p \in Walk(string) \ (Entries \cup {Outside}),
         NEW f, DOMAIN f = DOMAIN file \cup {p}
  PROVE  IsTree(dirs, f) /\ p = PlaceOf(string)
<1>1. p = PlaceOf(string) /\ p \in Place /\ Way(NodesOf(string)) \subseteq dirs
  BY PathFacts
<1>2. p \notin dirs
  BY DEF Entries
<1>3. p # <<>> /\ Above(p) \in dirs
  BY <1>1, <1>2, NewPlace DEF IsPath, PlaceOf
<1> QED
  BY <1>1, <1>2, <1>3 DEF IsTree, Place, NameNode

LEMMA UnlinkedTree ==
  ASSUME NEW string, IsTree(dirs, file)
  PROVE  IsTree(dirs, Unlinked(string))
BY DEF IsTree, Unlinked

(* rmdir takes away a directory only if nothing is in it.                  *)
LEMMA RemovedTree ==
  ASSUME NEW string, IsPath(string), NodesOf(string) # <<>>, IsTree(dirs, file)
  PROVE  IsTree(Removed(string), file)
<1> DEFINE v == PlaceOf(string)
           Goes == /\ LastNode(string) \notin {Dot, DotDot}
                   /\ \A q \in Entries : Below(q, v) => q = v
<1>1. v \in Place /\ Walk(string) \subseteq {v}
  BY PathFacts
<1>2. Removed(string) \subseteq dirs /\ dirs \ {v} \subseteq Removed(string)
      /\ (v \notin Removed(string) /\ v \in dirs => Goes)
  BY <1>1 DEF Removed
<1>3. LastNode(string) \notin {Dot, DotDot} => v # <<>>
  <2>1. PICK q \in Seq(PathNode), e \in PathNode : NodesOf(string) = Append(q, e)
    BY PathSplit DEF IsPath
  <2>2. LastNode(string) = e
    BY <2>1, LastNodeIs DEF IsPath
  <2>3. v = Lexical_Next(Lexical(q), e)
    BY <2>1, LexicalMore DEF PlaceOf
  <2>4. Lexical(q) \in Place
    BY LexicalType
  <2> QED
    BY <2>2, <2>3, <2>4 DEF Lexical_Next, Place
<1>4. Goes => \A r \in dirs \cup DOMAIN file : r # <<>> => Above(r) # v
  <2> SUFFICES ASSUME Goes, NEW r \in dirs \cup DOMAIN file, r # <<>>, Above(r) = v
               PROVE  FALSE
    OBVIOUS
  <2>1. r \in Place /\ r \in Seq(NameNode) /\ Len(r) \in Nat /\ Len(r) # 0
    BY TreeFacts DEF Place
  <2>2. Len(v) = Len(r) - 1
    BY <2>1, AboveType
  <2>3. Below(r, v)
    BY <2>1, <2>2 DEF Below, Above
  <2>4. r = v
    BY <2>3 DEF Entries
  <2> QED
    BY <2>1, <2>2, <2>4
<1> HIDE DEF v, Goes
<1>5. CASE Removed(string) = dirs
  BY <1>5
<1>6. CASE Removed(string) # dirs
  <2>1. Removed(string) = dirs \ {v} /\ Goes
    BY <1>2, <1>6
  <2>2. v # <<>>
    BY <1>3, <2>1 DEF Goes
  <2>3. \A r \in dirs \cup DOMAIN file : r # <<>> => Above(r) # v
    BY <1>4, <2>1
  <2> QED
    BY <2>1, <2>2, <2>3 DEF IsTree
<1> QED
  BY <1>5, <1>6

-----------------------------------------------------------------------------
(* The start of a command.                                                 *)

LEMMA ReceivedType ==
  ASSUME NEW args \in Received
  PROVE  args \in Seq(String \cap Parts(Token, Space))
<1>1. PICK line \in Lines : args = Arguments(line)
  BY DEF Received
<1>2. line \in String
  BY RepositoryAssumption
<1> QED
  BY <1>1, <1>2, ArgumentsType

LEMMA SecondOf ==
  ASSUME NEW A, NEW q \in Seq(A), Len(q) = 2
  PROVE  q[2] \in A
OBVIOUS

LEMMA ArgumentType ==
  ASSUME NEW args \in Received, Len(args) = 2
  PROVE  args[2] \in String \cap Parts(Token, Space)
<1>1. args \in Seq(String \cap Parts(Token, Space))
  BY ReceivedType
<1> QED
  BY <1>1, SecondOf, Zenon

(* The path of mkdir, rm and rmdir is that of the session and a node.      *)
LEMMA NodeType ==
  ASSUME Shaped, NEW s \in Session, NEW args \in Received, Len(args) = 2,
         Acceptable(Node(s, args))
  PROVE  Node(s, args) \in Seq(PathNode) /\ Node(s, args) # <<>>
<1>1. args[2] \in String \cap Parts(Token, Space) /\ path[s] \in Seq(PathNode)
  BY ArgumentType DEF Shaped
<1> DEFINE n == Len(path[s])
           r == Node(s, args)
<1>2. n \in Nat /\ Len(r) = n + 1 /\ r[n + 1] = args[2]
  BY <1>1 DEF Node
<1>3. Plain(args[2])
  <2>1. n + 1 \in 1 .. Len(r)
    BY <1>2
  <2> QED
    BY <1>2, <2>1 DEF Acceptable
<1>4. args[2] \in PathNode
  BY <1>1, <1>3, PlainIsNode
<1> QED
  BY <1>1, <1>4 DEF Node

(* The path of cat, recv and up.                                           *)
LEMMA MeantOf ==
  ASSUME Shaped, NEW s \in Session, NEW args \in Received, Len(args) = 2,
         Acceptable(Meant(path[s], args[2]))
  PROVE  Meant(path[s], args[2]) \in Seq(PathNode)
<1>1. args[2] \in String \cap Parts(Token, Space) /\ path[s] \in Seq(PathNode)
  BY ArgumentType DEF Shaped
<1> QED
  BY <1>1, MeantType

(* The bound on the commands stays a number.                               *)
LEMMA LeftKept ==
  ASSUME Shaped, NEW s, NEW args, NEW word, NEW n, Commanded(s, args, word, n)
  PROVE  left' \in Nat /\ pc[s] = "idle" /\ Len(args) = n
BY DEF Shaped, Commanded

LEMMA BeginFacts ==
  ASSUME Shaped, Typed, NEW s \in Session, NEW p \in Seq(PathNode), NEW word, Begin(s, p, word)
  PROVE  /\ IsPath(final'[s]) /\ NodesOf(final'[s]) = p
         /\ pc'[s] = word /\ goal'[s] = PlaceOf(final'[s])
         /\ final' \in [Session -> Seq(FileToken)] /\ goal' \in [Session -> Place]
         /\ final'[s] = FilePath(p)
         /\ \A t \in Session \ {s} :
              pc'[t] = pc[t] /\ final'[t] = final[t] /\ goal'[t] = goal[t]
<1>1. Acceptable(p) /\ pc' = [pc EXCEPT ![s] = word]
      /\ final' = [final EXCEPT ![s] = FilePath(p)]
      /\ goal' = [goal EXCEPT ![s] = Lexical(p)]
  BY DEF Begin, FilePath
<1>2. /\ IsPath(FilePath(p)) /\ NodesOf(FilePath(p)) = p
      /\ PlaceOf(FilePath(p)) = Lexical(p)
  BY <1>1, IsPathOf
<1>3. FilePath(p) \in Seq(FileToken) /\ Lexical(p) \in Place
  BY LexicalType, FilePathType DEF FileString
<1> QED
  BY <1>1, <1>2, <1>3 DEF Shaped, Typed

LEMMA FinishFacts ==
  ASSUME Shaped, Typed, NEW s \in Session, Finish(s)
  PROVE  /\ pc'[s] = "idle"
         /\ final' \in [Session -> Seq(FileToken)] /\ goal' \in [Session -> Place]
         /\ \A t \in Session \ {s} :
              pc'[t] = pc[t] /\ final'[t] = final[t] /\ goal'[t] = goal[t]
<1>1. <<>> \in Seq(FileToken) /\ <<>> \in Place
  BY DEF Place
<1> QED
  BY <1>1 DEF Finish, Shaped, Typed
-----------------------------------------------------------------------------
(* The calls of rmdir.                                                     *)

LEMMA TailFacts ==
  ASSUME NEW A, NEW q \in Seq(A), q # <<>>
  PROVE  /\ Tail(q) \in Seq(A) /\ Tail(q) # q /\ q[1] \in A
         /\ Len(q) \in Nat \ {0} /\ Len(Tail(q)) = Len(q) - 1
         /\ \A i \in 1 .. Len(q) - 1 : Tail(q)[i] = q[i + 1]
<1>1. Len(q) \in Nat \ {0} /\ q[1] \in A
  OBVIOUS
<1>2. /\ Tail(q) \in Seq(A) /\ Len(Tail(q)) = Len(q) - 1
      /\ \A i \in 1 .. Len(q) - 1 : Tail(q)[i] = q[i + 1]
  OBVIOUS
<1> DEFINE r == Tail(q)
<1>3. r # q
  <2>1. Len(q) \in Nat /\ Len(r) = Len(q) - 1
    BY <1>1, <1>2
  <2> HIDE DEF r
  <2> QED
    BY <2>1
<1> QED
  BY <1>1, <1>2, <1>3

LEMMA AppendFacts ==
  ASSUME NEW A, NEW q \in Seq(A), NEW e \in A
  PROVE  /\ Append(q, e) \in Seq(A) /\ Append(q, e) # <<>>
         /\ Len(q) \in Nat /\ Len(Append(q, e)) = Len(q) + 1
         /\ Append(q, e)[Len(q) + 1] = e
         /\ \A i \in 1 .. Len(q) : Append(q, e)[i] = q[i]
<1>1. /\ Len(q) \in Nat /\ Append(q, e) \in Seq(A) /\ Len(Append(q, e)) = Len(q) + 1
      /\ Append(q, e)[Len(q) + 1] = e
      /\ \A i \in 1 .. Len(q) : Append(q, e)[i] = q[i]
  OBVIOUS
<1>2. Len(<<>>) = 0 /\ Len(Append(q, e)) # 0
  BY <1>1
<1> QED
  BY <1>1, <1>2

(* The last call, and those above it.                                      *)
LEMMA TopFacts ==
  ASSUME Shaped, NEW s \in Session, stack[s] # <<>>
  PROVE  /\ Len(stack[s]) \in Nat \ {0} /\ Top(s) = stack[s][Len(stack[s])]
         /\ Top(s) \in Frame
         /\ Callers(s) \in Seq(Frame) /\ Len(Callers(s)) = Len(stack[s]) - 1
         /\ \A j \in 1 .. Len(stack[s]) - 1 : Callers(s)[j] = stack[s][j]
<1> DEFINE q == stack[s]
           n == Len(q)
<1>1. q \in Seq(Frame) /\ q # <<>>
  BY DEF Shaped
<1> HIDE DEF q
<1>2. n \in Nat \ {0} /\ q[n] \in Frame
  BY <1>1
<1>3. /\ SubSeq(q, 1, n - 1) \in Seq(Frame) /\ Len(SubSeq(q, 1, n - 1)) = n - 1
      /\ \A j \in 1 .. n - 1 : SubSeq(q, 1, n - 1)[j] = q[j]
  <2> DEFINE m == n - 1
  <2>1. m \in 0 .. n
    BY <1>2
  <2> HIDE DEF m
  <2>2. /\ SubSeq(q, 1, m) \in Seq(Frame) /\ Len(SubSeq(q, 1, m)) = m
        /\ \A j \in 1 .. m : SubSeq(q, 1, m)[j] = q[j]
    BY <1>1, <2>1
  <2> QED
    BY <2>2 DEF m
<1> QED
  BY <1>2, <1>3 DEF Top, Callers, q

(* A call that has dealt with an entry goes on with the others.            *)
LEMMA ReturnedFacts ==
  ASSUME Shaped, NEW s \in Session, stack[s] # <<>>, Top(s).left # <<>>
  PROVE  /\ Returned(s) \in Seq(Frame) /\ Len(Returned(s)) = Len(stack[s])
         /\ \A j \in 1 .. Len(stack[s]) - 1 : Returned(s)[j] = stack[s][j]
         /\ Returned(s)[Len(stack[s])].at = Top(s).at
         /\ Returned(s)[Len(stack[s])].left = Tail(Top(s).left)
         /\ Returned(s) # stack[s]
<1> DEFINE n == Len(stack[s])
           x == [Top(s) EXCEPT !.left = Remaining(@)]
<1>1. /\ n \in Nat \ {0} /\ Top(s) = stack[s][n] /\ Top(s) \in Frame
      /\ Callers(s) \in Seq(Frame) /\ Len(Callers(s)) = n - 1
      /\ \A j \in 1 .. n - 1 : Callers(s)[j] = stack[s][j]
  BY TopFacts
<1>2. Top(s).left \in Seq(Listed) /\ Top(s).at \in FileString
  BY <1>1 DEF Frame
<1>3. /\ Tail(Top(s).left) \in Seq(Listed) /\ Len(Tail(Top(s).left)) = Len(Top(s).left) - 1
      /\ Len(Top(s).left) \in Nat
  BY <1>2
<1>4. x \in Frame /\ x.at = Top(s).at /\ x.left = Tail(Top(s).left)
  BY <1>1, <1>3 DEF Remaining, Frame
<1>5. x # Top(s)
  <2>1. Tail(Top(s).left) # Top(s).left
    BY <1>2, TailFacts, Zenon
  <2>2. x.left # Top(s).left
    BY <1>4, <2>1
  <2> QED
    BY <2>2
<1> HIDE DEF n, x
<1>6. /\ Append(Callers(s), x) \in Seq(Frame) /\ Len(Append(Callers(s), x)) = n
      /\ \A j \in 1 .. n - 1 : Append(Callers(s), x)[j] = Callers(s)[j]
      /\ Append(Callers(s), x)[n] = x
  BY <1>1, <1>4
<1>7. Returned(s) = Append(Callers(s), x)
  BY DEF Returned, x
<1>8. Returned(s) # stack[s]
  BY <1>1, <1>5, <1>6, <1>7
<1> QED
  BY <1>1, <1>4, <1>6, <1>7, <1>8 DEF n

(* The path of an entry: one name more.                                    *)
LEMMA EntryFacts ==
  ASSUME Shaped, NEW s \in Session, Nested(s), stack[s] # <<>>, Top(s).left # <<>>
  PROVE  /\ Entry(s) \in Listed /\ Entry(s) = Top(s).left[1]
         /\ Entry(s).name \in NameNode /\ Entry(s).is_file \in BOOLEAN
         /\ IsPath(Top(s).at) /\ IsPath(EntryPath(s))
         /\ NodesOf(EntryPath(s)) = Append(NodesOf(Top(s).at), Entry(s).name)
         /\ NodesOf(EntryPath(s)) # <<>>
         /\ PlaceOf(EntryPath(s)) = Append(PlaceOf(Top(s).at), Entry(s).name)
         /\ Below(PlaceOf(Top(s).at), goal[s])
         /\ Below(PlaceOf(EntryPath(s)), goal[s])
<1> DEFINE e == Entry(s).name
           q == NodesOf(Top(s).at)
<1>1. Len(stack[s]) \in Nat \ {0} /\ Top(s) = stack[s][Len(stack[s])] /\ Top(s) \in Frame
  BY TopFacts
<1>2. IsPath(Top(s).at) /\ Below(PlaceOf(Top(s).at), goal[s])
  BY <1>1 DEF Nested
<1>3. Entry(s) \in Listed /\ Entry(s) = Top(s).left[1]
  <2>1. Top(s).left \in Seq(Listed)
    BY <1>1 DEF Frame
  <2> QED
    BY <2>1 DEF Entry
<1>4. e \in NameNode /\ e \in PathNode /\ Entry(s).is_file \in BOOLEAN
  BY <1>3 DEF Listed, PathNode
<1>5. q \in Seq(PathNode) /\ Acceptable(q) /\ Top(s).at = FilePath(q)
  BY <1>2 DEF IsPath
<1> HIDE DEF e, q
<1>6. EntryPath(s) = FilePath(Append(q, e))
  BY <1>4, <1>5, FilePathMore DEF EntryPath, e
<1>7. Append(q, e) \in Seq(PathNode) /\ Append(q, e) # <<>>
  BY <1>4, <1>5, AppendFacts, Zenon
<1>8. e \notin {Dot, DotDot}
  BY <1>4, NodeFacts
<1>9. Acceptable(Append(q, e))
  BY <1>4, <1>5, <1>8, AcceptableMore
<1>10. Lexical(Append(q, e)) = Append(Lexical(q), e)
  BY <1>4, <1>5, <1>8, LexicalMore DEF Lexical_Next
<1>11. PlaceOf(Top(s).at) = Lexical(q)
  BY DEF PlaceOf, q
<1>12. /\ IsPath(EntryPath(s)) /\ NodesOf(EntryPath(s)) = Append(q, e)
       /\ PlaceOf(EntryPath(s)) = Append(Lexical(q), e)
  BY <1>6, <1>7, <1>9, <1>10, IsPathOf
<1>13. Below(Append(Lexical(q), e), goal[s])
  <2>1. Lexical(q) \in Place /\ goal[s] \in Place
    BY <1>5, LexicalType DEF Shaped
  <2>2. /\ Append(Lexical(q), e) \in Place
        /\ Below(Append(Lexical(q), e), Lexical(q))
    BY <1>4, <2>1, BelowFacts
  <2> QED
    BY <1>2, <1>11, <2>1, <2>2, BelowFacts
<1> QED
  BY <1>2, <1>3, <1>4, <1>7, <1>11, <1>12, <1>13 DEF e, q

LEMMA CallType ==
  ASSUME NEW string, IsPath(string)
  PROVE  Call(string) \in Frame /\ Call(string).at = string
         /\ Call(string).left = listdir(string)
<1>1. string \in FileString /\ listdir(string) \in Seq(Listed)
  BY PathFacts, ListdirType
<1> QED
  BY <1>1 DEF Call, Frame

-----------------------------------------------------------------------------
(* Every step keeps PathInv.                                               *)

(* A session that a step leaves alone.                                     *)
LEMMA LeftAlone ==
  ASSUME NEW t \in Session, Directed(t), Nested(t),
         path'[t] = path[t], pc'[t] = pc[t], final'[t] = final[t],
         goal'[t] = goal[t], stack'[t] = stack[t]
  PROVE  Directed(t)' /\ Nested(t)'
BY DEF Directed, Nested

(* A step that changes the path of a session and, at most, ends its        *)
(* command.                                                                *)
LEMMA PathChanges ==
  ASSUME PathInv, Typed, NEW s \in Session, NEW p \in Seq(PathNode), Acceptable(p),
         path' = [path EXCEPT ![s] = p],
         UNCHANGED <<tree, stack>>, left' \in Nat,
         UNCHANGED command \/ (Finish(s) /\ pc[s] # "rmdir")
  PROVE  PathInv'
<1>1. path' \in [Session -> Seq(PathNode)] /\ path'[s] = p
      /\ \A t \in Session \ {s} : path'[t] = path[t]
  BY DEF PathInv, Shaped
<1>2. CASE UNCHANGED command
  <2>1. Shaped'
    BY <1>1, <1>2 DEF PathInv, Shaped, command, tree
  <2>2. Directed(s)' /\ Nested(s)'
    BY <1>1, <1>2 DEF PathInv, Directed, Nested, command
  <2>3. ASSUME NEW t \in Session \ {s} PROVE Directed(t)' /\ Nested(t)'
    BY <1>1, <1>2, LeftAlone DEF PathInv, command
  <2> QED
    BY <2>1, <2>2, <2>3 DEF PathInv
<1>3. CASE Finish(s) /\ pc[s] # "rmdir"
  <2>1. /\ pc'[s] = "idle"
        /\ final' \in [Session -> Seq(FileToken)] /\ goal' \in [Session -> Place]
        /\ \A t \in Session \ {s} :
             pc'[t] = pc[t] /\ final'[t] = final[t] /\ goal'[t] = goal[t]
    BY <1>3, FinishFacts DEF PathInv
  <2>2. Shaped'
    BY <1>1, <2>1 DEF PathInv, Shaped, tree
  <2>3. Directed(s)'
    BY <1>1, <2>1 DEF Directed, Busy
  <2>4. Nested(s)'
    <3>1. stack'[s] = <<>>
      BY <1>3 DEF PathInv, Nested
    <3> QED
      BY <3>1 DEF Nested
  <2>5. ASSUME NEW t \in Session \ {s} PROVE Directed(t)' /\ Nested(t)'
    BY <1>1, <2>1, LeftAlone DEF PathInv
  <2> QED
    BY <2>2, <2>3, <2>4, <2>5 DEF PathInv
<1> QED
  BY <1>2, <1>3

(* A step that begins a command on an acceptable path.                     *)
LEMMA CommandBegins ==
  ASSUME PathInv, Typed, NEW s \in Session, pc[s] = "idle",
         NEW p \in Seq(PathNode), NEW word \in Busy, Begin(s, p, word),
         word \in {"mkdir", "rm", "rmdir"} => p # <<>>,
         IsTree(dirs', file'), UNCHANGED <<path, stack>>, left' \in Nat
  PROVE  PathInv'
<1>1. /\ IsPath(final'[s]) /\ NodesOf(final'[s]) = p
      /\ pc'[s] = word /\ goal'[s] = PlaceOf(final'[s])
      /\ final' \in [Session -> Seq(FileToken)] /\ goal' \in [Session -> Place]
      /\ \A t \in Session \ {s} :
           pc'[t] = pc[t] /\ final'[t] = final[t] /\ goal'[t] = goal[t]
  BY BeginFacts DEF PathInv
<1>2. Shaped'
  BY <1>1 DEF PathInv, Shaped
<1>3. Directed(s)'
  BY <1>1 DEF PathInv, Directed
<1>4. Nested(s)'
  <2>1. stack'[s] = <<>>
    BY DEF PathInv, Nested
  <2> QED
    BY <2>1 DEF Nested
<1>5. ASSUME NEW t \in Session \ {s} PROVE Directed(t)' /\ Nested(t)'
  BY <1>1, LeftAlone DEF PathInv
<1> QED
  BY <1>2, <1>3, <1>4, <1>5 DEF PathInv

(* A step in which an rmdir goes on: it changes the tree and its stack.    *)
LEMMA StackChanges ==
  ASSUME PathInv, NEW s \in Session, NEW q \in Seq(Frame), Nested(s)',
         stack' = [stack EXCEPT ![s] = q], IsTree(dirs', file'),
         UNCHANGED <<path, command, left>>
  PROVE  PathInv'
<1>1. stack' \in [Session -> Seq(Frame)] /\ \A t \in Session \ {s} : stack'[t] = stack[t]
  BY DEF PathInv, Shaped
<1>2. Shaped'
  BY <1>1 DEF PathInv, Shaped, command
<1>3. Directed(s)'
  BY DEF PathInv, Directed, command
<1>4. ASSUME NEW t \in Session \ {s} PROVE Directed(t)' /\ Nested(t)'
  BY <1>1, LeftAlone DEF PathInv, command
<1> QED
  BY <1>2, <1>3, <1>4 DEF PathInv
(* At the start every path is the base.                                    *)
LEMMA PathStart == Init => PathInv
<1> SUFFICES ASSUME Init PROVE PathInv
  OBVIOUS
<1>1. IsTree(dirs, file)
  BY RepositoryAssumption DEF Init
<1>2. <<>> \in Seq(PathNode) /\ <<>> \in Seq(FileToken) /\ <<>> \in Seq(Frame)
      /\ <<>> \in Place
  BY DEF Place
<1>3. Shaped
  BY <1>1, <1>2, RepositoryAssumption DEF Init, Shaped
<1>4. ASSUME NEW s \in Session PROVE Directed(s) /\ Nested(s)
  <2>1. path[s] = <<>> /\ pc[s] = "idle" /\ stack[s] = <<>>
    BY DEF Init
  <2> QED
    BY <2>1, AcceptableNone DEF Directed, Nested, Busy
<1> QED
  BY <1>3, <1>4 DEF PathInv

(* What cd .. drops leaves the start of an acceptable path.                *)
LEMMA AboveIsStart ==
  ASSUME NEW p \in Seq(PathNode), Acceptable(p)
  PROVE  Above(p) \in Seq(PathNode) /\ Acceptable(Above(p))
<1>1. Len(p) \in Nat /\ (Len(p) = 0 => p = <<>>)
  OBVIOUS
<1>2. CASE Len(p) = 0
  <2>1. Above(p) = <<>>
    BY <1>1, <1>2 DEF Above
  <2>2. <<>> \in Seq(PathNode)
    OBVIOUS
  <2> QED
    BY <2>1, <2>2, AcceptableNone
<1>3. CASE Len(p) # 0
  <2>1. Len(p) - 1 \in 0 .. Len(p)
    BY <1>1, <1>3
  <2> QED
    BY <2>1, AcceptableStart DEF Above
<1> QED
  BY <1>2, <1>3

(* cd leads to an acceptable path: to the base, to the start of one, or to *)
(* one that is checked.                                                    *)
LEMMA CdKeeps ==
  ASSUME PathInv, Typed, NEW s \in Session, NEW args \in Received, Cd(s, args)
  PROVE  PathInv'
<1>1. UNCHANGED <<tree, stack, command>> /\ left' \in Nat
  BY LeftKept DEF Cd, PathInv
<1>2. ASSUME NEW p \in Seq(PathNode), Acceptable(p), path' = [path EXCEPT ![s] = p]
      PROVE  PathInv'
  BY <1>1, <1>2, PathChanges
<1>3. path[s] \in Seq(PathNode) /\ Acceptable(path[s])
  BY DEF PathInv, Shaped, Directed
<1>4. CASE path' = [path EXCEPT ![s] = <<>>]
  <2>1. <<>> \in Seq(PathNode)
    OBVIOUS
  <2> QED
    BY <1>2, <1>4, <2>1, AcceptableNone
<1>5. CASE Len(args) = 2 /\ path' = [path EXCEPT ![s] = Moved(@, args[2])]
  <2>1. path' = [path EXCEPT ![s] = Moved(path[s], args[2])]
    BY <1>5
  <2>2. Moved(path[s], args[2]) \in Seq(PathNode) /\ Acceptable(Moved(path[s], args[2]))
    <3>1. CASE args[2] = DotDot
      <4>1. Moved(path[s], args[2]) = Above(path[s])
        BY <3>1 DEF Moved, Popped, Dot, DotDot
      <4> QED
        BY <1>3, <4>1, AboveIsStart
    <3>2. CASE args[2] = Dot
      BY <1>3, <3>2, NodeFacts DEF Moved
    <3>3. CASE args[2] \notin {Dot, DotDot}
      <4> DEFINE q == Meant(path[s], args[2])
      <4>1. Moved(path[s], args[2]) \in {q, path[s]}
            /\ (Moved(path[s], args[2]) = path[s] \/ Acceptable(q))
        BY <3>3 DEF Moved
      <4>2. Acceptable(q) => q \in Seq(PathNode)
        BY <1>5, MeantOf DEF PathInv
      <4> HIDE DEF q
      <4> QED
        BY <1>3, <4>1, <4>2
    <3> QED
      BY <3>1, <3>2, <3>3
  <2> QED
    BY <1>2, <2>1, <2>2
<1> QED
  BY <1>4, <1>5 DEF Cd, Commanded

(* The end of a connection.                                                *)
LEMMA EndKeeps ==
  ASSUME PathInv, Typed, NEW s \in Session, RecvDone(s) \/ Hang(s)
  PROVE  PathInv'
<1>1. <<>> \in Seq(PathNode) /\ left \in Nat
  BY DEF PathInv, Shaped
<1>2. path' = [path EXCEPT ![s] = <<>>]
  BY DEF RecvDone, Hang, Disconnect
<1>3. UNCHANGED <<tree, stack>> /\ Finish(s) /\ pc[s] # "rmdir" /\ left' = left
  BY DEF RecvDone, Hang, Finish, Sends
<1> QED
  BY <1>1, <1>2, <1>3, PathChanges, AcceptableNone

LEMMA BeginKeeps ==
  ASSUME PathInv, Typed, NEW s \in Session, NEW args \in Received,
         \/ \E word \in {"mkdir", "rm", "rmdir"} : Check(s, args, word)
         \/ Overwrite(s, args) \/ Create(s, args)
  PROVE  PathInv'
<1>1. IsTree(dirs, file) /\ left \in Nat
  BY DEF PathInv, Shaped
<1>2. ASSUME NEW word \in {"mkdir", "rm", "rmdir"}, Check(s, args, word) PROVE PathInv'
  <2>1. /\ pc[s] = "idle" /\ left' \in Nat /\ Len(args) = 2
        /\ Begin(s, Node(s, args), word) /\ Acceptable(Node(s, args))
        /\ UNCHANGED <<tree, path, stack>>
    BY <1>2, LeftKept DEF Check, Begin, PathInv
  <2>2. Node(s, args) \in Seq(PathNode) /\ Node(s, args) # <<>>
    BY <2>1, NodeType DEF PathInv
  <2>3. word \in Busy
    BY DEF Busy
  <2>4. IsTree(dirs', file')
    BY <1>1, <2>1 DEF tree
  <2> QED
    BY <2>1, <2>2, <2>3, <2>4, CommandBegins
<1> DEFINE p == Meant(path[s], args[2])
<1>3. ASSUME Opened(s, args), IsTree(dirs', file') PROVE PathInv'
  <2>1. /\ pc[s] = "idle" /\ left' \in Nat /\ Len(args) = 2
        /\ Begin(s, p, "up") /\ Acceptable(p)
        /\ UNCHANGED <<path, stack>>
    BY <1>3, LeftKept DEF Opened, Begin, PathInv
  <2>2. p \in Seq(PathNode)
    BY <2>1, MeantOf DEF PathInv
  <2>3. "up" \in Busy /\ "up" \notin {"mkdir", "rm", "rmdir"}
    BY DEF Busy
  <2> HIDE DEF p
  <2> QED
    BY <1>3, <2>1, <2>2, <2>3, CommandBegins
<1>4. CASE Overwrite(s, args)
  <2>1. UNCHANGED tree
    BY <1>4 DEF Overwrite
  <2>2. IsTree(dirs', file')
    BY <1>1, <2>1 DEF tree
  <2> QED
    BY <1>3, <1>4, <2>2 DEF Overwrite
<1>5. CASE Create(s, args)
  <2>1. Opened(s, args) /\ UNCHANGED dirs
    BY <1>5 DEF Create
  <2>2. /\ Len(args) = 2 /\ Begin(s, p, "up") /\ Acceptable(p)
    BY <2>1 DEF Opened, Commanded, Begin
  <2>3. p \in Seq(PathNode)
    BY <2>2, MeantOf DEF PathInv
  <2>4. IsPath(final'[s])
    BY <2>2, <2>3, BeginFacts DEF PathInv
  <2>5. PICK q \in Walk(final'[s]) \ (Entries \cup {Outside}) :
          DOMAIN file' = DOMAIN file \cup {q}
    BY <1>5 DEF Create
  <2>6. IsTree(dirs, file')
    BY <1>1, <2>4, <2>5, CreatedTree
  <2> QED
    BY <1>3, <2>1, <2>6
<1> QED
  BY <1>2, <1>4, <1>5

(* A step that ends a command, or restarts a worker.                       *)
LEMMA CommandEnds ==
  ASSUME PathInv, Typed, NEW s \in Session, Finish(s), UNCHANGED path,
         stack' = [stack EXCEPT ![s] = <<>>], IsTree(dirs', file')
  PROVE  PathInv'
<1>1. /\ pc'[s] = "idle" /\ left' = left
      /\ final' \in [Session -> Seq(FileToken)] /\ goal' \in [Session -> Place]
      /\ \A t \in Session \ {s} :
           pc'[t] = pc[t] /\ final'[t] = final[t] /\ goal'[t] = goal[t]
  BY FinishFacts DEF PathInv, Finish
<1>2. stack' \in [Session -> Seq(Frame)] /\ stack'[s] = <<>>
      /\ \A t \in Session \ {s} : stack'[t] = stack[t]
  <2>1. <<>> \in Seq(Frame)
    OBVIOUS
  <2> QED
    BY <2>1 DEF PathInv, Shaped
<1>3. Shaped'
  BY <1>1, <1>2 DEF PathInv, Shaped
<1>4. Directed(s)' /\ Nested(s)'
  BY <1>1, <1>2 DEF PathInv, Directed, Nested, Busy
<1>5. ASSUME NEW t \in Session \ {s} PROVE Directed(t)' /\ Nested(t)'
  BY <1>1, <1>2, LeftAlone DEF PathInv
<1> QED
  BY <1>3, <1>4, <1>5 DEF PathInv

(* The worker that ends, and the one that is forked for it.                *)
LEMMA DeathKeeps ==
  ASSUME PathInv, Typed, NEW s \in Session, Die(s) \/ Fork(s)
  PROVE  PathInv'
<1>1. CASE Die(s)
  <2>1. /\ pc'[s] = "dead" /\ path'[s] = <<>> /\ stack'[s] = <<>>
        /\ UNCHANGED <<tree, final, goal, left>>
        /\ \A t \in Session \ {s} :
             pc'[t] = pc[t] /\ path'[t] = path[t] /\ stack'[t] = stack[t]
    BY <1>1 DEF Die, Disconnect, Typed, PathInv, Shaped
  <2>2. path' \in [Session -> Seq(PathNode)] /\ stack' \in [Session -> Seq(Frame)]
    <3>1. <<>> \in Seq(PathNode) /\ <<>> \in Seq(Frame)
      OBVIOUS
    <3> QED
      BY <1>1, <3>1 DEF Die, Disconnect, PathInv, Shaped
  <2>3. Shaped'
    BY <2>1, <2>2 DEF PathInv, Shaped, tree
  <2>4. Directed(s)' /\ Nested(s)'
    BY <2>1, AcceptableNone DEF Directed, Nested, Busy
  <2>5. ASSUME NEW t \in Session \ {s} PROVE Directed(t)' /\ Nested(t)'
    BY <2>1, LeftAlone DEF PathInv
  <2> QED
    BY <2>3, <2>4, <2>5 DEF PathInv
<1>2. CASE Fork(s)
  <2>1. /\ pc[s] = "dead" /\ Finish(s) /\ UNCHANGED <<tree, path, stack>>
    BY <1>2 DEF Fork
  <2>2. stack[s] = <<>> /\ stack \in [Session -> Seq(Frame)]
    BY <2>1 DEF PathInv, Nested, Shaped
  <2>3. stack' = [stack EXCEPT ![s] = <<>>]
    BY <2>1, <2>2
  <2>4. IsTree(dirs', file')
    BY <2>1 DEF PathInv, Shaped, tree
  <2> QED
    BY <2>1, <2>3, <2>4, CommandEnds
<1> QED
  BY <1>1, <1>2

(* mkdir and rm.                                                           *)
LEMMA OneEntryKeeps ==
  ASSUME PathInv, Typed, NEW s \in Session, Mkdir(s) \/ Rm(s)
  PROVE  PathInv'
<1>1. /\ Finish(s) /\ UNCHANGED <<path, stack>>
      /\ IsPath(final[s]) /\ stack[s] = <<>> /\ stack \in [Session -> Seq(Frame)]
      /\ IsTree(dirs, file)
  BY DEF Mkdir, Rm, PathInv, Directed, Nested, Busy, Shaped
<1>2. stack' = [stack EXCEPT ![s] = <<>>]
  BY <1>1
<1>3. CASE Mkdir(s)
  <2>1. dirs' = Made(final[s]) /\ file' = file
    BY <1>3 DEF Mkdir
  <2>2. IsTree(dirs', file')
    BY <1>1, <2>1, MadeTree
  <2> QED
    BY <1>1, <1>2, <2>2, CommandEnds
<1>4. CASE Rm(s)
  <2>1. file' = Unlinked(final[s]) /\ dirs' = dirs
    BY <1>4 DEF Rm
  <2>2. IsTree(dirs', file')
    BY <1>1, <2>1, UnlinkedTree
  <2> QED
    BY <1>1, <1>2, <2>2, CommandEnds
<1> QED
  BY <1>3, <1>4

(* A stack that keeps the directories of its first calls.                  *)
LEMMA NestedStart ==
  ASSUME NEW s \in Session, Nested(s), pc[s] = "rmdir", UNCHANGED command,
         Len(stack'[s]) \in Nat, Len(stack[s]) \in Nat, Len(stack'[s]) <= Len(stack[s]),
         \A j \in 1 .. Len(stack'[s]) : stack'[s][j].at = stack[s][j].at
  PROVE  Nested(s)'
<1>1. UNCHANGED <<pc, final, goal>>
  BY DEF command
<1>2. ASSUME NEW j \in 1 .. Len(stack'[s])
      PROVE  /\ IsPath(stack'[s][j].at) /\ NodesOf(stack'[s][j].at) # <<>>
             /\ Below(PlaceOf(stack'[s][j].at), goal[s])
             /\ j = 1 => stack'[s][j].at = final[s]
             /\ j # 1 => \E e \in NameNode :
                            NodesOf(stack'[s][j].at)
                              = Append(NodesOf(stack'[s][j - 1].at), e)
  <2>1. j \in 1 .. Len(stack[s]) /\ stack'[s][j].at = stack[s][j].at
    OBVIOUS
  <2>2. j # 1 => stack'[s][j - 1].at = stack[s][j - 1].at
    OBVIOUS
  <2> QED
    BY <2>1, <2>2 DEF Nested
<1> QED
  BY <1>1, <1>2 DEF Nested

(* The steps of rmdir on its stack.                                        *)
LEMMA RmdirKeeps ==
  ASSUME PathInv, Typed, NEW s \in Session,
         RmdirStart(s) \/ RmdirFile(s) \/ RmdirSub(s) \/ RmdirSelf(s)
  PROVE  PathInv'
<1>1. /\ pc[s] = "rmdir" /\ Directed(s) /\ Nested(s) /\ IsTree(dirs, file)
      /\ stack \in [Session -> Seq(Frame)] /\ stack[s] \in Seq(Frame)
      /\ Len(stack[s]) \in Nat /\ Shaped
  BY DEF RmdirStart, RmdirFile, RmdirSub, RmdirSelf, InCall, PathInv, Shaped
<1>2. IsPath(final[s]) /\ goal[s] = PlaceOf(final[s]) /\ NodesOf(final[s]) # <<>>
      /\ goal[s] \in Place
  BY <1>1 DEF Directed, Busy, Shaped
<1>3. CASE RmdirStart(s)
  <2> DEFINE f == Call(final[s])
  <2>1. /\ stack' = [stack EXCEPT ![s] = <<f>>]
        /\ UNCHANGED <<tree, path, command, left>>
    BY <1>3 DEF RmdirStart
  <2>2. f \in Frame /\ f.at = final[s]
    BY <1>2, CallType
  <2> HIDE DEF f
  <2>3. <<f>> \in Seq(Frame) /\ stack'[s] = <<f>>
    BY <1>1, <2>1, <2>2
  <2>4. Below(goal[s], goal[s])
    BY <1>2, BelowFacts
  <2>5. UNCHANGED <<pc, final, goal>>
    BY <2>1 DEF command
  <2>6. Nested(s)'
    <3>1. ASSUME NEW j \in 1 .. Len(stack'[s]) PROVE j = 1 /\ stack'[s][j].at = final[s]
      BY <2>2, <2>3
    <3> QED
      BY <1>1, <1>2, <2>4, <2>5, <3>1 DEF Nested
  <2>7. IsTree(dirs', file')
    BY <1>1, <2>1 DEF tree
  <2> QED
    BY <2>1, <2>3, <2>6, <2>7, StackChanges
<1>4. ASSUME stack[s] # <<>>, Top(s).left # <<>>, UNCHANGED command,
             stack' = [stack EXCEPT ![s] = Returned(s)]
      PROVE  Nested(s)' /\ Returned(s) \in Seq(Frame)
  <2>1. /\ Returned(s) \in Seq(Frame) /\ Len(Returned(s)) = Len(stack[s])
        /\ \A j \in 1 .. Len(stack[s]) - 1 : Returned(s)[j] = stack[s][j]
        /\ Returned(s)[Len(stack[s])].at = stack[s][Len(stack[s])].at
    BY <1>1, <1>4, ReturnedFacts, TopFacts
  <2>2. stack'[s] = Returned(s)
    BY <1>1, <1>4
  <2>3. \A j \in 1 .. Len(stack[s]) : Returned(s)[j].at = stack[s][j].at
    BY <1>1, <2>1
  <2> QED
    BY <1>1, <1>4, <2>1, <2>2, <2>3, NestedStart
<1>5. CASE RmdirFile(s)
  <2>1. /\ stack[s] # <<>> /\ Top(s).left # <<>> /\ UNCHANGED <<command, path, left>>
        /\ stack' = [stack EXCEPT ![s] = Returned(s)]
        /\ dirs' = dirs /\ file' = Unlinked(EntryPath(s))
    BY <1>5 DEF RmdirFile, InCall
  <2>2. IsTree(dirs', file')
    BY <1>1, <2>1, UnlinkedTree
  <2> QED
    BY <1>4, <2>1, <2>2, StackChanges
<1>6. CASE RmdirSub(s)
  <2> DEFINE r == Returned(s)
             f == Call(EntryPath(s))
             n == Len(stack[s])
  <2>1. /\ stack[s] # <<>> /\ Top(s).left # <<>> /\ UNCHANGED <<tree, command, path, left>>
        /\ stack' = [stack EXCEPT ![s] = Append(r, f)]
    BY <1>6 DEF RmdirSub, InCall
  <2>2. /\ r \in Seq(Frame) /\ Len(r) = n
        /\ \A j \in 1 .. n - 1 : r[j] = stack[s][j]
        /\ r[n].at = stack[s][n].at
    BY <1>1, <2>1, ReturnedFacts, TopFacts
  <2>3. /\ Entry(s).name \in NameNode /\ IsPath(EntryPath(s))
        /\ NodesOf(EntryPath(s)) = Append(NodesOf(Top(s).at), Entry(s).name)
        /\ NodesOf(EntryPath(s)) # <<>>
        /\ Below(PlaceOf(EntryPath(s)), goal[s])
    BY <1>1, <2>1, EntryFacts
  <2>4. f \in Frame /\ f.at = EntryPath(s)
    BY <2>3, CallType
  <2>5. n \in Nat \ {0} /\ Top(s) = stack[s][n]
    BY <1>1, <2>1, TopFacts
  <2> HIDE DEF r, f
  <2>6. /\ Append(r, f) \in Seq(Frame) /\ Len(Append(r, f)) = n + 1
        /\ Append(r, f)[n + 1] = f
        /\ \A i \in 1 .. n : Append(r, f)[i] = r[i]
    BY <2>2, <2>4, AppendFacts
  <2>7. stack'[s] = Append(r, f)
    BY <1>1, <2>1
  <2>8. \A j \in 1 .. n : stack'[s][j].at = stack[s][j].at
    BY <2>2, <2>5, <2>6, <2>7
  <2>9. UNCHANGED <<pc, final, goal>>
    BY <2>1 DEF command
  <2>10. Nested(s)'
    <3>1. ASSUME NEW j \in 1 .. n
          PROVE  /\ IsPath(stack'[s][j].at) /\ NodesOf(stack'[s][j].at) # <<>>
                 /\ Below(PlaceOf(stack'[s][j].at), goal[s])
                 /\ j = 1 => stack'[s][j].at = final[s]
                 /\ j # 1 => \E e \in NameNode :
                                NodesOf(stack'[s][j].at)
                                  = Append(NodesOf(stack'[s][j - 1].at), e)
      <4>1. stack'[s][j].at = stack[s][j].at
        BY <2>8
      <4>2. j # 1 => stack'[s][j - 1].at = stack[s][j - 1].at
        BY <2>5, <2>8
      <4> QED
        BY <1>1, <4>1, <4>2 DEF Nested
    <3>2. /\ stack'[s][n + 1].at = EntryPath(s) /\ n + 1 # 1 /\ (n + 1) - 1 = n
          /\ stack'[s][n].at = Top(s).at
      BY <2>4, <2>5, <2>6, <2>7, <2>8
    <3>3. ASSUME NEW j \in 1 .. n + 1, j \notin 1 .. n PROVE j = n + 1
      BY <2>5, <3>3
    <3>4. Len(stack'[s]) = n + 1
      BY <2>6, <2>7
    <3> HIDE DEF n
    <3> QED
      BY <1>1, <2>3, <2>9, <3>1, <3>2, <3>3, <3>4 DEF Nested
  <2>11. IsTree(dirs', file')
    BY <1>1, <2>1 DEF tree
  <2> QED
    BY <2>1, <2>6, <2>10, <2>11, StackChanges
<1>7. CASE RmdirSelf(s)
  <2>1. /\ stack[s] # <<>> /\ UNCHANGED <<path, file>>
        /\ stack' = [stack EXCEPT ![s] = Callers(s)]
        /\ dirs' = Removed(Top(s).at)
    BY <1>7 DEF RmdirSelf, InCall
  <2>2. /\ Len(stack[s]) \in Nat \ {0} /\ Top(s) = stack[s][Len(stack[s])]
        /\ Callers(s) \in Seq(Frame) /\ Len(Callers(s)) = Len(stack[s]) - 1
        /\ \A j \in 1 .. Len(stack[s]) - 1 : Callers(s)[j] = stack[s][j]
    BY <1>1, <2>1, TopFacts
  <2>3. IsPath(Top(s).at) /\ NodesOf(Top(s).at) # <<>>
    BY <1>1, <2>2 DEF Nested
  <2>4. IsTree(dirs', file')
    BY <1>1, <2>1, <2>3, RemovedTree
  <2>5. CASE Callers(s) = <<>>
    <3>1. Finish(s)
      BY <1>7, <2>5 DEF RmdirSelf
    <3> QED
      BY <2>1, <2>4, <2>5, <3>1, CommandEnds
  <2>6. CASE Callers(s) # <<>>
    <3>1. UNCHANGED <<command, left>>
      BY <1>7, <2>6 DEF RmdirSelf, InCall
    <3>2. stack'[s] = Callers(s)
      BY <1>1, <2>1
    <3>3. Nested(s)'
      BY <1>1, <2>2, <3>1, <3>2, NestedStart
    <3> QED
      BY <2>1, <2>2, <2>4, <3>1, <3>3, StackChanges
  <2> QED
    BY <2>5, <2>6
<1> QED
  BY <1>3, <1>5, <1>6, <1>7

LEMMA PathStep == PathInv /\ Typed /\ [Next]_vars => PathInv'
<1> SUFFICES ASSUME PathInv, Typed, [Next]_vars PROVE PathInv'
  OBVIOUS
<1>1. ASSUME UNCHANGED <<tree, path, command, stack>>, left' \in Nat PROVE PathInv'
  <2>1. Shaped'
    BY <1>1 DEF PathInv, Shaped, tree, command
  <2>2. ASSUME NEW t \in Session PROVE Directed(t)' /\ Nested(t)'
    BY <1>1, LeftAlone DEF PathInv, command
  <2> QED
    BY <2>1, <2>2 DEF PathInv
<1>2. left \in Nat
  BY DEF PathInv, Shaped
<1>3. ASSUME NEW s \in Session,
             \/ SendPiece(s) \/ CatDone(s) \/ Receive(s) \/ Flush(s) \/ FlushFails(s)
             \/ Reset(s)
      PROVE  PathInv'
  <2>1. UNCHANGED <<tree, path, command, stack, left>>
    BY <1>3 DEF SendPiece, CatDone, Receive, Flush, FlushFails, Reset
  <2> QED
    BY <1>1, <1>2, <2>1
<1>4. ASSUME NEW s \in Session, NEW args, Download(s, args) \/ OpenFails(s, args)
      PROVE  PathInv'
  <2>1. UNCHANGED <<tree, path, command, stack>>
    BY <1>4 DEF Download, OpenFails
  <2>2. \E word : Commanded(s, args, word, 2)
    BY <1>4 DEF Download, OpenFails, CatFails, RecvFails, UpFails
  <2> QED
    BY <1>1, <2>1, <2>2, LeftKept DEF PathInv
<1>5. CASE UNCHANGED vars
  BY <1>1, <1>2, <1>5 DEF vars
<1>6. ASSUME NEW s \in Session, Client(s) PROVE PathInv'
  BY <1>3, <1>4, <1>6, CdKeeps, BeginKeeps, EndKeeps DEF Client
<1>7. ASSUME NEW s \in Session, Work(s) PROVE PathInv'
  BY <1>3, <1>7, OneEntryKeeps, RmdirKeeps, EndKeeps DEF Work
<1> QED
  BY <1>3, <1>5, <1>6, <1>7, DeathKeeps DEF Next

(* In every state paths are acceptable, the commands that are carried out  *)
(* are directed at what their paths mean, and the calls of an rmdir are    *)
(* for directories in it, each in that of its caller.                      *)
THEOREM PathsInvariance == Spec => [](PathInv /\ Typed)
<1>1. Init => PathInv /\ Typed
  BY PathStart, InitIInv DEF IInv
<1>2. PathInv /\ Typed /\ [Next]_vars => (PathInv /\ Typed)'
  BY PathStep, TypeStep
<1> QED
  BY <1>1, <1>2, PTL DEF Spec

(* The variables keep their types; in particular no node of a path is the  *)
(* empty string.                                                           *)
THEOREM TypesAreKept == Spec => []TypeOK
<1>1. PathInv /\ Typed => TypeOK
  <2> SUFFICES ASSUME PathInv, Typed PROVE TypeOK
    OBVIOUS
  <2>1. NameNode \subseteq String /\ PathNode \subseteq String \ {<<>>}
    BY NodeFacts DEF PathNode
  <2>2. Place \subseteq Seq(String)
    BY <2>1 DEF Place
  <2>3. dirs \subseteq Seq(String) /\ DOMAIN file \subseteq Seq(String)
    BY <2>2, TreeFacts DEF PathInv, Shaped
  <2>4. path \in [Session -> Seq(String \ {<<>>})]
    BY <2>1 DEF PathInv, Shaped
  <2> QED
    BY <2>3, <2>4 DEF PathInv, Shaped, Typed, TypeOK, Commands
<1> QED
  BY <1>1, PathsInvariance, PTL

(* No path of a session or of a command leads above the base, whatever     *)
(* arguments cd was given before and whatever cd .. dropped of the path.   *)
THEOREM PathsStayInside == Spec => []Inside
<1>1. PathInv /\ Typed => Inside
  <2> SUFFICES ASSUME PathInv, Typed, NEW s \in Session
               PROVE  /\ Outside \notin Walk(PathJoin(BASE_PATH, path[s]))
                      /\ pc[s] \notin {"idle", "dead"} => Outside \notin Walk(final[s])
                      /\ \A args \in Received :
                           Len(args) = 2 /\ Acceptable(Meant(path[s], args[2]))
                             => Outside \notin Walk(FilePathOf(s, args))
    BY DEF Inside
  <2>1. Outside \notin Walk(PathJoin(BASE_PATH, path[s]))
    <3>1. IsPath(FilePath(path[s]))
      BY IsPathOf DEF PathInv, Shaped, Directed
    <3>2. Outside \notin Walk(FilePath(path[s]))
      BY <3>1, PathFacts
    <3> QED
      BY <3>2 DEF FilePath
  <2>2. ASSUME pc[s] \notin {"idle", "dead"} PROVE Outside \notin Walk(final[s])
    <3>1. pc[s] \in Busy
      BY <2>2 DEF Typed, Commands, Busy
    <3>2. IsPath(final[s])
      BY <3>1 DEF PathInv, Directed
    <3> QED
      BY <3>2, PathFacts
  <2>3. ASSUME NEW args \in Received, Len(args) = 2, Acceptable(Meant(path[s], args[2]))
        PROVE  Outside \notin Walk(FilePathOf(s, args))
    <3>1. Meant(path[s], args[2]) \in Seq(PathNode)
      BY <2>3, MeantOf DEF PathInv
    <3>2. IsPath(FilePath(Meant(path[s], args[2])))
      BY <2>3, <3>1, IsPathOf
    <3>3. FilePathOf(s, args) = FilePath(Meant(path[s], args[2]))
      BY DEF FilePathOf, FilePath
    <3> QED
      BY <3>2, <3>3, PathFacts
  <2> QED
    BY <2>1, <2>2, <2>3
<1> QED
  BY <1>1, PathsInvariance, PTL

-----------------------------------------------------------------------------
(* What a command changes.                                                 *)

(* A system call changes at most the entry its path means.                 *)
LEMMA OnePlace ==
  ASSUME NEW string, IsPath(string)
  PROVE  /\ Made(string) \subseteq dirs \cup {PlaceOf(string)} /\ dirs \subseteq Made(string)
         /\ dirs \ {PlaceOf(string)} \subseteq Removed(string) /\ Removed(string) \subseteq dirs
         /\ DOMAIN Unlinked(string) \subseteq DOMAIN file
         /\ DOMAIN file \ {PlaceOf(string)} \subseteq DOMAIN Unlinked(string)
<1>1. Walk(string) \subseteq {PlaceOf(string)}
  BY PathFacts
<1> QED
  BY <1>1 DEF Made, Removed, Unlinked

(* The sessions that change an entry, and the entries they change.         *)
Changed == (Entries \ Entries') \cup (Entries' \ Entries)

LEMMA CommandChanges ==
  ASSUME PathInv, Typed, NEW s \in Session, Mkdir(s) \/ Rm(s)
  PROVE  Changed \subseteq {goal[s]} /\ pc[s] \in {"mkdir", "rm"} /\ pc'[s] = "idle"
<1>1. IsPath(final[s]) /\ goal[s] = PlaceOf(final[s])
  BY DEF Mkdir, Rm, PathInv, Directed, Busy
<1>2. pc[s] \in {"mkdir", "rm"} /\ pc'[s] = "idle"
  BY DEF Mkdir, Rm, Finish, Typed
<1>3. CASE Mkdir(s)
  BY <1>1, <1>2, <1>3, OnePlace DEF Mkdir, Changed, Entries
<1>4. CASE Rm(s)
  BY <1>1, <1>2, <1>4, OnePlace DEF Rm, Changed, Entries
<1> QED
  BY <1>3, <1>4

LEMMA RmdirChanges ==
  ASSUME PathInv, Typed, NEW s \in Session, RmdirFile(s) \/ RmdirSelf(s)
  PROVE  /\ \A p \in Changed : Below(p, goal[s])
         /\ pc[s] = "rmdir" /\ stack'[s] # stack[s]
<1>1. /\ pc[s] = "rmdir" /\ stack[s] # <<>> /\ Shaped /\ Nested(s)
      /\ stack \in [Session -> Seq(Frame)]
  BY DEF RmdirFile, RmdirSelf, InCall, PathInv, Shaped
<1>2. CASE RmdirFile(s)
  <2>1. /\ Top(s).left # <<>> /\ stack' = [stack EXCEPT ![s] = Returned(s)]
        /\ file' = Unlinked(EntryPath(s)) /\ dirs' = dirs
    BY <1>2 DEF RmdirFile, InCall
  <2>2. IsPath(EntryPath(s)) /\ Below(PlaceOf(EntryPath(s)), goal[s])
    BY <1>1, <2>1, EntryFacts
  <2>3. Changed \subseteq {PlaceOf(EntryPath(s))}
    BY <2>1, <2>2, OnePlace DEF Changed, Entries
  <2>4. stack'[s] # stack[s]
    BY <1>1, <2>1, ReturnedFacts
  <2> QED
    BY <1>1, <2>2, <2>3, <2>4
<1>3. CASE RmdirSelf(s)
  <2>1. /\ stack' = [stack EXCEPT ![s] = Callers(s)]
        /\ dirs' = Removed(Top(s).at) /\ file' = file
    BY <1>3 DEF RmdirSelf
  <2>2. /\ Len(stack[s]) \in Nat \ {0} /\ Top(s) = stack[s][Len(stack[s])]
        /\ Len(Callers(s)) = Len(stack[s]) - 1
    BY <1>1, TopFacts
  <2>3. IsPath(Top(s).at) /\ Below(PlaceOf(Top(s).at), goal[s])
    BY <1>1, <2>2 DEF Nested
  <2>4. Changed \subseteq {PlaceOf(Top(s).at)}
    BY <2>1, <2>3, OnePlace DEF Changed, Entries
  <2>5. stack'[s] = Callers(s)
    BY <1>1, <2>1
  <2>6. Len(Callers(s)) # Len(stack[s])
    BY <2>2
  <2> QED
    BY <1>1, <2>3, <2>4, <2>5, <2>6
<1> QED
  BY <1>2, <1>3

LEMMA CreateChanges ==
  ASSUME PathInv, Typed, NEW s \in Session, NEW args \in Received, Create(s, args)
  PROVE  Changed \subseteq {goal'[s]} /\ pc[s] = "idle" /\ pc'[s] = "up"
<1>1. /\ Opened(s, args) /\ dirs' = dirs
      /\ \E q \in Walk(final'[s]) : DOMAIN file' = DOMAIN file \cup {q}
  BY DEF Create
<1>2. /\ Begin(s, Meant(path[s], args[2]), "up") /\ Acceptable(Meant(path[s], args[2]))
      /\ Len(args) = 2 /\ pc[s] = "idle"
  BY <1>1 DEF Opened, Begin, Commanded
<1>3. Meant(path[s], args[2]) \in Seq(PathNode)
  BY <1>2, MeantOf DEF PathInv
<1>4. IsPath(final'[s]) /\ goal'[s] = PlaceOf(final'[s]) /\ pc'[s] = "up"
  BY <1>2, <1>3, BeginFacts DEF PathInv
<1>5. Walk(final'[s]) \subseteq {goal'[s]}
  BY <1>4, PathFacts
<1> QED
  BY <1>1, <1>2, <1>4, <1>5 DEF Changed, Entries

(* No other step changes an entry.                                         *)
LEMMA OthersChangeNothing ==
  ASSUME NEW s \in Session, NEW args,
         \/ Cd(s, args) \/ OpenFails(s, args) \/ Download(s, args) \/ Overwrite(s, args)
         \/ \E word \in {"mkdir", "rm", "rmdir"} : Check(s, args, word)
         \/ Receive(s) \/ Reset(s) \/ Hang(s) \/ RmdirStart(s) \/ RmdirSub(s)
         \/ SendPiece(s) \/ CatDone(s) \/ RecvDone(s)
         \/ Flush(s) \/ FlushFails(s) \/ Die(s) \/ Fork(s)
  PROVE  UNCHANGED tree
BY DEF Cd, OpenFails, Download, Overwrite, Check, Receive, Reset, Hang, RmdirStart,
   RmdirSub, SendPiece, CatDone, RecvDone, Flush, FlushFails, Die, Fork

(* A command changes only the entry its path meant when it was checked     *)
(* and, for rmdir, what is in it, however others change the tree meanwhile.*)
THEOREM CommandsStayInGoal == Spec => StaysInGoal
<1> DEFINE Held ==
      \A p \in (Entries \ Entries') \cup (Entries' \ Entries) :
        \E s \in Session :
          <<pc[s], stack[s], ino[s]>> # <<pc'[s], stack'[s], ino'[s]>> /\ Reach(s, p)
<1>1. ASSUME PathInv, Typed, [Next]_vars PROVE Held
  <2> SUFFICES ASSUME NEW p \in Changed
               PROVE  \E s \in Session :
                        /\ <<pc[s], stack[s], ino[s]>> # <<pc'[s], stack'[s], ino'[s]>>
                        /\ Reach(s, p)
    BY DEF Changed
  <2>1. ~UNCHANGED tree
    BY DEF Changed, Entries, tree
  <2>2. PICK s \in Session :
          \/ Mkdir(s) \/ Rm(s) \/ RmdirFile(s) \/ RmdirSelf(s)
          \/ \E args \in Received : Create(s, args)
    BY <1>1, <2>1, OthersChangeNothing DEF Next, Client, Work, vars
  <2>3. CASE Mkdir(s) \/ Rm(s)
    <3>1. p = goal[s] /\ pc[s] \in {"mkdir", "rm"} /\ pc'[s] = "idle"
      BY <1>1, <2>3, CommandChanges
    <3>2. Reach(s, p)
      BY <3>1 DEF Reach
    <3> QED
      BY <3>1, <3>2
  <2>4. CASE RmdirFile(s) \/ RmdirSelf(s)
    <3>1. Below(p, goal[s]) /\ pc[s] = "rmdir" /\ stack'[s] # stack[s]
      BY <1>1, <2>4, RmdirChanges
    <3>2. Reach(s, p)
      BY <3>1 DEF Reach
    <3> QED
      BY <3>1, <3>2
  <2>5. ASSUME NEW args \in Received, Create(s, args)
        PROVE  /\ <<pc[s], stack[s], ino[s]>> # <<pc'[s], stack'[s], ino'[s]>>
               /\ Reach(s, p)
    <3>1. p = goal'[s] /\ pc[s] = "idle" /\ pc'[s] = "up"
      BY <1>1, <2>5, CreateChanges
    <3>2. Reach(s, p)
      BY <3>1 DEF Reach
    <3> QED
      BY <3>1, <3>2
  <2> QED
    BY <2>2, <2>3, <2>4, <2>5
<1>2. PathInv /\ Typed /\ [Next]_vars => [Held]_vars
  BY <1>1
<1> QED
  BY <1>2, PathsInvariance, PTL DEF Spec, StaysInGoal

-----------------------------------------------------------------------------
(* The stack of an rmdir.                                                  *)

LEMMA ThroughIs ==
  ASSUME NEW p \in Seq(PathNode)
  PROVE  Through(FilePath(p)) = Way(p)
<1> DEFINE node == Split(FilePath(p), Slash)
<1>1. /\ Len(node) = Len(p) + 2 /\ Len(p) \in Nat
      /\ \A k \in 0 .. Len(p) : SubSeq(node, 3, k + 2) = SubSeq(p, 1, k)
  BY NodesOfIs
<1>2. Through(FilePath(p)) = {Lexical(SubSeq(node, 3, k)) : k \in 2 .. Len(node) - 1}
  BY DEF Through
<1> HIDE DEF node
<1>3. ASSUME NEW k \in 2 .. Len(node) - 1
      PROVE  k - 2 \in 0 .. Len(p) - 1 /\ SubSeq(node, 3, k) = SubSeq(p, 1, k - 2)
  <2>1. k - 2 \in 0 .. Len(p) - 1 /\ k - 2 \in 0 .. Len(p) /\ (k - 2) + 2 = k
    BY <1>1
  <2> QED
    BY <1>1, <2>1
<1>4. ASSUME NEW k \in 0 .. Len(p) - 1
      PROVE  k + 2 \in 2 .. Len(node) - 1 /\ SubSeq(node, 3, k + 2) = SubSeq(p, 1, k)
  BY <1>1
<1> QED
  BY <1>2, <1>3, <1>4, Zenon DEF Way

LEMMA ClearIs ==
  ASSUME NEW string, IsPath(string)
  PROVE  Clear(string) <=>
           /\ LastNode(string) \notin {Dot, DotDot}
           /\ \A q \in Way(NodesOf(string)) :
                Below(q, PlaceOf(string)) => q = PlaceOf(string)
<1>1. Through(string) = Way(NodesOf(string))
  BY ThroughIs DEF IsPath
<1> QED
  BY <1>1 DEF Clear

LEMMA FrameFacts ==
  ASSUME Shaped, NEW s \in Session, Nested(s), NEW j \in 1 .. Len(stack[s])
  PROVE  /\ Rest(s, j) \in Seq(Listed) /\ At(s, j) \in Place /\ goal[s] \in Place
         /\ IsPath(stack[s][j].at) /\ NodesOf(stack[s][j].at) # <<>>
         /\ Below(At(s, j), goal[s]) /\ Len(stack[s]) \in Nat /\ stack[s] # <<>>
         /\ \A i \in 1 .. Len(Rest(s, j)) :
              /\ Rest(s, j)[i] \in Listed /\ Rest(s, j)[i].name \in NameNode
              /\ Rest(s, j)[i].is_file \in BOOLEAN
              /\ Child(s, j, i) \in Place
              /\ Below(Child(s, j, i), At(s, j)) /\ Below(Child(s, j, i), goal[s])
              /\ Child(s, j, i) # goal[s]
<1>1. stack[s] \in Seq(Frame) /\ Len(stack[s]) \in Nat /\ goal[s] \in Place
      /\ stack[s] # <<>>
  BY DEF Shaped
<1>2. stack[s][j] \in Frame
  BY <1>1
<1>3. Rest(s, j) \in Seq(Listed)
  BY <1>2 DEF Frame, Rest
<1>4. /\ IsPath(stack[s][j].at) /\ NodesOf(stack[s][j].at) # <<>>
      /\ Below(At(s, j), goal[s]) /\ At(s, j) \in Place
  BY PathFacts DEF Nested, At
<1>5. ASSUME NEW i \in 1 .. Len(Rest(s, j))
      PROVE  /\ Rest(s, j)[i] \in Listed /\ Rest(s, j)[i].name \in NameNode
             /\ Rest(s, j)[i].is_file \in BOOLEAN
             /\ Child(s, j, i) \in Place
             /\ Below(Child(s, j, i), At(s, j)) /\ Below(Child(s, j, i), goal[s])
             /\ Child(s, j, i) # goal[s]
  <2>1. Rest(s, j)[i] \in Listed
    BY <1>3
  <2> DEFINE e == Rest(s, j)[i].name
  <2>2. e \in NameNode /\ Rest(s, j)[i].is_file \in BOOLEAN
    BY <2>1 DEF Listed
  <2> HIDE DEF e
  <2> DEFINE v == At(s, j)
             c == Append(v, e)
  <2>3. v \in Place
    BY <1>4
  <2> HIDE DEF v
  <2>4. c \in Place /\ Below(c, v) /\ c # v
    BY <2>2, <2>3, BelowFacts
  <2> HIDE DEF c
  <2>5. Below(v, goal[s])
    BY <1>4 DEF v
  <2>6. Below(c, goal[s])
    BY <1>1, <2>3, <2>4, <2>5, BelowFacts
  <2>7. c # goal[s]
    BY <2>3, <2>4, <2>5, BelowFacts
  <2>8. Child(s, j, i) = c
    BY DEF Child, c, v, e
  <2> QED
    BY <2>1, <2>2, <2>4, <2>6, <2>7, <2>8 DEF e, v
<1> QED
  BY <1>1, <1>3, <1>4, <1>5

(* A call is for a directory in that of its caller.                        *)
LEMMA Descent ==
  ASSUME Shaped, NEW s \in Session, Nested(s), NEW j \in 1 .. Len(stack[s]) - 1
  PROVE  \E e \in NameNode :
           /\ NodesOf(stack[s][j + 1].at) = Append(NodesOf(stack[s][j].at), e)
           /\ At(s, j + 1) = Append(At(s, j), e)
<1>1. Len(stack[s]) \in Nat
  BY DEF Shaped
<1>2. j + 1 \in 1 .. Len(stack[s]) /\ j + 1 # 1 /\ (j + 1) - 1 = j /\ j \in 1 .. Len(stack[s])
  BY <1>1
<1>3. PICK e \in NameNode :
        NodesOf(stack[s][j + 1].at) = Append(NodesOf(stack[s][j].at), e)
  BY <1>2 DEF Nested
<1>4. NodesOf(stack[s][j].at) \in Seq(PathNode)
  BY <1>2 DEF Nested, IsPath
<1>5. e \in PathNode /\ e \notin {Dot, DotDot}
  BY NodeFacts DEF PathNode
<1>6. At(s, j + 1) = Append(At(s, j), e)
  BY <1>3, <1>4, <1>5, LexicalMore DEF At, PlaceOf, Lexical_Next
<1> QED
  BY <1>3, <1>6

LEMMA Chain ==
  ASSUME Shaped, NEW s \in Session, Nested(s),
         NEW j \in 1 .. Len(stack[s]), NEW k \in j .. Len(stack[s])
  PROVE  Below(At(s, k), At(s, j))
<1> DEFINE n == Len(stack[s])
           S == {i \in j .. n : Below(At(s, i), At(s, j))}
<1>1. n \in Nat /\ n \in Int /\ j \in Int /\ k \in 1 .. n /\ j \in j .. n
  BY DEF Shaped
<1>2. \A i \in 1 .. n : At(s, i) \in Place
  BY FrameFacts
<1>3. j \in S
  BY <1>1, <1>2, BelowFacts
<1>4. ASSUME NEW i \in j .. n, i # j, i - 1 \in S PROVE i \in S
  <2>1. i - 1 \in 1 .. n - 1 /\ (i - 1) + 1 = i /\ i \in 1 .. n /\ i - 1 \in 1 .. n
    BY <1>1, <1>4
  <2>2. PICK e \in NameNode : At(s, i) = Append(At(s, i - 1), e)
    BY <2>1, Descent
  <2>3. Below(At(s, i), At(s, i - 1))
    BY <1>2, <2>1, <2>2, BelowFacts
  <2>4. Below(At(s, i - 1), At(s, j))
    BY <1>4
  <2>5. Below(At(s, i), At(s, j))
    BY <1>2, <2>1, <2>3, <2>4, BelowFacts
  <2> QED
    BY <2>5
<1> HIDE DEF S, n
<1>5. \A i \in j .. n : i \in S
  BY <1>1, <1>3, <1>4, IntervalInduction
<1> QED
  BY <1>5 DEF S, n

LEMMA Differ ==
  ASSUME Shaped, NEW s \in Session, Nested(s),
         NEW j \in 1 .. Len(stack[s]), NEW k \in j + 1 .. Len(stack[s])
  PROVE  At(s, k) # At(s, j)
<1>1. /\ j \in 1 .. Len(stack[s]) - 1 /\ j + 1 \in 1 .. Len(stack[s])
      /\ k \in 1 .. Len(stack[s])
  BY DEF Shaped
<1>2. PICK e \in NameNode : At(s, j + 1) = Append(At(s, j), e)
  BY <1>1, Descent
<1>3. Below(At(s, k), At(s, j + 1))
  BY <1>1, Chain
<1>4. At(s, j) \in Place /\ At(s, k) \in Place
  BY <1>1, FrameFacts
<1> DEFINE v == At(s, j)
           c == Append(v, e)
<1>5. v \in Place
  BY <1>4
<1> HIDE DEF v
<1>6. c \in Place /\ Below(c, v) /\ c # v
  BY <1>5, BelowFacts
<1>7. ~Below(v, c)
  BY <1>5, <1>6, BelowFacts
<1> QED
  BY <1>2, <1>3, <1>7 DEF v, c

(* What is left to a caller is not on the way to a call below it.          *)
LEMMA Apart ==
  ASSUME Shaped, NEW s \in Session, Nested(s), Complete(s),
         NEW j \in 1 .. Len(stack[s]), NEW k \in j + 1 .. Len(stack[s]),
         NEW i \in 1 .. Len(Rest(s, j)), NEW r \in Place, Below(r, Child(s, j, i))
  PROVE  ~Below(r, At(s, k))
<1> SUFFICES ASSUME Below(r, At(s, k)) PROVE FALSE
  OBVIOUS
<1>1. /\ j \in 1 .. Len(stack[s]) - 1 /\ j + 1 \in 1 .. Len(stack[s])
      /\ k \in 1 .. Len(stack[s]) /\ j + 1 # 1 /\ (j + 1) - 1 = j
  BY DEF Shaped
<1>2. PICK e \in NameNode : At(s, j + 1) = Append(At(s, j), e)
  BY <1>1, Descent
<1>3. Below(At(s, k), At(s, j + 1))
  BY <1>1, Chain
<1>4. At(s, j) \in Place /\ At(s, k) \in Place /\ At(s, j + 1) \in Place
  BY <1>1, FrameFacts
<1>5. Below(r, At(s, j + 1))
  BY <1>3, <1>4, BelowFacts
<1>6. Rest(s, j)[i].name \in NameNode
  BY FrameFacts
<1>7. Rest(s, j)[i].name = e
  BY <1>2, <1>4, <1>5, <1>6, BelowOneChild DEF Child
<1>8. Child(s, j, i) = At(s, j + 1)
  BY <1>2, <1>7 DEF Child
<1>9. Child(s, j, i) # At(s, j + 1)
  BY <1>1 DEF Complete
<1> QED
  BY <1>8, <1>9

(* Every call finds its directory.                                         *)
LEMMA Reached ==
  ASSUME Shaped, NEW s \in Session, Nested(s), Complete(s), NEW j \in 1 .. Len(stack[s])
  PROVE  /\ Way(NodesOf(stack[s][j].at)) \subseteq dirs
         /\ Walk(stack[s][j].at) = {At(s, j)}
<1> DEFINE n == Len(stack[s])
           S == {i \in 1 .. n : Way(NodesOf(stack[s][i].at)) \subseteq dirs}
<1>1. n \in Nat /\ n \in Int /\ 1 \in Int /\ 1 \in 1 .. n
  BY DEF Shaped
<1>2. 1 \in S
  <2>1. stack[s][1].at = final[s]
    BY <1>1 DEF Nested
  <2> QED
    BY <1>1, <2>1 DEF Complete
<1>3. ASSUME NEW i \in 1 .. n, i # 1, i - 1 \in S PROVE i \in S
  <2>1. i - 1 \in 1 .. n - 1 /\ (i - 1) + 1 = i /\ i - 1 \in 1 .. n
    BY <1>1, <1>3
  <2> DEFINE p == NodesOf(stack[s][i - 1].at)
             q == NodesOf(stack[s][i].at)
  <2>2. PICK e \in NameNode : q = Append(p, e)
    BY <2>1, Descent
  <2>3. p \in Seq(PathNode)
    BY <2>1 DEF Nested, IsPath
  <2>4. Way(p) \subseteq dirs
    BY <1>3
  <2>5. Lexical(p) \in dirs
    BY <2>1 DEF Complete, At, PlaceOf
  <2> HIDE DEF p, q
  <2>6. Way(q) \subseteq dirs
    BY <2>2, <2>3, <2>4, <2>5, WayMore
  <2> QED
    BY <2>6 DEF q
<1> HIDE DEF S, n
<1>4. \A i \in 1 .. n : i \in S
  BY <1>1, <1>2, <1>3, IntervalInduction
<1>5. Way(NodesOf(stack[s][j].at)) \subseteq dirs
  BY <1>4 DEF S, n
<1>6. IsPath(stack[s][j].at)
  BY FrameFacts
<1> QED
  BY <1>5, <1>6, PathFacts DEF At

-----------------------------------------------------------------------------
(* Steps of other sessions.                                                *)

(* The entries below the goal of an rmdir stay as they are, and so do the  *)
(* directories, if its path has a ..                                       *)
Spares(s) ==
  /\ \A p \in Place : Below(p, goal[s]) =>
       (p \in dirs <=> p \in dirs') /\ (p \in DOMAIN file <=> p \in DOMAIN file')
  /\ dirs' = dirs \/ \A k \in 4 .. Len(final[s]) : final[s][k] # ".."

LEMMA Spared ==
  ASSUME PathInv, PathInv', NEW s \in Session, pc[s] = "rmdir",
         final'[s] = final[s], goal'[s] = goal[s], stack'[s] = stack[s],
         Safe(s), Spares(s)
  PROVE  Safe(s)'
<1>1. /\ Shaped /\ Nested(s) /\ IsPath(final[s]) /\ goal[s] = PlaceOf(final[s])
      /\ goal[s] \in Place /\ IsTree(dirs, file) /\ IsTree(dirs', file')
  BY DEF PathInv, Shaped, Directed, Busy
<1>2. goal[s] \in dirs'
  BY <1>1, BelowFacts DEF Safe, Spares
<1>3. ASSUME Clear(final[s]) PROVE Complete(s)'
  <2>1. Complete(s)
    BY <1>3 DEF Safe
  <2>2. Way(NodesOf(final[s])) \subseteq dirs'
    <3>1. CASE dirs' = dirs
      BY <2>1, <3>1 DEF Complete
    <3>2. CASE \A k \in 4 .. Len(final[s]) : final[s][k] # ".."
      <4> DEFINE p == NodesOf(final[s])
      <4>1. p \in Seq(PathNode) /\ final[s] = FilePath(p) /\ Lexical(p) = goal[s]
        BY <1>1 DEF IsPath, PlaceOf
      <4>2. Way(p) \subseteq dirs
        BY <2>1 DEF Complete
      <4> HIDE DEF p
      <4>3. ASSUME NEW k \in 1 .. Len(p) PROVE p[k] # DotDot
        <5>1. Len(final[s]) = 3 + 2 * Len(p) /\ final[s][3 + 2 * k] = p[k][1]
          BY <4>1, TokensOfFilePath
        <5>2. 3 + 2 * k \in 4 .. 3 + 2 * Len(p)
          BY <4>1
        <5>3. p[k][1] # ".."
          BY <3>2, <5>1, <5>2
        <5> QED
          BY <5>3 DEF DotDot
      <4>4. ASSUME NEW v \in Way(p) PROVE v \in dirs'
        <5>1. v \in dirs /\ v \in Place
          BY <1>1, <4>2, TreeFacts
        <5>2. Below(goal[s], v)
          BY <4>1, <4>3, WayDown
        <5> QED
          BY <1>1, <1>2, <5>1, <5>2, TreeClosed
      <4> QED
        BY <4>4 DEF p
    <3> QED
      BY <3>1, <3>2 DEF Spares
  <2>3. \A j : At(s, j)' = At(s, j) /\ Rest(s, j)' = Rest(s, j)
    BY DEF At, Rest
  <2>4. \A j, i : Child(s, j, i)' = Child(s, j, i)
    BY <2>3 DEF Child
  <2>5. ASSUME NEW j \in 1 .. Len(stack[s])
        PROVE  /\ At(s, j) \in dirs'
               /\ \A i \in 1 .. Len(Rest(s, j)) :
                    IF Rest(s, j)[i].is_file THEN Child(s, j, i) \in DOMAIN file'
                    ELSE Child(s, j, i) \in dirs'
               /\ \A i, k \in 1 .. Len(Rest(s, j)) :
                    Rest(s, j)[i].name = Rest(s, j)[k].name => i = k
               /\ j # 1 =>
                    \A i \in 1 .. Len(Rest(s, j - 1)) : Child(s, j - 1, i) # At(s, j)
    <3>1. /\ At(s, j) \in Place /\ Below(At(s, j), goal[s])
          /\ \A i \in 1 .. Len(Rest(s, j)) :
               Child(s, j, i) \in Place /\ Below(Child(s, j, i), goal[s])
      BY <1>1, FrameFacts
    <3>2. /\ At(s, j) \in dirs /\ IsListing(Rest(s, j), At(s, j))
          /\ j # 1 =>
               \A i \in 1 .. Len(Rest(s, j - 1)) : Child(s, j - 1, i) # At(s, j)
      BY <2>1 DEF Complete
    <3>3. /\ \A i \in 1 .. Len(Rest(s, j)) :
               IF Rest(s, j)[i].is_file THEN Child(s, j, i) \in DOMAIN file
               ELSE Child(s, j, i) \in dirs
          /\ \A i, k \in 1 .. Len(Rest(s, j)) :
               Rest(s, j)[i].name = Rest(s, j)[k].name => i = k
      BY <3>2 DEF IsListing, Child
    <3> QED
      BY <3>1, <3>2, <3>3 DEF Spares
  <2>6. ASSUME stack[s] # <<>>, NEW r \in Entries', Below(r, goal[s]), r # goal[s]
        PROVE  Covered(s, r)
    <3>1. r \in Place
      BY <1>1, TreeFacts DEF Entries
    <3>2. r \in Entries
      BY <2>6, <3>1 DEF Spares, Entries
    <3> QED
      BY <2>1, <2>6, <3>2 DEF Complete
  <2>7. \A r : Covered(s, r) => Covered(s, r)'
    BY <2>3, <2>4 DEF Covered
  <2>8. \A j \in 1 .. Len(stack[s]) : IsListing(Rest(s, j), At(s, j))'
    BY <2>3, <2>4, <2>5 DEF IsListing, Child
  <2> QED
    BY <2>2, <2>3, <2>4, <2>5, <2>6, <2>7, <2>8 DEF Complete
<1> QED
  BY <1>2, <1>3 DEF Safe

(* A session that is not touched by a step that changes an entry is spared.*)
LEMMA Undisturbed ==
  ASSUME NEW a, NEW s \in Session, s # a, pc[s] = "rmdir",
         NEW places, <<s, "rmdir">> \notin Disturbed(a, places)
  PROVE  \/ places = {}
         \/ /\ \A p \in places : ~Below(p, goal[s])
            /\ \A k \in 4 .. Len(final[s]) : final[s][k] # ".."
<1>1. ~(/\ places # {}
        /\ \/ \E p \in places : Below(p, goal[s])
           \/ \E k \in 4 .. Len(final[s]) : final[s][k] = "..")
  BY DEF Disturbed
<1> QED
  BY <1>1

LEMMA OthersSpare ==
  ASSUME PathInv, Typed, NEW a \in Session, NEW s \in Session, s # a, pc[s] = "rmdir",
         <<s, "rmdir">> \notin touched',
         \/ Mkdir(a) \/ Rm(a) \/ RmdirFile(a) \/ RmdirSelf(a)
         \/ \E args \in Received : Create(a, args)
  PROVE  Spares(s)
<1>1. CASE Mkdir(a)
  <2>1. /\ dirs' = Made(final[a]) /\ file' = file /\ IsPath(final[a])
        /\ touched' = touched \cup Disturbed(a, dirs' \ dirs)
    BY <1>1 DEF Mkdir, Touch, PathInv, Directed, Busy
  <2>2. dirs \subseteq dirs'
    BY <2>1, OnePlace
  <2> QED
    BY <2>1, <2>2, Undisturbed DEF Spares
<1>2. CASE Rm(a) \/ RmdirFile(a)
  <2>1. /\ dirs' = dirs /\ DOMAIN file' \subseteq DOMAIN file
        /\ touched' = touched \cup Disturbed(a, DOMAIN file \ DOMAIN file')
    BY <1>2 DEF Rm, RmdirFile, Touch, Unlinked
  <2> QED
    BY <2>1, Undisturbed DEF Spares
<1>3. CASE RmdirSelf(a)
  <2>1. /\ dirs' \subseteq dirs /\ file' = file
        /\ touched' = touched \cup Disturbed(a, dirs \ dirs')
    BY <1>3 DEF RmdirSelf, Touch, Removed
  <2> QED
    BY <2>1, Undisturbed DEF Spares
<1>4. ASSUME NEW args \in Received, Create(a, args) PROVE Spares(s)
  <2>1. PICK p : /\ dirs' = dirs /\ DOMAIN file' = DOMAIN file \cup {p}
                 /\ touched' = (touched \ {<<a, "up">>}) \cup Disturbed(a, {p})
    BY <1>4 DEF Create
  <2> QED
    BY <2>1, Undisturbed DEF Spares
<1> QED
  BY <1>1, <1>2, <1>3, <1>4

-----------------------------------------------------------------------------
(* Its own steps.                                                          *)

(* The check finds the directory.                                          *)
LEMMA CheckIsSafe ==
  ASSUME PathInv, PathInv', Typed, NEW s \in Session, NEW args \in Received,
         Check(s, args, "rmdir")
  PROVE  Safe(s)'
<1> DEFINE p == Node(s, args)
<1>1. /\ Begin(s, p, "rmdir") /\ is_dir(FilePath(p)) /\ UNCHANGED <<tree, stack>>
      /\ pc[s] = "idle" /\ Len(args) = 2 /\ Acceptable(p)
  BY DEF Check, Found, FilePath, Begin, Commanded
<1>2. p \in Seq(PathNode)
  BY <1>1, NodeType DEF PathInv
<1> HIDE DEF p
<1>3. /\ IsPath(FilePath(p)) /\ final'[s] = FilePath(p) /\ goal'[s] = PlaceOf(FilePath(p))
      /\ NodesOf(FilePath(p)) = p
  <2>1. /\ IsPath(final'[s]) /\ goal'[s] = PlaceOf(final'[s]) /\ final'[s] = FilePath(p)
        /\ NodesOf(final'[s]) = p
    BY <1>1, <1>2, BeginFacts DEF PathInv
  <2> QED
    BY <2>1
<1>4. goal'[s] \in dirs /\ Way(p) \subseteq dirs
  BY <1>1, <1>3, PathFacts DEF is_dir
<1>5. stack'[s] = <<>> /\ dirs' = dirs
  BY <1>1 DEF PathInv, Nested, tree
<1>6. Complete(s)'
  BY <1>3, <1>4, <1>5 DEF Complete
<1> QED
  BY <1>4, <1>5, <1>6 DEF Safe

(* The listing of a directory has an entry for everything below it.        *)
LEMMA ListingCovers ==
  ASSUME Shaped, NEW string, NEW v \in Place, Walk(string) = {v}, v \in dirs
  PROVE  /\ IsListing(listdir(string), v)
         /\ \A r \in Entries : Below(r, v) /\ r # v =>
              \E i \in 1 .. Len(listdir(string)) :
                Below(r, Append(v, listdir(string)[i].name))
<1> DEFINE L == listdir(string)
<1>1. /\ IsListing(L, v)
      /\ \A e \in NameNode :
           Append(v, e) \in Entries => \E i \in 1 .. Len(L) : L[i].name = e
  <2>1. Walk(string) \cap dirs = {v}
    OBVIOUS
  <2> QED
    BY <2>1, ListdirIs
<1> HIDE DEF L
<1>2. ASSUME NEW r \in Entries, Below(r, v), r # v
      PROVE  \E i \in 1 .. Len(L) : Below(r, Append(v, L[i].name))
  <2>1. IsTree(dirs, file) /\ r \in dirs \cup DOMAIN file /\ r \in Place
    BY TreeFacts DEF Shaped, Entries
  <2>2. PICK e \in NameNode : Below(r, Append(v, e))
    BY <1>2, <2>1, BelowChild
  <2>3. Append(v, e) \in Place
    BY BelowFacts
  <2>4. Append(v, e) \in Entries
    BY <2>1, <2>2, <2>3, TreeClosed DEF Entries
  <2>5. PICK i \in 1 .. Len(L) : L[i].name = e
    BY <1>1, <2>4
  <2> QED
    BY <2>2, <2>5
<1> QED
  BY <1>1, <1>2 DEF L

(* The first call lists what is to be removed.                             *)
LEMMA StartIsSafe ==
  ASSUME PathInv, NEW s \in Session, RmdirStart(s), Safe(s)
  PROVE  Safe(s)'
<1> DEFINE L == listdir(final[s])
           v == goal[s]
<1>1. /\ pc[s] = "rmdir" /\ stack[s] = <<>>
      /\ stack' = [stack EXCEPT ![s] = <<[at |-> final[s], left |-> L]>>]
      /\ dirs' = dirs /\ file' = file /\ final' = final /\ goal' = goal
  BY DEF RmdirStart, Call, tree, command
<1>2. /\ Shaped /\ IsPath(final[s]) /\ v = PlaceOf(final[s]) /\ v \in Place /\ v \in dirs
      /\ stack \in [Session -> Seq(Frame)]
  BY <1>1 DEF PathInv, Directed, Shaped, Busy, Safe
<1>3. stack'[s] = <<[at |-> final[s], left |-> L]>>
  BY <1>1, <1>2
<1>4. ASSUME Clear(final[s]) PROVE Complete(s)'
  <2>1. Way(NodesOf(final[s])) \subseteq dirs
    BY <1>4 DEF Safe, Complete
  <2>2. Walk(final[s]) = {v}
    BY <1>2, <2>1, PathFacts
  <2>3. /\ IsListing(L, v)
        /\ \A r \in Entries : Below(r, v) /\ r # v =>
             \E i \in 1 .. Len(L) : Below(r, Append(v, L[i].name))
    BY <1>2, <2>2, ListingCovers
  <2> HIDE DEF L, v
  <2>4. /\ Len(stack'[s]) = 1 /\ stack'[s][1].at = final[s] /\ stack'[s][1].left = L
    BY <1>3
  <2>5. At(s, 1)' = v /\ Rest(s, 1)' = L
    BY <1>2, <2>4 DEF At, Rest
  <2>6. \A i : Child(s, 1, i)' = Append(v, L[i].name)
    BY <2>5 DEF Child
  <2>7. IsListing(Rest(s, 1), At(s, 1))'
    BY <1>1, <2>3, <2>5 DEF IsListing
  <2>8. ASSUME NEW r \in Entries, Below(r, v), r # v PROVE Covered(s, r)'
    <3>1. PICK i \in 1 .. Len(L) : Below(r, Append(v, L[i].name))
      BY <2>3, <2>8
    <3>2. Below(r, Child(s, 1, i))' /\ i \in 1 .. Len(Rest(s, 1)')
      BY <2>5, <2>6, <3>1 DEF Below
    <3> QED
      BY <2>4, <3>2 DEF Covered
  <2>9. \A j \in 1 .. Len(stack'[s]) : j = 1
    BY <2>4
  <2>10. Entries' = Entries /\ v \in dirs
    BY <1>1, <1>2 DEF Entries, v
  <2> QED
    BY <1>1, <2>1, <2>5, <2>7, <2>8, <2>9, <2>10 DEF Complete, v
<1> QED
  BY <1>1, <1>2, <1>4 DEF Safe

(* The entry a call deals with is the first it has left.                   *)
LEMMA EntryIs ==
  ASSUME Shaped, NEW s \in Session, Nested(s), Complete(s), NEW n, n = Len(stack[s]),
         stack[s] # <<>>, Top(s).left # <<>>
  PROVE  /\ n \in 1 .. Len(stack[s]) /\ 1 \in 1 .. Len(Rest(s, n))
         /\ Entry(s) = Rest(s, n)[1] /\ IsPath(EntryPath(s))
         /\ PlaceOf(EntryPath(s)) = Child(s, n, 1)
         /\ Walk(EntryPath(s)) = {Child(s, n, 1)}
<1>1. n \in Nat \ {0} /\ Top(s) = stack[s][n] /\ n \in 1 .. Len(stack[s])
  BY TopFacts
<1>2. /\ Entry(s) = Rest(s, n)[1] /\ Entry(s).name \in NameNode /\ IsPath(EntryPath(s))
      /\ NodesOf(EntryPath(s)) = Append(NodesOf(stack[s][n].at), Entry(s).name)
      /\ PlaceOf(EntryPath(s)) = Append(At(s, n), Entry(s).name)
  BY <1>1, EntryFacts DEF Rest, At
<1>3. PlaceOf(EntryPath(s)) = Child(s, n, 1)
  BY <1>2 DEF Child
<1>4. Way(NodesOf(EntryPath(s))) \subseteq dirs
  <2> DEFINE p == NodesOf(stack[s][n].at)
  <2>1. Way(p) \subseteq dirs
    BY <1>1, Reached
  <2>2. p \in Seq(PathNode) /\ Lexical(p) \in dirs
    BY <1>1 DEF Nested, IsPath, Complete, At, PlaceOf
  <2> HIDE DEF p
  <2>3. Way(Append(p, Entry(s).name)) = Way(p) \cup {Lexical(p)}
    BY <2>2, WayMore
  <2> QED
    BY <1>2, <2>1, <2>2, <2>3 DEF p
<1>5. 1 \in 1 .. Len(Rest(s, n))
  <2>1. Rest(s, n) \in Seq(Listed) /\ Rest(s, n) # <<>>
    BY <1>1, FrameFacts DEF Rest
  <2> QED
    BY <2>1
<1> QED
  BY <1>1, <1>2, <1>3, <1>4, <1>5, PathFacts

(* A call goes on with the entries behind that one.                        *)
LEMMA GoesOn ==
  ASSUME Shaped, NEW s \in Session, Nested(s), NEW n, n = Len(stack[s]),
         stack[s] # <<>>, Top(s).left # <<>>,
         \A j \in 1 .. n : stack'[s][j] = Returned(s)[j]
  PROVE  /\ \A j \in 1 .. n : At(s, j)' = At(s, j)
         /\ \A j \in 1 .. n - 1 : Rest(s, j)' = Rest(s, j)
         /\ \A j \in 1 .. n - 1 : \A i : Child(s, j, i)' = Child(s, j, i)
         /\ Len(Rest(s, n)) \in Nat \ {0} /\ Len(Rest(s, n)') = Len(Rest(s, n)) - 1
         /\ \A i \in 1 .. Len(Rest(s, n)) - 1 :
              /\ Rest(s, n)'[i] = Rest(s, n)[i + 1]
              /\ Child(s, n, i)' = Child(s, n, i + 1)
<1>1. n \in Nat \ {0} /\ Top(s) = stack[s][n] /\ n \in 1 .. n
  BY TopFacts
<1>2. /\ \A j \in 1 .. n - 1 : Returned(s)[j] = stack[s][j]
      /\ Returned(s)[n].at = stack[s][n].at
      /\ Returned(s)[n].left = Tail(stack[s][n].left)
  BY <1>1, ReturnedFacts
<1>3. \A j \in 1 .. n - 1 : stack'[s][j] = stack[s][j]
  BY <1>1, <1>2
<1>4. stack'[s][n].at = stack[s][n].at /\ stack'[s][n].left = Tail(stack[s][n].left)
  BY <1>1, <1>2
<1>5. \A j \in 1 .. n : j \in 1 .. n - 1 \/ j = n
  BY <1>1
<1>6. \A j \in 1 .. n : At(s, j)' = At(s, j)
  BY <1>3, <1>4, <1>5 DEF At
<1>7. \A j \in 1 .. n - 1 : Rest(s, j)' = Rest(s, j)
  BY <1>3 DEF Rest
<1>8. \A j \in 1 .. n - 1 : \A i : Child(s, j, i)' = Child(s, j, i)
  <2>1. \A j \in 1 .. n - 1 : j \in 1 .. n
    BY <1>1
  <2> QED
    BY <1>6, <1>7, <2>1 DEF Child
<1> DEFINE q == Rest(s, n)
<1>9. q \in Seq(Listed) /\ q # <<>>
  BY <1>1, FrameFacts DEF Rest
<1>10. Rest(s, n)' = Tail(q)
  BY <1>4 DEF Rest
<1> HIDE DEF q
<1>11. /\ Len(q) \in Nat \ {0} /\ Len(Tail(q)) = Len(q) - 1
       /\ \A i \in 1 .. Len(q) - 1 : Tail(q)[i] = q[i + 1]
  BY <1>9, TailFacts, Zenon
<1>12. /\ Len(Rest(s, n)') = Len(q) - 1
       /\ \A i \in 1 .. Len(q) - 1 : Rest(s, n)'[i] = q[i + 1]
  BY <1>10, <1>11
<1>13. ASSUME NEW i \in 1 .. Len(q) - 1 PROVE Child(s, n, i)' = Child(s, n, i + 1)
  <2>1. At(s, n)' = At(s, n) /\ Rest(s, n)'[i].name = Rest(s, n)[i + 1].name
    BY <1>1, <1>6, <1>12 DEF q
  <2> QED
    BY <2>1 DEF Child
<1> QED
  BY <1>6, <1>7, <1>8, <1>11, <1>12, <1>13 DEF q

(* The places of the entries left are not the same.                        *)
LEMMA ChildrenDiffer ==
  ASSUME Shaped, NEW s \in Session, Nested(s), Complete(s),
         NEW j \in 1 .. Len(stack[s]), NEW i \in 1 .. Len(Rest(s, j)),
         NEW k \in 1 .. Len(Rest(s, j)), Child(s, j, i) = Child(s, j, k)
  PROVE  i = k
<1>1. /\ Rest(s, j)[i].name \in NameNode /\ Rest(s, j)[k].name \in NameNode
      /\ At(s, j) \in Place /\ Child(s, j, i) \in Place
  BY FrameFacts
<1>2. Below(Child(s, j, i), Child(s, j, i)) /\ Below(Child(s, j, i), Child(s, j, k))
  BY <1>1, BelowFacts
<1>3. Rest(s, j)[i].name = Rest(s, j)[k].name
  BY <1>1, <1>2, BelowOneChild DEF Child
<1> QED
  BY <1>3 DEF Complete, IsListing

(* A step that deals with that entry, and changes no other, leaves the     *)
(* calls complete, but for what is below the entry.                        *)
LEMMA FramesGoOn ==
  ASSUME Shaped, NEW s \in Session, Nested(s), Complete(s), NEW n, n = Len(stack[s]),
         stack[s] # <<>>, Top(s).left # <<>>,
         \A j \in 1 .. n : stack'[s][j] = Returned(s)[j],
         Len(stack'[s]) \in Nat, n <= Len(stack'[s]),
         dirs' = dirs, DOMAIN file \ {Child(s, n, 1)} \subseteq DOMAIN file'
  PROVE  /\ \A j \in 1 .. n :
              /\ At(s, j)' = At(s, j) /\ At(s, j)' \in dirs'
              /\ IsListing(Rest(s, j), At(s, j))'
              /\ j # 1 =>
                   \A i \in 1 .. Len(Rest(s, j - 1)') : Child(s, j - 1, i)' # At(s, j)'
         /\ \A i \in 1 .. Len(Rest(s, n)') : Child(s, n, i)' # Child(s, n, 1)
         /\ \A r : Covered(s, r) /\ ~Below(r, Child(s, n, 1)) => Covered(s, r)'
<1> DEFINE c == Child(s, n, 1)
<1>1. /\ n \in 1 .. n /\ n \in Nat /\ 1 \in 1 .. Len(Rest(s, n))
      /\ n \in 1 .. Len(stack[s])
  BY EntryIs
<1>2. /\ \A j \in 1 .. n : At(s, j)' = At(s, j)
      /\ \A j \in 1 .. n - 1 : Rest(s, j)' = Rest(s, j)
      /\ \A j \in 1 .. n - 1 : \A i : Child(s, j, i)' = Child(s, j, i)
      /\ Len(Rest(s, n)) \in Nat \ {0} /\ Len(Rest(s, n)') = Len(Rest(s, n)) - 1
      /\ \A i \in 1 .. Len(Rest(s, n)) - 1 :
           /\ Rest(s, n)'[i] = Rest(s, n)[i + 1]
           /\ Child(s, n, i)' = Child(s, n, i + 1)
  BY GoesOn
<1>3. /\ \A j \in 1 .. n : At(s, j) \in dirs /\ IsListing(Rest(s, j), At(s, j))
      /\ \A j \in 1 .. n : j # 1 =>
           \A i \in 1 .. Len(Rest(s, j - 1)) : Child(s, j - 1, i) # At(s, j)
  BY DEF Complete
<1>4. \A j \in 1 .. n :
        /\ \A i \in 1 .. Len(Rest(s, j)) :
             IF Rest(s, j)[i].is_file THEN Child(s, j, i) \in DOMAIN file
             ELSE Child(s, j, i) \in dirs
        /\ \A i, k \in 1 .. Len(Rest(s, j)) :
             Rest(s, j)[i].name = Rest(s, j)[k].name => i = k
  BY <1>3 DEF IsListing, Child
<1>5. ASSUME NEW j \in 1 .. n - 1, NEW i \in 1 .. Len(Rest(s, j))
      PROVE  Child(s, j, i) # c
  <2>1. j \in 1 .. n /\ n \in j + 1 .. n
    BY <1>1
  <2>2. Child(s, j, i) \in Place /\ Below(c, At(s, n)) /\ c \in Place
    BY <1>1, <2>1, FrameFacts
  <2>3. Below(Child(s, j, i), Child(s, j, i))
    BY <2>2, BelowFacts
  <2>4. ~Below(Child(s, j, i), At(s, n))
    BY <2>1, <2>2, <2>3, Apart
  <2> QED
    BY <2>2, <2>4
<1>6. ASSUME NEW i \in 1 .. Len(Rest(s, n)), i # 1 PROVE Child(s, n, i) # c
  BY <1>1, <1>6, ChildrenDiffer
<1> HIDE DEF c
<1>7. ASSUME NEW i \in 1 .. Len(Rest(s, n)')
      PROVE  /\ i + 1 \in 1 .. Len(Rest(s, n)) /\ i + 1 # 1
             /\ Rest(s, n)'[i] = Rest(s, n)[i + 1]
             /\ Child(s, n, i)' = Child(s, n, i + 1)
  BY <1>2
<1>8. DOMAIN file \ {c} \subseteq DOMAIN file'
  BY DEF c
<1>9. ASSUME NEW j \in 1 .. n PROVE IsListing(Rest(s, j), At(s, j))'
  <2>1. CASE j # n
    <3>1. j \in 1 .. n - 1
      BY <1>1, <2>1
    <3>2. /\ Rest(s, j)' = Rest(s, j) /\ At(s, j)' = At(s, j)
      BY <1>2, <3>1
    <3>3. \A i \in 1 .. Len(Rest(s, j)) :
            IF Rest(s, j)[i].is_file THEN Child(s, j, i) \in DOMAIN file'
            ELSE Child(s, j, i) \in dirs'
      BY <1>4, <1>5, <1>8, <3>1
    <3>4. \A i, k \in 1 .. Len(Rest(s, j)) :
            Rest(s, j)[i].name = Rest(s, j)[k].name => i = k
      BY <1>4
    <3> QED
      BY <3>2, <3>3, <3>4 DEF IsListing, Child
  <2>2. CASE j = n
    <3>1. ASSUME NEW i \in 1 .. Len(Rest(s, n)')
          PROVE  IF Rest(s, n)'[i].is_file THEN Child(s, n, i)' \in DOMAIN file'
                 ELSE Child(s, n, i)' \in dirs'
      <4>1. /\ i + 1 \in 1 .. Len(Rest(s, n)) /\ Child(s, n, i + 1) # c
            /\ Rest(s, n)'[i] = Rest(s, n)[i + 1]
            /\ Child(s, n, i)' = Child(s, n, i + 1)
        BY <1>6, <1>7
      <4>2. IF Rest(s, n)[i + 1].is_file THEN Child(s, n, i + 1) \in DOMAIN file
            ELSE Child(s, n, i + 1) \in dirs
        BY <1>1, <1>4, <4>1
      <4>3. IF Rest(s, n)[i + 1].is_file THEN Child(s, n, i + 1) \in DOMAIN file'
            ELSE Child(s, n, i + 1) \in dirs'
        BY <1>8, <4>1, <4>2
      <4> QED
        BY <4>1, <4>3
    <3>2. ASSUME NEW i \in 1 .. Len(Rest(s, n)'), NEW k \in 1 .. Len(Rest(s, n)'),
                 Rest(s, n)'[i].name = Rest(s, n)'[k].name
          PROVE  i = k
      <4>1. /\ i + 1 \in 1 .. Len(Rest(s, n)) /\ k + 1 \in 1 .. Len(Rest(s, n))
            /\ Rest(s, n)[i + 1].name = Rest(s, n)[k + 1].name
        BY <1>7, <3>2
      <4>2. i + 1 = k + 1
        BY <1>1, <1>4, <4>1
      <4>3. i \in Int /\ k \in Int
        OBVIOUS
      <4> QED
        BY <4>2, <4>3
    <3> QED
      BY <2>2, <3>1, <3>2 DEF IsListing, Child
  <2> QED
    BY <2>1, <2>2
<1>10. ASSUME NEW j \in 1 .. n, j # 1
       PROVE  \A i \in 1 .. Len(Rest(s, j - 1)') : Child(s, j - 1, i)' # At(s, j)'
  <2>1. j - 1 \in 1 .. n - 1
    BY <1>1, <1>10
  <2>2. /\ At(s, j)' = At(s, j) /\ Rest(s, j - 1)' = Rest(s, j - 1)
        /\ \A i : Child(s, j - 1, i)' = Child(s, j - 1, i)
    BY <1>2, <2>1
  <2>3. \A i \in 1 .. Len(Rest(s, j - 1)) : Child(s, j - 1, i) # At(s, j)
    BY <1>3, <1>10
  <2> QED
    BY <2>2, <2>3
<1>11. \A j \in 1 .. n : j \in 1 .. Len(stack'[s])
  BY <1>1
<1>12. ASSUME NEW r, Covered(s, r), ~Below(r, c) PROVE Covered(s, r)'
  <2>1. ASSUME NEW j \in 1 .. n, j # 1, r = At(s, j) PROVE Covered(s, r)'
    BY <1>2, <1>11, <2>1 DEF Covered
  <2>2. ASSUME NEW j \in 1 .. n, NEW i \in 1 .. Len(Rest(s, j)), Below(r, Child(s, j, i))
        PROVE  Covered(s, r)'
    <3>1. CASE j # n
      <4>1. j \in 1 .. n - 1
        BY <1>1, <3>1
      <4>2. Rest(s, j)' = Rest(s, j) /\ Child(s, j, i)' = Child(s, j, i)
        BY <1>2, <4>1
      <4>3. Below(r, Child(s, j, i)')
        BY <2>2, <4>2
      <4> QED
        BY <1>11, <4>2, <4>3 DEF Covered, Below
    <3>2. CASE j = n
      <4>1. i # 1
        BY <1>12, <2>2, <3>2 DEF c
      <4>2. /\ i - 1 \in 1 .. Len(Rest(s, n)) - 1 /\ (i - 1) + 1 = i
            /\ i - 1 \in 1 .. Len(Rest(s, n)')
        BY <1>2, <3>2, <4>1
      <4>3. Child(s, n, i - 1)' = Child(s, n, i)
        BY <1>2, <4>2
      <4>4. Below(r, Child(s, n, i - 1)')
        BY <2>2, <3>2, <4>3
      <4> QED
        BY <1>1, <1>11, <4>2, <4>4 DEF Covered, Below
    <3> QED
      BY <3>1, <3>2
  <2> QED
    BY <1>12, <2>1, <2>2 DEF Covered
<1>13. \A i \in 1 .. Len(Rest(s, n)') : Child(s, n, i)' # c
  BY <1>6, <1>7
<1> QED
  BY <1>2, <1>3, <1>9, <1>10, <1>12, <1>13 DEF c

(* A call that has removed a file.                                         *)
LEMMA FileIsSafe ==
  ASSUME PathInv, NEW s \in Session, RmdirFile(s), Safe(s)
  PROVE  Safe(s)'
<1>n. PICK n : n = Len(stack[s])
  OBVIOUS
<1> DEFINE c == Child(s, n, 1)
<1>1. /\ pc[s] = "rmdir" /\ stack[s] # <<>> /\ Top(s).left # <<>> /\ Entry(s).is_file
      /\ stack' = [stack EXCEPT ![s] = Returned(s)] /\ file' = Unlinked(EntryPath(s))
      /\ dirs' = dirs /\ final' = final /\ goal' = goal
  BY DEF RmdirFile, InCall, command
<1>2. /\ Shaped /\ Nested(s) /\ IsTree(dirs, file) /\ stack \in [Session -> Seq(Frame)]
  BY DEF PathInv, Shaped
<1>3. ASSUME Clear(final[s]) PROVE Complete(s)'
  <2>1. Complete(s)
    BY <1>3 DEF Safe
  <2>2. /\ n \in 1 .. n /\ n \in Nat /\ 1 \in 1 .. Len(Rest(s, n)) /\ Entry(s) = Rest(s, n)[1]
        /\ Walk(EntryPath(s)) = {c}
    BY <1>1, <1>2, <1>n, <2>1, EntryIs
  <2>3. stack'[s] = Returned(s) /\ Len(stack'[s]) = n
    BY <1>1, <1>2, <1>n, ReturnedFacts
  <2>4. c \in DOMAIN file /\ c \notin dirs
    <3>1. IsListing(Rest(s, n), At(s, n))
      BY <1>n, <2>1, <2>2 DEF Complete
    <3>2. c \in DOMAIN file
      BY <1>1, <2>2, <3>1 DEF IsListing, Child
    <3> QED
      BY <1>2, <3>2, TreeFacts
  <2>5. DOMAIN file' = DOMAIN file \ {c}
    BY <1>1, <2>2 DEF Unlinked
  <2>6. /\ \A j \in 1 .. n :
             /\ At(s, j)' \in dirs' /\ IsListing(Rest(s, j), At(s, j))'
             /\ j # 1 =>
                  \A i \in 1 .. Len(Rest(s, j - 1)') : Child(s, j - 1, i)' # At(s, j)'
        /\ \A r : Covered(s, r) /\ ~Below(r, c) => Covered(s, r)'
    BY <1>1, <1>2, <1>n, <2>1, <2>2, <2>3, <2>5, FramesGoOn
  <2> HIDE DEF c
  <2>7. ASSUME NEW r \in Entries', Below(r, goal[s]), r # goal[s] PROVE Covered(s, r)'
    <3>1. r \in Entries /\ r # c
      BY <1>1, <2>4, <2>5, <2>7 DEF Entries
    <3>2. Covered(s, r)
      BY <1>1, <2>1, <2>7, <3>1 DEF Complete
    <3>3. ~Below(r, c)
      <4> SUFFICES ASSUME Below(r, c) PROVE FALSE
        OBVIOUS
      <4>1. c \in Place
        BY <1>2, <2>4, TreeFacts
      <4>2. c \in dirs
        BY <1>2, <3>1, <4>1, TreeClosed DEF Entries
      <4> QED
        BY <2>4, <4>2
    <3> QED
      BY <2>6, <3>2, <3>3
  <2>8. Way(NodesOf(final[s])) \subseteq dirs
    BY <2>1 DEF Complete
  <2> QED
    BY <1>1, <2>3, <2>6, <2>7, <2>8 DEF Complete
<1> QED
  BY <1>1, <1>3 DEF Safe

(* A call that has met a directory, and calls rmdir for it.                *)
LEMMA SubIsSafe ==
  ASSUME PathInv, NEW s \in Session, RmdirSub(s), Safe(s)
  PROVE  Safe(s)'
<1>n. PICK n : n = Len(stack[s])
  OBVIOUS
<1> DEFINE c == Child(s, n, 1)
           L == listdir(EntryPath(s))
           f == [at |-> EntryPath(s), left |-> L]
<1>1. /\ pc[s] = "rmdir" /\ stack[s] # <<>> /\ Top(s).left # <<>> /\ ~Entry(s).is_file
      /\ stack' = [stack EXCEPT ![s] = Append(Returned(s), f)]
      /\ dirs' = dirs /\ file' = file /\ final' = final /\ goal' = goal
  BY DEF RmdirSub, InCall, command, Call, tree
<1>2. /\ Shaped /\ Nested(s) /\ IsTree(dirs, file) /\ stack \in [Session -> Seq(Frame)]
  BY DEF PathInv, Shaped
<1>3. ASSUME Clear(final[s]) PROVE Complete(s)'
  <2>1. Complete(s)
    BY <1>3 DEF Safe
  <2>2. /\ n \in 1 .. n /\ n \in Nat /\ 1 \in 1 .. Len(Rest(s, n)) /\ Entry(s) = Rest(s, n)[1]
        /\ Walk(EntryPath(s)) = {c} /\ IsPath(EntryPath(s)) /\ PlaceOf(EntryPath(s)) = c
    BY <1>1, <1>2, <1>n, <2>1, EntryIs
  <2>3. /\ stack'[s] = Append(Returned(s), f) /\ Len(stack'[s]) = n + 1
        /\ stack'[s][n + 1] = f /\ \A j \in 1 .. n : stack'[s][j] = Returned(s)[j]
    <3>1. Returned(s) \in Seq(Frame) /\ Len(Returned(s)) = n
      BY <1>1, <1>2, <1>n, ReturnedFacts
    <3>2. f \in Frame
      BY <2>2, CallType DEF Call
    <3>3. stack'[s] = Append(Returned(s), f)
      BY <1>1, <1>2
    <3> HIDE DEF f
    <3> QED
      BY <3>1, <3>2, <3>3, AppendFacts
  <2>4. c \in dirs /\ c \in Place
    <3>1. IsListing(Rest(s, n), At(s, n))
      BY <1>n, <2>1, <2>2 DEF Complete
    <3>2. c \in dirs
      BY <1>1, <2>2, <3>1 DEF IsListing, Child
    <3> QED
      BY <1>2, <3>2, TreeFacts
  <2>5. /\ \A j \in 1 .. n :
             /\ At(s, j)' \in dirs' /\ IsListing(Rest(s, j), At(s, j))'
             /\ j # 1 =>
                  \A i \in 1 .. Len(Rest(s, j - 1)') : Child(s, j - 1, i)' # At(s, j)'
        /\ \A i \in 1 .. Len(Rest(s, n)') : Child(s, n, i)' # c
        /\ \A r : Covered(s, r) /\ ~Below(r, c) => Covered(s, r)'
    <3>1. Len(stack'[s]) \in Nat /\ n <= Len(stack'[s])
      BY <2>2, <2>3
    <3>2. DOMAIN file \ {Child(s, n, 1)} \subseteq DOMAIN file'
      BY <1>1
    <3> QED
      BY <1>1, <1>2, <1>n, <2>1, <2>2, <2>3, <3>1, <3>2, FramesGoOn
  <2>6. /\ IsListing(L, c)
        /\ \A r \in Entries : Below(r, c) /\ r # c =>
             \E i \in 1 .. Len(L) : Below(r, Append(c, L[i].name))
    BY <1>2, <2>2, <2>4, ListingCovers
  <2>7. stack'[s][n + 1].at = EntryPath(s) /\ stack'[s][n + 1].left = L
    BY <2>3
  <2>8. At(s, n + 1)' = c /\ Rest(s, n + 1)' = L
    BY <2>2, <2>7 DEF At, Rest
  <2> HIDE DEF c, L, f
  <2>9. \A i : Child(s, n + 1, i)' = Append(c, L[i].name)
    BY <2>8 DEF Child
  <2>10. IsListing(Rest(s, n + 1), At(s, n + 1))'
    BY <1>1, <2>6, <2>8 DEF IsListing
  <2>11. \A j \in 1 .. n + 1 : j \in 1 .. n \/ j = n + 1
    BY <2>2
  <2>12. n + 1 \in 1 .. n + 1 /\ n + 1 # 1 /\ (n + 1) - 1 = n
    BY <2>2
  <2>13. ASSUME NEW r \in Entries, Below(r, goal[s]), r # goal[s] PROVE Covered(s, r)'
    <3>1. Covered(s, r)
      BY <1>1, <2>1, <2>13 DEF Complete
    <3>2. CASE ~Below(r, c)
      BY <2>5, <3>1, <3>2
    <3>3. CASE r = c
      BY <2>3, <2>8, <2>12, <3>3 DEF Covered
    <3>4. CASE Below(r, c) /\ r # c
      <4>1. PICK i \in 1 .. Len(L) : Below(r, Append(c, L[i].name))
        BY <2>6, <3>4
      <4>2. Below(r, Child(s, n + 1, i)') /\ i \in 1 .. Len(Rest(s, n + 1)')
        BY <2>8, <2>9, <4>1
      <4> QED
        BY <2>3, <2>12, <4>2 DEF Covered, Below
    <3> QED
      BY <3>2, <3>3, <3>4
  <2>14. \A j \in 1 .. n + 1 :
           /\ At(s, j)' \in dirs' /\ IsListing(Rest(s, j), At(s, j))'
           /\ j # 1 =>
                \A i \in 1 .. Len(Rest(s, j - 1)') : Child(s, j - 1, i)' # At(s, j)'
    <3>1. At(s, n + 1)' \in dirs'
      BY <1>1, <2>4, <2>8
    <3>2. \A i \in 1 .. Len(Rest(s, (n + 1) - 1)') :
            Child(s, (n + 1) - 1, i)' # At(s, n + 1)'
      BY <2>5, <2>8, <2>12
    <3> QED
      BY <2>5, <2>10, <2>11, <3>1, <3>2
  <2>15. Way(NodesOf(final[s])) \subseteq dirs
    BY <2>1 DEF Complete
  <2>16. Entries' = Entries
    BY <1>1 DEF Entries
  <2> QED
    BY <1>1, <2>3, <2>13, <2>14, <2>15, <2>16 DEF Complete
<1> QED
  BY <1>1, <1>3 DEF Safe

(* A call that has emptied its directory, and returns to its caller.       *)
LEMMA SelfIsSafe ==
  ASSUME PathInv, NEW s \in Session, RmdirSelf(s), Callers(s) # <<>>, Safe(s)
  PROVE  Safe(s)'
<1>n. PICK n : n = Len(stack[s])
  OBVIOUS
<1> DEFINE v == At(s, n)
<1>1. /\ pc[s] = "rmdir" /\ stack[s] # <<>> /\ Top(s).left = <<>>
      /\ stack' = [stack EXCEPT ![s] = Callers(s)] /\ dirs' = Removed(Top(s).at)
      /\ file' = file /\ final' = final /\ goal' = goal
  BY DEF RmdirSelf, InCall, command
<1>2. /\ Shaped /\ Nested(s) /\ IsTree(dirs, file) /\ stack \in [Session -> Seq(Frame)]
      /\ IsPath(final[s]) /\ goal[s] = PlaceOf(final[s]) /\ goal[s] \in Place
  BY <1>1 DEF PathInv, Shaped, Directed, Busy
<1>3. /\ n \in Nat \ {0} /\ Top(s) = stack[s][n] /\ Len(Callers(s)) = n - 1
      /\ \A j \in 1 .. n - 1 : Callers(s)[j] = stack[s][j]
      /\ Callers(s) \in Seq(Frame)
  BY <1>1, <1>2, <1>n, TopFacts
<1>4. n # 1 /\ n \in 1 .. n /\ 1 \in 1 .. n /\ n \in 1 + 1 .. n /\ n - 1 \in 1 .. n - 1
      /\ (n - 1) + 1 = n
  <2>1. n # 1
    <3> SUFFICES ASSUME n = 1 PROVE FALSE
      OBVIOUS
    <3>1. Len(Callers(s)) = 0
      BY <1>3
    <3> QED
      BY <1>3, <3>1
  <2> QED
    BY <1>3, <2>1
<1>5. /\ stack'[s] = Callers(s) /\ Len(stack'[s]) = n - 1
      /\ \A j \in 1 .. n - 1 : stack'[s][j] = stack[s][j]
  BY <1>1, <1>2, <1>3
<1>6. At(s, 1) = goal[s]
  <2>1. stack[s][1].at = final[s]
    BY <1>2, <1>4, <1>n DEF Nested
  <2> QED
    BY <1>2, <2>1 DEF At
<1>7. v # goal[s] /\ Below(v, goal[s]) /\ v \in Place
  <2>1. v # At(s, 1)
    BY <1>2, <1>4, <1>n, Differ
  <2> QED
    BY <1>2, <1>4, <1>6, <1>n, <2>1, FrameFacts
<1>8. dirs \ {v} \subseteq dirs' /\ dirs' \subseteq dirs
  <2>1. IsPath(stack[s][n].at)
    BY <1>2, <1>4, <1>n, FrameFacts
  <2> QED
    BY <1>1, <1>3, <2>1, OnePlace DEF At
<1>9. goal[s] \in dirs'
  BY <1>7, <1>8 DEF Safe
<1>10. ASSUME Clear(final[s]) PROVE Complete(s)'
  <2>1. Complete(s)
    BY <1>10 DEF Safe
  <2>2. \A j \in 1 .. n - 1 : j \in 1 .. n /\ n \in j + 1 .. n
    BY <1>3
  <2>3. Rest(s, n) = <<>>
    BY <1>1, <1>3 DEF Rest
  <2>4. /\ \A j \in 1 .. n - 1 : At(s, j)' = At(s, j) /\ Rest(s, j)' = Rest(s, j)
        /\ \A j \in 1 .. n - 1 : \A i : Child(s, j, i)' = Child(s, j, i)
    <3>1. \A j \in 1 .. n - 1 : At(s, j)' = At(s, j) /\ Rest(s, j)' = Rest(s, j)
      BY <1>5 DEF At, Rest
    <3> QED
      BY <3>1 DEF Child
  <2>5. ASSUME NEW r \in Entries, Below(r, v) PROVE r = v
    <3> SUFFICES ASSUME r # v PROVE FALSE
      OBVIOUS
    <3>1. r \in Place
      BY <1>2, TreeFacts DEF Entries
    <3>2. Below(r, goal[s]) /\ r # goal[s]
      BY <1>2, <1>7, <2>5, <3>1, BelowFacts
    <3>3. Covered(s, r)
      BY <1>1, <2>1, <3>2 DEF Complete
    <3>4. ASSUME NEW j \in 1 .. n, r = At(s, j) PROVE FALSE
      <4>1. j \in 1 .. n - 1
        BY <1>3, <3>4
      <4>2. Below(v, At(s, j))
        <5>1. n \in j .. n
          BY <1>3
        <5> QED
          BY <1>2, <1>n, <5>1, Chain
      <4> QED
        BY <1>7, <2>5, <3>1, <3>4, <4>2, BelowFacts
    <3>5. ASSUME NEW j \in 1 .. n, NEW i \in 1 .. Len(Rest(s, j)), Below(r, Child(s, j, i))
          PROVE  FALSE
      <4>1. j # n
        BY <2>3
      <4>2. n \in j + 1 .. n
        BY <1>3, <4>1
      <4> QED
        BY <1>2, <1>n, <2>1, <2>5, <3>1, <3>5, <4>2, Apart
    <3> QED
      BY <1>n, <3>3, <3>4, <3>5 DEF Covered
  <2>6. v \notin dirs'
    <3>1. Walk(Top(s).at) = {v}
      BY <1>2, <1>3, <1>4, <1>n, <2>1, Reached
    <3>2. LastNode(Top(s).at) \notin {Dot, DotDot}
      <4>1. n - 1 \in 1 .. Len(stack[s]) - 1
        BY <1>4, <1>n
      <4>2. PICK e \in NameNode :
              NodesOf(stack[s][n].at) = Append(NodesOf(stack[s][n - 1].at), e)
        BY <1>2, <1>4, <4>1, Descent
      <4>3. /\ NodesOf(stack[s][n - 1].at) \in Seq(PathNode) /\ IsPath(stack[s][n].at)
        BY <1>2, <1>n, <2>2, <4>1, <1>4 DEF Nested, IsPath
      <4>4. e \in PathNode /\ e \notin {Dot, DotDot}
        BY NodeFacts DEF PathNode
      <4>5. LastNode(stack[s][n].at) = e
        BY <4>2, <4>3, <4>4, LastNodeIs DEF IsPath
      <4> QED
        BY <1>3, <4>4, <4>5
    <3> QED
      BY <1>1, <2>5, <3>1, <3>2 DEF Removed
  <2> HIDE DEF v
  <2>7. ASSUME NEW j \in 1 .. n - 1, NEW i \in 1 .. Len(Rest(s, j)) PROVE Child(s, j, i) # v
    <3>1. Child(s, j, i) \in Place
      BY <1>2, <1>n, <2>2, FrameFacts
    <3>2. Below(Child(s, j, i), Child(s, j, i))
      BY <3>1, BelowFacts
    <3>3. ~Below(Child(s, j, i), v)
      BY <1>2, <1>n, <2>1, <2>2, <3>1, <3>2, Apart DEF v
    <3> QED
      BY <3>1, <3>2, <3>3
  <2>8. ASSUME NEW j \in 1 .. n - 1
        PROVE  /\ At(s, j)' \in dirs' /\ IsListing(Rest(s, j), At(s, j))'
               /\ j # 1 =>
                    \A i \in 1 .. Len(Rest(s, j - 1)') : Child(s, j - 1, i)' # At(s, j)'
    <3>1. /\ At(s, j) \in dirs /\ IsListing(Rest(s, j), At(s, j))
          /\ j # 1 =>
               \A i \in 1 .. Len(Rest(s, j - 1)) : Child(s, j - 1, i) # At(s, j)
      BY <1>n, <2>1, <2>2 DEF Complete
    <3>2. At(s, j) # v
      BY <1>2, <1>n, <2>2, Differ DEF v
    <3>3. \A i \in 1 .. Len(Rest(s, j)) :
            IF Rest(s, j)[i].is_file THEN Child(s, j, i) \in DOMAIN file'
            ELSE Child(s, j, i) \in dirs'
      <4>1. \A i \in 1 .. Len(Rest(s, j)) :
              IF Rest(s, j)[i].is_file THEN Child(s, j, i) \in DOMAIN file
              ELSE Child(s, j, i) \in dirs
        BY <3>1 DEF IsListing, Child
      <4> QED
        BY <1>1, <1>8, <2>7, <4>1
    <3>4. \A i, k \in 1 .. Len(Rest(s, j)) :
            Rest(s, j)[i].name = Rest(s, j)[k].name => i = k
      BY <3>1 DEF IsListing
    <3>5. IsListing(Rest(s, j), At(s, j))'
      BY <2>4, <3>3, <3>4 DEF IsListing, Child
    <3>6. At(s, j)' \in dirs'
      BY <1>8, <2>4, <3>1, <3>2
    <3>7. ASSUME j # 1
          PROVE  \A i \in 1 .. Len(Rest(s, j - 1)') : Child(s, j - 1, i)' # At(s, j)'
      <4>1. j - 1 \in 1 .. n - 1
        BY <1>3, <3>7
      <4>2. /\ Rest(s, j - 1)' = Rest(s, j - 1) /\ At(s, j)' = At(s, j)
            /\ \A i : Child(s, j - 1, i)' = Child(s, j - 1, i)
        BY <2>4, <4>1
      <4> QED
        BY <3>1, <3>7, <4>2
    <3> QED
      BY <3>5, <3>6, <3>7
  <2>9. ASSUME NEW r \in Entries', Below(r, goal[s]), r # goal[s] PROVE Covered(s, r)'
    <3>1. r \in Entries /\ r # v
      <4>1. v \notin DOMAIN file
        <5>1. v \in dirs
          BY <1>4, <1>n, <2>1 DEF Complete, v
        <5> QED
          BY <1>2, <5>1, TreeFacts
      <4> QED
        BY <1>1, <1>8, <2>6, <4>1 DEF Entries
    <3>2. Covered(s, r)
      BY <1>1, <2>1, <2>9, <3>1 DEF Complete
    <3>3. ASSUME NEW j \in 1 .. n, j # 1, r = At(s, j) PROVE Covered(s, r)'
      <4>1. j \in 1 .. n - 1
        BY <1>3, <3>1, <3>3 DEF v
      <4> QED
        BY <1>5, <2>4, <3>3, <4>1 DEF Covered
    <3>4. ASSUME NEW j \in 1 .. n, NEW i \in 1 .. Len(Rest(s, j)), Below(r, Child(s, j, i))
          PROVE  Covered(s, r)'
      <4>1. j # n
        BY <2>3
      <4>2. j \in 1 .. n - 1
        BY <1>3, <4>1
      <4>3. Rest(s, j)' = Rest(s, j) /\ Below(r, Child(s, j, i)')
        BY <2>4, <3>4, <4>2
      <4> QED
        BY <1>5, <4>2, <4>3 DEF Covered, Below
    <3> QED
      BY <1>n, <3>2, <3>3, <3>4 DEF Covered
  <2>10. Way(NodesOf(final[s])) \subseteq dirs'
    <3>1. Way(NodesOf(final[s])) \subseteq dirs
      BY <2>1 DEF Complete
    <3>2. \A q \in Way(NodesOf(final[s])) : Below(q, goal[s]) => q = goal[s]
      BY <1>2, <1>10, ClearIs
    <3>3. v \notin Way(NodesOf(final[s]))
      BY <1>7, <3>2
    <3> QED
      BY <1>8, <3>1, <3>3
  <2> QED
    BY <1>1, <1>5, <2>8, <2>9, <2>10 DEF Complete
<1> QED
  BY <1>1, <1>9, <1>10 DEF Safe

-----------------------------------------------------------------------------
(* Every step keeps RemoveInv.                                             *)

(* A step of one session leaves the commands of the others, and does not   *)
(* take away that they are touched.                                        *)
Leaves(s) ==
  /\ pc'[s] = pc[s] /\ final'[s] = final[s] /\ goal'[s] = goal[s] /\ stack'[s] = stack[s]
  /\ <<s, "rmdir">> \in touched => <<s, "rmdir">> \in touched'

LEMMA BegunLeaves ==
  ASSUME Shaped, Typed, NEW a \in Session, NEW s \in Session, s # a, NEW args,
         Opened(a, args), touched \ {<<a, "up">>} \subseteq touched'
  PROVE  Leaves(s)
BY DEF Opened, Begin, Leaves, Shaped, Typed

LEMMA ClientLeaves ==
  ASSUME Shaped, Typed, NEW a \in Session, NEW s \in Session, s # a, NEW args,
         \/ Cd(a, args) \/ OpenFails(a, args)
         \/ \E word \in {"mkdir", "rm", "rmdir"} : Check(a, args, word)
         \/ Download(a, args) \/ Overwrite(a, args) \/ Create(a, args)
  PROVE  Leaves(s)
<1>1. CASE Cd(a, args) \/ OpenFails(a, args)
  BY <1>1 DEF Cd, OpenFails, command, Leaves
<1>2. ASSUME NEW word \in {"mkdir", "rm", "rmdir"}, Check(a, args, word) PROVE Leaves(s)
  BY <1>2 DEF Check, Begin, Leaves, Shaped, Typed
<1>3. CASE Download(a, args)
  <2>1. UNCHANGED <<command, stack>> /\ touched \ {<<a, "send">>} \subseteq touched'
    BY <1>3 DEF Download
  <2> QED
    BY <2>1 DEF command, Leaves
<1>4. CASE Overwrite(a, args)
  <2>1. Opened(a, args) /\ touched \ {<<a, "up">>} \subseteq touched'
    BY <1>4 DEF Overwrite
  <2> QED
    BY <2>1, BegunLeaves
<1>5. CASE Create(a, args)
  <2>1. Opened(a, args) /\ touched \ {<<a, "up">>} \subseteq touched'
    BY <1>5 DEF Create
  <2> QED
    BY <2>1, BegunLeaves
<1> QED
  BY <1>1, <1>2, <1>3, <1>4, <1>5

LEMMA WorkLeaves ==
  ASSUME Shaped, Typed, NEW a \in Session, NEW s \in Session, s # a,
         \/ Receive(a) \/ Reset(a) \/ Hang(a) \/ Work(a)
         \/ Flush(a) \/ FlushFails(a) \/ Die(a) \/ Fork(a)
  PROVE  Leaves(s)
<1>1. CASE Receive(a) \/ Reset(a) \/ Flush(a) \/ FlushFails(a) \/ SendPiece(a) \/ CatDone(a)
  BY <1>1 DEF Receive, Reset, Flush, FlushFails, SendPiece, CatDone, command, Leaves
<1>2. CASE Mkdir(a) \/ Rm(a) \/ Fork(a)
  BY <1>2 DEF Mkdir, Rm, Fork, Finish, Touch, Leaves, Shaped, Typed
<1>3. CASE Hang(a) \/ RecvDone(a)
  BY <1>3 DEF Hang, RecvDone, Disconnect, Finish, Leaves, Shaped, Typed
<1>4. CASE Die(a)
  BY <1>4 DEF Die, Disconnect, Leaves, Shaped, Typed
<1>5. CASE RmdirStart(a) \/ RmdirFile(a) \/ RmdirSub(a)
  BY <1>5 DEF RmdirStart, RmdirFile, RmdirSub, InCall, Touch, command, Leaves, Shaped
<1>6. CASE RmdirSelf(a)
  <2>1. /\ stack'[s] = stack[s]
        /\ <<s, "rmdir">> \in touched => <<s, "rmdir">> \in touched'
    BY <1>6 DEF RmdirSelf, Touch, Shaped
  <2>2. pc'[s] = pc[s] /\ final'[s] = final[s] /\ goal'[s] = goal[s]
    BY <1>6 DEF RmdirSelf, Finish, command, Shaped, Typed
  <2> QED
    BY <2>1, <2>2 DEF Leaves
<1> QED
  BY <1>1, <1>2, <1>3, <1>4, <1>5, <1>6 DEF Work

LEMMA OthersAreSafe ==
  ASSUME PathInv, PathInv', Typed, NEW a \in Session, NEW s \in Session, s # a,
         \/ Client(a) \/ Work(a) \/ Flush(a) \/ FlushFails(a) \/ Die(a) \/ Fork(a),
         Removing(s)
  PROVE  Removing(s)'
<1> SUFFICES ASSUME pc'[s] = "rmdir", <<s, "rmdir">> \notin touched' PROVE Safe(s)'
  BY DEF Removing
<1>1. Leaves(s)
  BY ClientLeaves, WorkLeaves DEF Client, PathInv
<1>2. Safe(s) /\ pc[s] = "rmdir"
  BY <1>1 DEF Leaves, Removing
<1>3. Spares(s)
  <2>1. CASE UNCHANGED tree
    BY <2>1 DEF tree, Spares
  <2>2. CASE \/ Mkdir(a) \/ Rm(a) \/ RmdirFile(a) \/ RmdirSelf(a)
             \/ \E args \in Received : Create(a, args)
    BY <1>2, <2>2, OthersSpare
  <2> QED
    BY <2>1, <2>2, OthersChangeNothing DEF Client, Work
<1> QED
  BY <1>1, <1>2, <1>3, Spared DEF Leaves

LEMMA OwnIsSafe ==
  ASSUME PathInv, PathInv', Typed, NEW s \in Session,
         \/ Client(s) \/ Work(s) \/ Flush(s) \/ FlushFails(s) \/ Die(s) \/ Fork(s),
         Removing(s)
  PROVE  Removing(s)'
<1> SUFFICES ASSUME pc'[s] = "rmdir", <<s, "rmdir">> \notin touched' PROVE Safe(s)'
  BY DEF Removing
<1>1. ASSUME UNCHANGED <<tree, command, stack>>,
             <<s, "rmdir">> \in touched => <<s, "rmdir">> \in touched'
      PROVE  Safe(s)'
  <2>1. Safe(s) /\ pc[s] = "rmdir"
    BY <1>1 DEF Removing, command
  <2>2. Spares(s)
    BY <1>1 DEF tree, Spares
  <2> QED
    BY <1>1, <2>1, <2>2, Spared DEF command
<1>2. ASSUME NEW args \in Received, Cd(s, args) \/ OpenFails(s, args) PROVE Safe(s)'
  BY <1>1, <1>2 DEF Cd, OpenFails
<1>3. CASE \/ Receive(s) \/ Reset(s) \/ Flush(s) \/ FlushFails(s)
           \/ SendPiece(s) \/ CatDone(s)
  BY <1>1, <1>3 DEF Receive, Reset, Flush, FlushFails, SendPiece, CatDone
<1>4. ASSUME NEW args \in Received, NEW word \in {"mkdir", "rm", "rmdir"}, Check(s, args, word)
      PROVE  Safe(s)'
  <2>1. word = "rmdir"
    BY <1>4 DEF Check, Begin, Typed
  <2> QED
    BY <1>4, <2>1, CheckIsSafe
<1>5. ASSUME NEW args \in Received, Download(s, args) \/ Overwrite(s, args) \/ Create(s, args)
      PROVE  FALSE
  <2>1. ASSUME Opened(s, args) PROVE FALSE
    BY <2>1 DEF Opened, Begin, Typed
  <2>2. ASSUME Download(s, args) PROVE FALSE
    BY <2>2, LeftKept DEF Download, command, PathInv
  <2> QED
    BY <1>5, <2>1, <2>2 DEF Overwrite, Create
<1>6. CASE Hang(s) \/ RecvDone(s) \/ Mkdir(s) \/ Rm(s) \/ Fork(s) \/ Die(s)
  BY <1>6 DEF Hang, RecvDone, Mkdir, Rm, Fork, Die, Finish, Typed
<1>7. CASE RmdirStart(s) \/ RmdirFile(s) \/ RmdirSub(s) \/ RmdirSelf(s)
  <2>1. pc[s] = "rmdir" /\ <<s, "rmdir">> \notin touched
    BY <1>7 DEF RmdirStart, RmdirFile, RmdirSub, RmdirSelf, InCall, Touch
  <2>2. Safe(s)
    BY <2>1 DEF Removing
  <2>3. RmdirSelf(s) => Callers(s) # <<>>
    BY DEF RmdirSelf, Finish, Typed
  <2> QED
    BY <1>7, <2>2, <2>3, StartIsSafe, FileIsSafe, SubIsSafe, SelfIsSafe
<1> QED
  BY <1>2, <1>3, <1>4, <1>5, <1>6, <1>7 DEF Client, Work

LEMMA RemoveStep ==
  PathInv /\ PathInv' /\ Typed /\ RemoveInv /\ [Next]_vars => RemoveInv'
<1> SUFFICES ASSUME PathInv, PathInv', Typed, RemoveInv, [Next]_vars, NEW s \in Session
             PROVE  Removing(s)'
  BY DEF RemoveInv
<1>1. Removing(s)
  BY DEF RemoveInv
<1>2. CASE UNCHANGED vars
  <2> SUFFICES ASSUME pc'[s] = "rmdir", <<s, "rmdir">> \notin touched' PROVE Safe(s)'
    BY DEF Removing
  <2>1. UNCHANGED <<dirs, file, pc, final, goal, stack, touched>>
    BY <1>2 DEF vars, tree, command
  <2>2. Safe(s) /\ Spares(s)
    BY <1>1, <2>1 DEF Removing, Spares
  <2> QED
    BY <2>1, <2>2, Spared
<1>3. ASSUME NEW a \in Session,
             \/ Client(a) \/ Work(a) \/ Flush(a) \/ FlushFails(a) \/ Die(a) \/ Fork(a)
      PROVE  Removing(s)'
  BY <1>1, <1>3, OthersAreSafe, OwnIsSafe
<1> QED
  BY <1>2, <1>3 DEF Next

(* In every state an rmdir nobody has interfered with has done all that    *)
(* its calls have passed: what their loops have gone through is gone, and  *)
(* what they have still to visit is all that is left in their directories. *)
THEOREM RemovalInvariance == Spec => []RemoveInv
<1>1. Init => RemoveInv
  BY DEF Init, RemoveInv, Removing
<1>2. PathInv /\ Typed /\ RemoveInv /\ PathInv' /\ [Next]_vars => RemoveInv'
  BY RemoveStep
<1> QED
  BY <1>1, <1>2, PathsInvariance, PTL DEF Spec

(* Only the last call of an rmdir ends it.                                 *)
LEMMA EndsRmdir ==
  ASSUME Typed, [Next]_vars, NEW s \in Session, pc[s] = "rmdir", pc'[s] = "idle"
  PROVE  RmdirSelf(s) /\ Callers(s) = <<>>
<1> USE DEF Typed
<1>1. ASSUME NEW t \in Session, NEW args,
             \/ Cd(t, args) \/ OpenFails(t, args) \/ Download(t, args)
             \/ Overwrite(t, args) \/ Create(t, args)
             \/ \E word \in {"mkdir", "rm", "rmdir"} : Check(t, args, word)
      PROVE  FALSE
  BY <1>1 DEF Cd, OpenFails, Download, Overwrite, Create, Check, Opened, Begin, command
<1>2. ASSUME NEW t \in Session,
             \/ Mkdir(t) \/ Rm(t) \/ RmdirStart(t) \/ RmdirFile(t) \/ RmdirSub(t)
             \/ SendPiece(t) \/ CatDone(t) \/ RecvDone(t)
      PROVE  FALSE
  BY <1>2 DEF Mkdir, Rm, RmdirStart, RmdirFile, RmdirSub, SendPiece, CatDone, RecvDone,
     Sends, InCall, Finish, command
<1>3. ASSUME NEW t \in Session,
             \/ Receive(t) \/ Reset(t) \/ Flush(t) \/ FlushFails(t) \/ Die(t) \/ Fork(t)
             \/ Hang(t)
      PROVE  FALSE
  BY <1>3 DEF Receive, Reset, Flush, FlushFails, Die, Fork, Hang, Finish, command
<1>4. ~UNCHANGED vars
  BY DEF vars, command
<1>5. ASSUME NEW t \in Session, RmdirSelf(t) PROVE t = s /\ Callers(s) = <<>>
  BY <1>5 DEF RmdirSelf, Finish, command
<1> QED
  BY <1>1, <1>2, <1>3, <1>4, <1>5 DEF Next, Client, Work

(* An rmdir nobody interferes with removes the directory exactly when its  *)
(* path ends in a name and leads through no directory that it removes.     *)
LEMMA LastCall ==
  ASSUME PathInv, Typed, NEW s \in Session, RmdirSelf(s), Callers(s) = <<>>, Safe(s)
  PROVE  goal[s] \notin Entries' <=> Clear(final[s])
<1> DEFINE v == goal[s]
<1>1. /\ pc[s] = "rmdir" /\ stack[s] # <<>> /\ Top(s).left = <<>>
      /\ dirs' = Removed(Top(s).at) /\ file' = file
  BY DEF RmdirSelf, InCall
<1>2. /\ Shaped /\ Nested(s) /\ IsTree(dirs, file)
      /\ IsPath(final[s]) /\ v = PlaceOf(final[s]) /\ v \in Place
      /\ v \in dirs /\ v \notin DOMAIN file
  BY <1>1, TreeFacts DEF PathInv, Shaped, Directed, Busy, Safe
<1>3. /\ Len(stack[s]) = 1 /\ Top(s) = stack[s][1] /\ Top(s).at = final[s]
  <2>1. /\ Len(stack[s]) \in Nat \ {0} /\ Top(s) = stack[s][Len(stack[s])]
        /\ Len(Callers(s)) = Len(stack[s]) - 1
    BY <1>1, <1>2, TopFacts
  <2>2. Len(Callers(s)) = 0
    OBVIOUS
  <2>3. Len(stack[s]) = 1
    BY <2>1, <2>2
  <2> QED
    BY <1>2, <2>1, <2>3 DEF Nested
<1>4. Walk(final[s]) = IF Way(NodesOf(final[s])) \subseteq dirs THEN {v} ELSE {}
  BY <1>2, PathFacts
<1>5. v \notin Entries' <=>
        /\ Way(NodesOf(final[s])) \subseteq dirs
        /\ LastNode(final[s]) \notin {Dot, DotDot}
        /\ \A q \in Entries : Below(q, v) => q = v
  BY <1>1, <1>2, <1>3, <1>4 DEF Removed, Entries
<1>6. ASSUME Clear(final[s])
      PROVE  /\ Way(NodesOf(final[s])) \subseteq dirs
             /\ \A q \in Entries : Below(q, v) => q = v
  <2>1. Complete(s)
    BY <1>6 DEF Safe
  <2>2. ASSUME NEW q \in Entries, Below(q, v), q # v PROVE FALSE
    <3>1. Covered(s, q)
      BY <1>1, <2>1, <2>2 DEF Complete
    <3>2. PICK i \in 1 .. Len(Rest(s, 1)) : TRUE
      BY <1>3, <3>1 DEF Covered
    <3>3. Len(Rest(s, 1)) = 0
      BY <1>1, <1>3 DEF Rest
    <3> QED
      BY <3>2, <3>3
  <2> QED
    BY <2>1, <2>2 DEF Complete
<1>7. ASSUME Way(NodesOf(final[s])) \subseteq dirs,
             LastNode(final[s]) \notin {Dot, DotDot},
             \A q \in Entries : Below(q, v) => q = v
      PROVE  Clear(final[s])
  BY <1>2, <1>7, ClearIs DEF Entries
<1>8. Clear(final[s]) => LastNode(final[s]) \notin {Dot, DotDot}
  BY DEF Clear
<1> QED
  BY <1>5, <1>6, <1>7, <1>8

(* An rmdir nobody interferes with leaves nothing of a directory whose     *)
(* path it accepted without going up and down again, whatever the          *)
(* directory held, and in whatever order listdir returned its entries.     *)
THEOREM RemovalsAreComplete == Spec => RmdirRemoves
<1> DEFINE Held ==
      \A s \in Session :
        pc[s] = "rmdir" /\ pc'[s] = "idle" /\ <<s, "rmdir">> \notin touched =>
          (goal[s] \notin Entries'
             <=> /\ LastNode(final[s]) \notin {Dot, DotDot}
                 /\ \A p \in Through(final[s]) : Below(p, goal[s]) => p = goal[s])
<1>1. ASSUME PathInv, Typed, RemoveInv, [Next]_vars PROVE Held
  <2> SUFFICES ASSUME NEW s \in Session, pc[s] = "rmdir", pc'[s] = "idle",
                      <<s, "rmdir">> \notin touched
               PROVE  goal[s] \notin Entries'
                        <=> /\ LastNode(final[s]) \notin {Dot, DotDot}
                            /\ \A p \in Through(final[s]) : Below(p, goal[s]) => p = goal[s]
    OBVIOUS
  <2>1. Safe(s) /\ goal[s] = PlaceOf(final[s])
    BY <1>1 DEF RemoveInv, Removing, PathInv, Directed, Busy
  <2>2. RmdirSelf(s) /\ Callers(s) = <<>>
    BY <1>1, EndsRmdir
  <2>3. goal[s] \notin Entries' <=> Clear(final[s])
    BY <1>1, <2>1, <2>2, LastCall
  <2> QED
    BY <2>1, <2>3 DEF Clear
<1>2. PathInv /\ Typed /\ RemoveInv /\ [Next]_vars => [Held]_vars
  BY <1>1
<1> QED
  BY <1>2, PathsInvariance, RemovalInvariance, PTL DEF Spec, RmdirRemoves
=============================================================================
