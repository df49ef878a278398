---------------------------- MODULE WorkerProofs ----------------------------
(***************************************************************************)
(* Proofs about Worker, for every number of slots, clients and workers.    *)
(*                                                                         *)
(* None of the invariants is inductive by itself: Covered needs to know    *)
(* where the loop variable is, PolledReadReady needs that two slots never  *)
(* hold the same client, OverrunNeedsTwo needs the free slots to be what   *)
(* emptys counts.  IInv is the conjunction of the parts they rest on.      *)
(***************************************************************************)
EXTENDS Worker, FiniteSetTheorems, TLAPS

InTrigger == pc \in {"read", "reply", "write", "settle"}
InRound   == pc \in {"accept", "overrun", "scan"} \/ InTrigger

(* The loop variable is where the program counter says.                    *)
Position ==
  /\ pc \in {"rearm", "poll", "exited"} => i = 0
  /\ pc = "accept" => i \in 0 .. 2
  /\ pc = "overrun" => i \in Listeners
  /\ pc = "scan" => i \in 2 .. MAX_EVENTS
  /\ InTrigger => i \in Occupied

(* A client has one connection: in one slot, in one backlog, or in none.   *)
OneConnection ==
  /\ \A s, t \in Occupied : fd[s] = fd[t] => s = t
  /\ \A s \in Occupied : \A l \in Listeners : fd[s] \notin backlog[l]
  /\ backlog[0] \cap backlog[1] = {}

(* An error is pending only on a reset connection.                         *)
ErrorIsReset == \A c \in Client : "err" \in sock[c] => "rst" \in sock[c]

(* Every connection but the one being triggered waits for the right event. *)
ArmedAlways ==
  \A s \in Occupied :
    \/ InTrigger /\ i = s
    \/ ~is_end[s] /\ events[s] = IF sending[s] THEN {"WR"} ELSE {"RD"}

(* The slots Trigger(true) may still be called on in this round.           *)
ToVisit(s) ==
  /\ s <= polled
  /\ \/ pc \in {"accept", "overrun"}
     \/ pc = "scan" /\ s >= i
     \/ InTrigger /\ s > i
     \/ pc = "read" /\ s = i

(* Trigger(true) is called for data or an error only.                      *)
ReadForEvent == pc = "read" => revents[i] \cap {"RD", "ERR"} # {}

(* What poll saw on them is still there; it saw nothing on free slots.     *)
ReportsHold ==
  /\ \A s \in Occupied :
       ToVisit(s) /\ revents[s] \cap {"RD", "ERR"} # {} => ~Idle(fd[s])
  /\ pc = "accept" => \A s \in Free : s <= polled => revents[s] = {}

(* A worker listens, and sees new connections, only with a free slot.      *)
RoomToAccept ==
  /\ pc = "poll" => \A l \in Listeners : events[l] \subseteq {"RD"}
                                         /\ ("RD" \in events[l] => Free # {})
  /\ pc = "accept" => \A l \in Listeners : revents[l] \subseteq {"RD"}
  /\ pc = "accept" /\ i = 0 =>
       \A l \in Listeners : "RD" \in revents[l] => Free # {}
  /\ pc = "accept" /\ i = 1 /\ "RD" \in revents[1] =>
       Free # {} \/ "RD" \in revents[0]

(* nready counts the entries of this round that accept has not handled.    *)
Counted ==
  pc = "accept" => /\ polled >= 1
                   /\ nready = Cardinality({k \in i .. polled : revents[k] # {}})

IInv ==
  /\ TypeOK /\ Position /\ OneConnection /\ ErrorIsReset
  /\ EmptysExact /\ Covered /\ ArmedAlways /\ ReportsHold
  /\ RoomToAccept /\ OverrunNeedsTwo /\ Counted /\ ReadForEvent
-----------------------------------------------------------------------------
(* Types.                                                                  *)

LEMMA FiniteRange ==
  ASSUME NEW a \in Int, NEW b \in Int, NEW S \in SUBSET (a .. b)
  PROVE  IsFiniteSet(S) /\ Cardinality(S) \in Nat
<1>1. IsFiniteSet(a .. b)
  BY FS_Interval
<1>2. IsFiniteSet(S)
  BY <1>1, FS_Subset
<1> QED
  BY <1>2, FS_CardinalityType

LEMMA InitTypes == Init => TypeOK /\ Position
BY WorkerAssumption
DEF Init, TypeOK, Position, InTrigger, Slots, Entries, Listeners, Interests, Reports, Conditions

LEMMA WrittenTypes ==
  ASSUME NEW c \in Client, sock \in [Client -> SUBSET Conditions], Written(c)
  PROVE  sock' \in [Client -> SUBSET Conditions]
<1>1. [sock EXCEPT ![c] = @ \cup {"full"}] \in [Client -> SUBSET Conditions]
  BY DEF Conditions
<1> QED
  BY <1>1 DEF Written

LEMMA StepTypes ==
  ASSUME TypeOK, Position, [Next]_vars
  PROVE  TypeOK' /\ Position'
<1> USE WorkerAssumption
    DEF TypeOK, Position, InTrigger, Slots, Entries, Listeners, Interests, Reports,
        Conditions, Occupied, Free, table, round, conns, kernel
<1>0. InTrigger => i \in Slots /\ fd[i] \in Client
  OBVIOUS
<1>1. CASE Environment
  <2>1. PICK c \in Client :
          \/ \E l \in Listeners : Connect(c, l) \/ Steal(c, l)
          \/ Send(c) \/ Shut(c) \/ Reset(c) \/ Drain(c)
    BY <1>1 DEF Environment
  <2>2. \E C \in SUBSET Conditions : sock' = [sock EXCEPT ![c] = C]
    <3>1. sock[c] \in SUBSET Conditions
      OBVIOUS
    <3> QED
      BY <2>1, <3>1 DEF Connect, Steal, Send, Shut, Reset, Drain
  <2>3. \/ UNCHANGED backlog
        \/ \E l \in Listeners : \E C \in SUBSET Client : backlog' = [backlog EXCEPT ![l] = C]
    BY <2>1 DEF Connect, Steal, Send, Shut, Reset, Drain
  <2>4. sock' \in [Client -> SUBSET Conditions] /\ backlog' \in [Listeners -> SUBSET Client]
    <3>1. sock \in [Client -> SUBSET Conditions] /\ backlog \in [Listeners -> SUBSET Client]
      OBVIOUS
    <3> QED
      BY ONLY <2>2, <2>3, <3>1
  <2>5. UNCHANGED <<pc, i, fd, events, maxi, emptys, revents, nready, polled, is_end, sending>>
    BY <1>1 DEF Environment
  <2>6. Position'
    BY ONLY <2>5, Position DEF Position, InTrigger, Occupied, Free
  <2>7. TypeOK'
    BY ONLY <2>4, <2>5, TypeOK DEF TypeOK
  <2> QED
    BY <2>6, <2>7
<1>2. CASE Rearm
  BY <1>2 DEF Rearm, LastUsed, ListenInterest
<1>3. CASE Poll
  <2>1. \A k \in Entries : Stored(k) \in SUBSET Reports
    <3>1. \A k \in Entries : Reported(k) \in SUBSET Reports
      BY DEF Reported, Readiness
    <3> QED
      BY <3>1 DEF Stored
  <2>2. nready' \in Int
    <3> DEFINE Ready == {k \in 0 .. maxi : Reported(k) # {}}
    <3>1. Ready \in SUBSET (0 .. maxi) /\ maxi \in Int
      OBVIOUS
    <3>2. nready' = Cardinality(Ready)
      BY <1>3 DEF Poll
    <3>3. Cardinality(Ready) \in Nat
      BY ONLY <3>1, FiniteRange
    <3> QED
      BY <3>2, <3>3
  <2>3. revents' \in [Entries -> SUBSET Reports]
    BY ONLY <1>3, <2>1 DEF Poll
  <2> QED
    BY <1>3, <2>2, <2>3 DEF Poll
<1>4. CASE NotReady
  BY <1>4 DEF NotReady
<1>5. CASE Accepted
  BY <1>5 DEF Accepted
<1>6. ASSUME NEW c \in Client, Accept(c) PROVE TypeOK' /\ Position'
  BY <1>6 DEF Accept, Taken, FirstFree, Interest, Raised, Handled
<1>7. ASSUME NEW c \in Client, AcceptReset(c) PROVE TypeOK' /\ Position'
  BY <1>7 DEF AcceptReset, Taken, Exit
<1>8. ASSUME NEW c \in Client, Overrun(c) PROVE TypeOK' /\ Position'
  BY <1>8 DEF Overrun, Taken
<1>9. CASE Scanned
  BY <1>9 DEF Scanned
<1>10. CASE Skip
  BY <1>10 DEF Skip, PastLast
<1>11. CASE Visit
  BY <1>11 DEF Visit, PastLast, AfterRead
<1>12. CASE ReadData
  <2>1. sock' \in [Client -> SUBSET Conditions]
    <3>1. [sock EXCEPT ![fd[i]] = @ \ {"data"}] \in [Client -> SUBSET Conditions]
      OBVIOUS
    <3> QED
      BY <1>12, <3>1 DEF ReadData
  <2>2. sending' \in [Slots -> BOOLEAN]
    <3>1. [sending EXCEPT ![i] = TRUE] \in [Slots -> BOOLEAN]
      OBVIOUS
    <3> QED
      BY <1>12, <3>1 DEF ReadData
  <2> QED
    BY <1>12, <2>1, <2>2 DEF ReadData, AfterRead
<1>13. CASE FullBuffer
  BY <1>13 DEF FullBuffer
<1>14. CASE ReadEnd
  BY <1>14, <1>0 DEF ReadEnd, AfterRead
<1>15. CASE Reply
  <2>1. sock' \in [Client -> SUBSET Conditions]
    BY <1>15, <1>0, WrittenTypes DEF Reply
  <2>2. is_end' \in [Slots -> BOOLEAN] /\ sending' \in [Slots -> BOOLEAN]
    BY <1>15, <1>0 DEF Reply
  <2> QED
    BY <1>15, <2>1, <2>2 DEF Reply, AfterRead
<1>16. CASE NothingToWrite
  <2>1. sock' \in [Client -> SUBSET Conditions]
    BY <1>16, <1>0, WrittenTypes DEF NothingToWrite
  <2> QED
    BY <1>16, <2>1 DEF NothingToWrite
<1>17. CASE WriteChunk
  <2>1. sock' \in [Client -> SUBSET Conditions]
    BY <1>17, <1>0, WrittenTypes DEF WriteChunk
  <2> QED
    BY <1>17, <2>1 DEF WriteChunk
<1>18. CASE WriteDone
  <2>1. sock' \in [Client -> SUBSET Conditions]
    BY <1>18, <1>0, WrittenTypes DEF WriteDone
  <2>2. is_end' \in [Slots -> BOOLEAN] /\ sending' \in [Slots -> BOOLEAN]
    BY <1>18, <1>0 DEF WriteDone
  <2> QED
    BY <1>18, <2>1, <2>2 DEF WriteDone
<1>19. CASE WriteFails
  BY <1>19 DEF WriteFails, Exit
<1>20. CASE Close
  BY <1>20 DEF Close, Vacated
<1>21. CASE Keep
  BY <1>21 DEF Keep, Interest
<1>22. CASE Crash
  BY <1>22 DEF Crash, Exit
<1>23. CASE Respawn
  BY <1>23 DEF Respawn
<1>24. CASE UNCHANGED vars
  BY <1>24 DEF vars
<1>25. CASE AcceptFails
  BY <1>25 DEF AcceptFails, Exit
<1> QED
  BY <1>1, <1>2, <1>3, <1>4, <1>5, <1>6, <1>7, <1>8, <1>9, <1>10, <1>11, <1>12,
     <1>13, <1>14, <1>15, <1>16, <1>17, <1>18, <1>19, <1>20, <1>21, <1>22, <1>23, <1>24, <1>25
  DEF Next, Process, Listening, Triggers
-----------------------------------------------------------------------------
(* The steps by what they do to the table of connections.                  *)

Dies == (\E c \in Client : AcceptReset(c)) \/ AcceptFails \/ WriteFails \/ Crash

Inner ==
  \/ Rearm \/ Poll \/ NotReady \/ Accepted \/ Scanned \/ Skip \/ Visit
  \/ ReadData \/ FullBuffer \/ ReadEnd \/ Reply
  \/ NothingToWrite \/ WriteChunk \/ WriteDone \/ Keep

LEMMA StepKinds ==
  ASSUME [Next]_vars
  PROVE  \/ Environment \/ (\E c \in Client : Accept(c) \/ Overrun(c))
         \/ Dies \/ Close \/ Respawn \/ Inner \/ UNCHANGED vars
BY DEF Next, Process, Listening, Triggers, Dies, Inner

LEMMA InnerKeeps == Inner => UNCHANGED <<fd, emptys, backlog>>
BY DEF Inner, Rearm, Poll, NotReady, Accepted, Scanned, Skip, Visit, ReadData, FullBuffer,
       ReadEnd, Reply, NothingToWrite, WriteChunk, WriteDone, Keep,
       table, round, conns, kernel

LEMMA DiesClears ==
  ASSUME TypeOK, Dies
  PROVE  /\ pc' = "exited" /\ Occupied' = {} /\ i' = 0
         /\ \A l \in Listeners : backlog'[l] \subseteq backlog[l]
<1>1. \E C \in SUBSET Client : Exit(C)
  BY DEF Dies, AcceptReset, AcceptFails, WriteFails, Crash
<1>2. \A l \in Listeners : backlog'[l] \subseteq backlog[l]
  BY DEF Dies, AcceptReset, AcceptFails, Taken, WriteFails, Crash, TypeOK
<1> QED
  BY <1>1, <1>2 DEF Exit, Occupied, Free

(* Counting the free slots.                                                *)

LEMMA SlotCount ==
  /\ IsFiniteSet(Slots) /\ Cardinality(Slots) = MAX_EVENTS - 2
  /\ IsFiniteSet(Free) /\ Cardinality(Free) \in Nat
  /\ Cardinality(Free) = 0 <=> Free = {}
<1>1. IsFiniteSet(Slots) /\ Cardinality(Slots) = MAX_EVENTS - 2
  BY FS_Interval, WorkerAssumption DEF Slots
<1>2. IsFiniteSet(Free)
  BY <1>1, FS_Subset DEF Free
<1> QED
  BY <1>1, <1>2, FS_CardinalityType, FS_EmptySet

LEMMA StepEmptys ==
  ASSUME TypeOK, Position, EmptysExact, [Next]_vars
  PROVE  EmptysExact'
<1>1. CASE Environment \/ Inner \/ UNCHANGED vars
  <2>1. UNCHANGED <<fd, emptys>> /\ (pc' # "exited" => pc # "exited")
    BY <1>1, InnerKeeps
    DEF Environment, table, vars, Inner, Rearm, Poll, NotReady, Accepted, Scanned, Skip,
        Visit, ReadData, FullBuffer, ReadEnd, Reply, NothingToWrite, WriteChunk, WriteDone,
        Keep
  <2> QED
    BY <2>1 DEF EmptysExact, Free
<1>2. ASSUME NEW c \in Client, Accept(c) PROVE EmptysExact'
  <2>1. PICK pos \in Slots : FirstFree(pos) /\ fd' = [fd EXCEPT ![pos] = c]
    BY <1>2 DEF Accept
  <2>2. pos \in Free /\ Free' = Free \ {pos}
    BY <2>1, WorkerAssumption DEF FirstFree, Free, TypeOK
  <2>3. Cardinality(Free') = Cardinality(Free) - 1
    BY <2>2, SlotCount, FS_RemoveElement
  <2> QED
    BY <1>2, <2>3 DEF Accept, Taken, EmptysExact
<1>3. ASSUME NEW c \in Client, Overrun(c) PROVE EmptysExact'
  BY <1>3 DEF Overrun, Taken, EmptysExact, Free, table
<1>4. CASE Dies
  BY <1>4, DiesClears DEF EmptysExact
<1>5. CASE Close
  <2>1. i \in Slots /\ i \notin Free /\ Free' = Free \cup {i}
    BY <1>5 DEF Close, Position, InTrigger, Occupied, Free, TypeOK
  <2>2. Cardinality(Free') = Cardinality(Free) + 1
    BY <2>1, SlotCount, FS_AddElement
  <2> QED
    BY <1>5, <2>2 DEF Close, Vacated, EmptysExact
<1>6. CASE Respawn
  <2>1. Free' = Slots
    BY <1>6 DEF Respawn, Free
  <2> QED
    BY <1>6, <2>1, SlotCount DEF Respawn, EmptysExact
<1> QED
  BY <1>1, <1>2, <1>3, <1>4, <1>5, <1>6, StepKinds

(* A connection is in one place.                                           *)

LEMMA StepOneConnection ==
  ASSUME TypeOK, Position, OneConnection, [Next]_vars
  PROVE  OneConnection'
<1> USE DEF OneConnection, Occupied, Free
<1>1. CASE Environment
  <2>1. UNCHANGED fd
    BY <1>1 DEF Environment, table
  <2>2. PICK c \in Client :
          \/ \E l \in Listeners : Connect(c, l) \/ Steal(c, l)
          \/ UNCHANGED backlog
    BY <1>1 DEF Environment, Send, Shut, Reset, Drain
  <2>3. ASSUME NEW l \in Listeners, Connect(c, l) PROVE OneConnection'
    BY <2>1, <2>3 DEF Connect, Attached, Held, TypeOK, Listeners
  <2>4. ASSUME NEW l \in Listeners, Steal(c, l) PROVE OneConnection'
    BY <2>1, <2>4 DEF Steal, TypeOK, Listeners
  <2> QED
    BY <2>1, <2>2, <2>3, <2>4
<1>2. ASSUME NEW c \in Client, Accept(c) PROVE OneConnection'
  <2>1. PICK pos \in Slots : FirstFree(pos) /\ fd' = [fd EXCEPT ![pos] = c]
    BY <1>2 DEF Accept
  <2>2. i \in Listeners /\ c \in backlog[i] /\ backlog' = [backlog EXCEPT ![i] = @ \ {c}]
    BY <1>2 DEF Accept, Taken
  <2> QED
    BY <2>1, <2>2 DEF FirstFree, TypeOK, Listeners
<1>3. ASSUME NEW c \in Client, Overrun(c) PROVE OneConnection'
  BY <1>3 DEF Overrun, Taken, table, TypeOK, Listeners
<1>4. CASE Dies
  BY <1>4, DiesClears DEF Listeners
<1>5. CASE Close
  BY <1>5 DEF Close, TypeOK
<1>6. CASE Respawn
  BY <1>6 DEF Respawn, kernel
<1>7. CASE Inner \/ UNCHANGED vars
  <2>1. UNCHANGED <<fd, backlog>>
    BY <1>7, InnerKeeps DEF vars, table, kernel
  <2> QED
    BY <2>1
<1> QED
  BY <1>1, <1>2, <1>3, <1>4, <1>5, <1>6, <1>7, StepKinds

(* Errors.                                                                 *)

LEMMA StepErrorIsReset ==
  ASSUME TypeOK, Position, ErrorIsReset, [Next]_vars
  PROVE  ErrorIsReset'
<1> USE DEF ErrorIsReset
<1>0. InTrigger => i \in Slots /\ fd[i] \in Client
  BY DEF Position, Occupied, Free, TypeOK
<1>1. CASE Environment
  BY <1>1 DEF Environment, Connect, Send, Shut, Reset, Drain, Steal, TypeOK
<1>2. CASE \E c \in Client : Accept(c) \/ Overrun(c)
  BY <1>2 DEF Accept, Overrun, TypeOK
<1>3. CASE Dies
  BY <1>3 DEF Dies, AcceptReset, AcceptFails, WriteFails, Crash, Exit, TypeOK
<1>4. CASE Close
  BY <1>4, <1>0 DEF Close, TypeOK, InTrigger
<1>5. CASE Respawn \/ UNCHANGED vars
  BY <1>5 DEF Respawn, vars, kernel
<1>6. CASE Inner
  <2>1. CASE UNCHANGED sock
    BY <2>1
  <2>2. CASE ReadData \/ ReadEnd
    BY <2>2, <1>0 DEF ReadData, ReadEnd, TypeOK, InTrigger
  <2>3. CASE Written(fd[i]) /\ InTrigger
    BY <2>3, <1>0 DEF Written, TypeOK
  <2> QED
    BY <1>6, <2>1, <2>2, <2>3
    DEF Inner, Rearm, Poll, NotReady, Accepted, Scanned, Skip, Visit, FullBuffer, Reply,
        NothingToWrite, WriteChunk, WriteDone, Keep, kernel, InTrigger
<1> QED
  BY <1>1, <1>2, <1>3, <1>4, <1>5, <1>6, StepKinds

(* No slot in use is beyond maxi.                                          *)

LEMMA StepCovered ==
  ASSUME TypeOK, Position, Covered, [Next]_vars
  PROVE  Covered'
<1> USE DEF Covered, Occupied, Free
<1>1. CASE Environment
  BY <1>1 DEF Environment, table
<1>2. ASSUME NEW c \in Client, Accept(c) PROVE Covered'
  <2>1. PICK pos \in Slots : fd' = [fd EXCEPT ![pos] = c] /\ maxi' = Raised(pos)
    BY <1>2 DEF Accept
  <2> QED
    BY <2>1 DEF Raised, TypeOK, Slots
<1>3. CASE \E c \in Client : Overrun(c)
  BY <1>3 DEF Overrun, table
<1>4. CASE Dies
  BY <1>4, DiesClears
<1>5. CASE Close
  BY <1>5 DEF Close, TypeOK
<1>6. CASE Respawn
  BY <1>6 DEF Respawn
<1>7. CASE Rearm
  BY <1>7 DEF Rearm, LastUsed, TypeOK
<1>8. CASE (Inner /\ ~Rearm) \/ UNCHANGED vars
  <2>1. UNCHANGED <<fd, maxi>>
    BY <1>8 DEF Inner, Poll, NotReady, Accepted, Scanned, Skip, Visit, ReadData,
       FullBuffer, ReadEnd, Reply, NothingToWrite, WriteChunk, WriteDone, Keep,
       table, vars
  <2> QED
    BY <2>1
<1> QED
  BY <1>1, <1>2, <1>3, <1>4, <1>5, <1>6, <1>7, <1>8, StepKinds

(* What each connection waits for.                                         *)

LEMMA StepArmed ==
  ASSUME TypeOK, Position, ArmedAlways, [Next]_vars
  PROVE  ArmedAlways'
<1> USE DEF ArmedAlways, Occupied, Free, InTrigger
<1>1. CASE Environment \/ UNCHANGED vars
  BY <1>1 DEF Environment, table, conns, vars
<1>2. ASSUME NEW c \in Client, Accept(c) PROVE ArmedAlways'
  <2>1. PICK pos \in Slots :
          /\ fd' = [fd EXCEPT ![pos] = c]
          /\ is_end' = [is_end EXCEPT ![pos] = FALSE]
          /\ sending' = [sending EXCEPT ![pos] = FALSE]
          /\ events' = [events EXCEPT ![pos] = {"RD"}]
    BY <1>2 DEF Accept, Interest
  <2>2. ~InTrigger
    BY <1>2 DEF Accept, Taken
  <2>3. Slots \subseteq Entries
    BY DEF Slots, Entries
  <2> QED
    BY <2>1, <2>2, <2>3 DEF TypeOK
<1>3. CASE \E c \in Client : Overrun(c)
  BY <1>3 DEF Overrun, Taken, table, conns
<1>4. CASE Dies
  BY <1>4, DiesClears
<1>5. CASE Close
  BY <1>5 DEF Close, TypeOK
<1>6. CASE Respawn
  BY <1>6 DEF Respawn
<1>7. CASE Rearm
  BY <1>7 DEF Rearm, conns, Entries, Slots, Listeners
<1>8. CASE Poll \/ NotReady \/ Accepted \/ Scanned \/ Skip \/ Visit \/ FullBuffer
  BY <1>8 DEF Poll, NotReady, Accepted, Scanned, Skip, Visit, FullBuffer, AfterRead,
     table, conns
<1>9. CASE ReadData \/ ReadEnd \/ Reply \/ NothingToWrite \/ WriteChunk \/ WriteDone
  <2>1. /\ UNCHANGED <<i, fd, events>> /\ InTrigger /\ InTrigger'
        /\ \A s \in Slots : s # i => is_end'[s] = is_end[s] /\ sending'[s] = sending[s]
    BY <1>9 DEF ReadData, ReadEnd, Reply, NothingToWrite, WriteChunk, WriteDone,
       AfterRead, table, conns, TypeOK
  <2> QED
    BY <2>1
<1>10. CASE Keep
  <2>1. Slots \subseteq Entries /\ i \in Slots
    BY <1>10 DEF Keep, Position, Slots, Entries
  <2> QED
    BY <1>10, <2>1 DEF Keep, Interest, TypeOK, conns
<1> QED
  BY <1>1, <1>2, <1>3, <1>4, <1>5, <1>6, <1>7, <1>8, <1>9, <1>10, StepKinds DEF Inner

(* What poll reported is there when read is called.                        *)

LEMMA StepReportsHold ==
  ASSUME TypeOK, Position, OneConnection, ErrorIsReset, ReportsHold, [Next]_vars
  PROVE  ReportsHold'
<1> USE DEF ReportsHold, Idle
<1>0. \A s \in Occupied : s \in Slots /\ fd[s] \in Client
  BY DEF Occupied, Free, TypeOK
<1>1. CASE Environment
  <2>1. UNCHANGED <<pc, i, fd, revents, polled>>
    BY <1>1 DEF Environment, table, round
  <2>2. \A s \in Occupied : ~Idle(fd[s]) => ~Idle(fd[s])'
    BY <1>1, <1>0, <2>1 DEF Environment, Connect, Send, Shut, Reset, Drain, Steal,
       Attached, Held, OneConnection, TypeOK
  <2>3. \A s \in Slots : ToVisit(s)' = ToVisit(s)
    BY <2>1 DEF ToVisit, InTrigger
  <2> QED
    BY <1>0, <2>1, <2>2, <2>3 DEF Occupied, Free
<1>2. ASSUME NEW c \in Client, Accept(c) PROVE ReportsHold'
  <2>1. PICK pos \in Slots : pos \in Free /\ fd' = [fd EXCEPT ![pos] = c]
    BY <1>2 DEF Accept, FirstFree
  <2>2. pc = "accept" /\ UNCHANGED <<pc, revents, polled, sock>>
    BY <1>2 DEF Accept, Taken
  <2>3. Free' \subseteq Free /\ \A s \in Occupied' : s # pos => s \in Occupied /\ fd'[s] = fd[s]
    BY <2>1, WorkerAssumption DEF Occupied, Free, TypeOK
  <2>4. \A s \in Slots : ToVisit(s)' = ToVisit(s)
    BY <2>2 DEF ToVisit, InTrigger
  <2>5. pos <= polled => revents[pos] = {}
    BY <2>1, <2>2
  <2> QED
    BY <2>2, <2>3, <2>4, <2>5 DEF Occupied, ToVisit
<1>3. ASSUME NEW c \in Client, Overrun(c) PROVE ReportsHold'
  <2>1. /\ pc = "accept" /\ pc' = "overrun" /\ UNCHANGED <<fd, revents, polled>>
        /\ \A s \in Occupied : sock'[fd[s]] = sock[fd[s]]
    BY <1>3, <1>0 DEF Overrun, Taken, table, round, OneConnection, TypeOK
  <2> QED
    BY <1>0, <2>1 DEF ToVisit, InTrigger, Occupied, Free
<1>4. CASE Dies
  BY <1>4, DiesClears
<1>5. CASE Respawn \/ Rearm \/ Scanned
  BY <1>5 DEF Respawn, Rearm, Scanned, ToVisit, InTrigger
<1>6. CASE Poll
  <2>1. \A s \in Slots : s <= maxi => revents'[s] = Reported(s)
    BY <1>6 DEF Poll, Stored, Slots, Entries
  <2>2. \A s \in Free : Reported(s) = {}
    BY DEF Reported, Occupied, Free, Slots, Listeners
  <2>3. \A s \in Occupied : Reported(s) \cap {"RD", "ERR"} # {} => ~Idle(fd[s])
    BY <1>0 DEF Reported, Readiness, Occupied, Slots, Listeners, ErrorIsReset
  <2>4. polled' = maxi /\ pc' = "accept" /\ UNCHANGED <<fd, sock>>
    BY <1>6 DEF Poll, table, kernel
  <2> QED
    BY <2>1, <2>2, <2>3, <2>4 DEF ToVisit, Occupied, Free
<1>7. CASE NotReady \/ Accepted \/ Skip \/ Visit
  <2>1. UNCHANGED <<fd, revents, polled, sock>> /\ (pc' = "accept" => pc = "accept")
    BY <1>7 DEF NotReady, Accepted, Skip, Visit, AfterRead, table, round, kernel
  <2>2. \A s \in Slots : revents[s] \cap {"RD", "ERR"} # {} /\ ToVisit(s)' => ToVisit(s)
    BY <1>7 DEF NotReady, Accepted, Skip, Visit, AfterRead, ToVisit, InTrigger, round,
       Position, Slots, TypeOK
  <2> QED
    BY <1>0, <2>1, <2>2 DEF Occupied, Free
<1>8. CASE ReadData \/ FullBuffer \/ ReadEnd \/ Reply \/ NothingToWrite \/ WriteChunk
           \/ WriteDone
  <2>1. /\ UNCHANGED <<i, fd, revents, polled>>
        /\ InTrigger /\ pc' \in {"reply", "write", "settle"}
        /\ \A c \in Client : c # fd[i] => sock'[c] = sock[c]
    BY <1>8 DEF ReadData, FullBuffer, ReadEnd, Reply, NothingToWrite, WriteChunk,
       WriteDone, AfterRead, Written, InTrigger, table, round, kernel, TypeOK
  <2>2. \A s \in Occupied : ToVisit(s)' => ToVisit(s) /\ s # i
    BY <2>1 DEF ToVisit, InTrigger, Occupied, Slots, TypeOK
  <2> QED
    BY <1>0, <2>1, <2>2 DEF Occupied, Free, Position, OneConnection
<1>9. CASE Close \/ Keep
  <2>1. i \in Occupied /\ InTrigger
    BY <1>9 DEF Close, Keep, Position, InTrigger
  <2>2. /\ pc' = "scan" /\ i' = i + 1 /\ UNCHANGED <<revents, polled>>
        /\ \A s \in Slots : s # i => fd'[s] = fd[s]
        /\ \A c \in Client : c # fd[i] => sock'[c] = sock[c]
    BY <1>9 DEF Close, Keep, round, kernel, TypeOK
  <2>3. \A s \in Slots : ToVisit(s)' => ToVisit(s) /\ s # i
    BY <2>1, <2>2 DEF ToVisit, InTrigger, Occupied, Slots
  <2> QED
    BY <1>0, <2>1, <2>2, <2>3 DEF Occupied, Free, OneConnection
<1>10. CASE UNCHANGED vars
  BY <1>10 DEF vars, table, round, kernel, ToVisit, InTrigger, Occupied, Free
<1> QED
  BY <1>1, <1>2, <1>3, <1>4, <1>5, <1>6, <1>7, <1>8, <1>9, <1>10, StepKinds DEF Inner

(* A worker with no free slot sees no new connection.                      *)

LEMMA StepRoomToAccept ==
  ASSUME TypeOK, Position, EmptysExact, RoomToAccept, [Next]_vars
  PROVE  RoomToAccept'
<1> USE DEF RoomToAccept
<1>1. CASE Environment \/ UNCHANGED vars
  BY <1>1 DEF Environment, table, round, vars, Free
<1>2. ASSUME NEW c \in Client, Accept(c) PROVE RoomToAccept'
  BY <1>2 DEF Accept, Taken, Position
<1>3. CASE Dies
  BY <1>3, DiesClears
<1>4. CASE Rearm
  <2>1. /\ pc' = "poll" /\ UNCHANGED fd
        /\ \A l \in Listeners : events'[l] = ListenInterest
    BY <1>4, WorkerAssumption DEF Rearm, Listeners, Entries, table
  <2>2. emptys # 0 => Free # {}
    BY <1>4, SlotCount DEF Rearm, EmptysExact
  <2> QED
    BY <2>1, <2>2 DEF ListenInterest, Free
<1>5. CASE Poll
  <2>1. pc = "poll" /\ pc' = "accept" /\ i' = 0 /\ UNCHANGED fd
    BY <1>5 DEF Poll, Position, table
  <2>2. \A l \in Listeners : revents'[l] \subseteq events[l]
    BY <1>5, WorkerAssumption
    DEF Poll, Stored, Reported, Listeners, Entries, TypeOK, Occupied, Free, Slots
  <2> QED
    BY <2>1, <2>2 DEF Listeners, Free
<1>6. CASE NotReady
  BY <1>6 DEF NotReady, table, round, Free, Listeners, TypeOK
<1>7. CASE \/ \E c \in Client : Overrun(c)
           \/ Close \/ Respawn \/ (Inner /\ ~Rearm /\ ~Poll /\ ~NotReady)
  <2>1. pc' # "poll" /\ pc' # "accept"
    BY <1>7 DEF Overrun, Close, Respawn, Inner, Accepted, Scanned, Skip, Visit, ReadData,
       FullBuffer, ReadEnd, Reply, NothingToWrite, WriteChunk, WriteDone, Keep, AfterRead
  <2> QED
    BY <2>1
<1> QED
  BY <1>1, <1>2, <1>3, <1>4, <1>5, <1>6, <1>7, StepKinds

LEMMA StepOverrun ==
  ASSUME Position, RoomToAccept, OverrunNeedsTwo, [Next]_vars
  PROVE  OverrunNeedsTwo'
<1> USE DEF OverrunNeedsTwo
<1>1. ASSUME NEW c \in Client, Overrun(c) PROVE OverrunNeedsTwo'
  BY <1>1 DEF Overrun, Taken, RoomToAccept, Position, Listeners, table, round
<1>2. CASE Environment \/ UNCHANGED vars
  BY <1>2 DEF Environment, round, vars
<1>3. CASE (\E c \in Client : Accept(c)) \/ Dies \/ Close \/ Respawn \/ Inner
  <2>1. pc' # "overrun"
    BY <1>3
    DEF Accept, Taken, Dies, AcceptReset, AcceptFails, WriteFails, Crash, Exit, Close, Respawn,
        Inner, Rearm, Poll, NotReady, Accepted, Scanned, Skip, Visit, ReadData, FullBuffer,
        ReadEnd, Reply, NothingToWrite, WriteChunk, WriteDone, Keep, AfterRead
  <2> QED
    BY <2>1
<1> QED
  BY <1>1, <1>2, <1>3, StepKinds

(* What nready counts.                                                     *)

LEMMA StepCounted ==
  ASSUME TypeOK, Position, RoomToAccept, Counted, [Next]_vars
  PROVE  Counted'
<1> USE DEF Counted
<1>1. CASE Environment \/ UNCHANGED vars
  BY <1>1 DEF Environment, round, vars
<1>2. CASE Poll
  <2> DEFINE Ready == {k \in 0 .. maxi : Reported(k) # {}}
  <2>1. /\ pc' = "accept" /\ i' = 0 /\ polled' = maxi /\ nready' = Cardinality(Ready)
    BY <1>2 DEF Poll, Position
  <2>2. \A k \in 0 .. maxi : revents'[k] = Reported(k)
    BY <1>2, WorkerAssumption DEF Poll, Stored, Entries, TypeOK
  <2>3. Ready = {k \in i' .. polled' : revents'[k] # {}}
    BY <2>1, <2>2
  <2>4. polled' >= 1
    BY <2>1 DEF TypeOK
  <2> HIDE DEF Ready
  <2> QED
    BY <2>1, <2>3, <2>4
<1>3. CASE NotReady \/ \E c \in Client : Accept(c)
  <2> DEFINE Ready == {k \in i .. polled : revents[k] # {}}
             Rest  == {k \in i + 1 .. polled : revents[k] # {}}
  <2>1. /\ pc = "accept" /\ i \in Listeners /\ i' = i + 1 /\ UNCHANGED <<revents, polled>>
    BY <1>3 DEF NotReady, Accept, Taken, round
  <2>2. IsFiniteSet(Ready) /\ Cardinality(Ready) \in Nat /\ polled >= 1
    <3>1. Ready \in SUBSET (i .. polled) /\ i \in Int /\ polled \in Int
      BY <2>1 DEF Listeners, TypeOK
    <3> HIDE DEF Ready
    <3> QED
      BY <2>1, <3>1, FiniteRange
  <2>3. CASE NotReady
    <3>1. revents[i] = {}
      BY <2>1, <2>3 DEF NotReady, RoomToAccept
    <3>2. Rest = Ready
      BY <2>1, <3>1 DEF Listeners, TypeOK
    <3> QED
      BY <2>1, <2>2, <2>3, <3>2 DEF NotReady, round
  <2>4. CASE \E c \in Client : Accept(c)
    <3>1. i \in Ready /\ nready' = nready - 1
      BY <2>1, <2>2, <2>4 DEF Accept, Taken, Handled, Listeners, TypeOK
    <3>2. Rest = Ready \ {i}
      BY <2>1 DEF Listeners, TypeOK
    <3>3. Cardinality(Rest) = Cardinality(Ready) - 1
      BY <2>2, <3>1, <3>2, FS_RemoveElement
    <3> QED
      BY <2>1, <2>2, <3>1, <3>3
  <2> QED
    BY <1>3, <2>3, <2>4
<1>4. CASE \/ \E c \in Client : Overrun(c)
           \/ Dies \/ Close \/ Respawn \/ (Inner /\ ~Poll /\ ~NotReady)
  <2>1. pc' # "accept"
    BY <1>4
    DEF Overrun, Dies, AcceptReset, AcceptFails, WriteFails, Crash, Exit, Close, Respawn, Inner, Rearm,
        Accepted, Scanned, Skip, Visit, ReadData, FullBuffer, ReadEnd, Reply,
        NothingToWrite, WriteChunk, WriteDone, Keep, AfterRead
  <2> QED
    BY <2>1
<1> QED
  BY <1>1, <1>2, <1>3, <1>4, StepKinds

(* Why Trigger(true) is called.                                            *)

LEMMA StepReadForEvent ==
  ASSUME ReadForEvent, [Next]_vars
  PROVE  ReadForEvent'
<1> USE DEF ReadForEvent
<1>1. CASE Visit
  BY <1>1 DEF Visit, AfterRead, round
<1>2. CASE Environment \/ UNCHANGED vars
  BY <1>2 DEF Environment, round, vars
<1>3. CASE \/ \E c \in Client : Accept(c) \/ Overrun(c)
           \/ Dies \/ Close \/ Respawn \/ (Inner /\ ~Visit)
  <2>1. pc' # "read"
    BY <1>3
    DEF Accept, Taken, Overrun, Dies, AcceptReset, AcceptFails, WriteFails, Crash, Exit, Close, Respawn,
        Inner, Rearm, Poll, NotReady, Accepted, Scanned, Skip, ReadData, FullBuffer,
        ReadEnd, Reply, NothingToWrite, WriteChunk, WriteDone, Keep, AfterRead
  <2> QED
    BY <2>1
<1> QED
  BY <1>1, <1>2, <1>3, StepKinds

-----------------------------------------------------------------------------
(* The invariant, and what follows from it.                                *)

LEMMA InitIInv == Init => IInv
<1> SUFFICES ASSUME Init PROVE IInv
  OBVIOUS
<1>1. Free = Slots /\ Occupied = {}
  BY DEF Init, Free, Occupied
<1>2. EmptysExact
  BY <1>1, SlotCount DEF Init, EmptysExact
<1> QED
  BY <1>1, <1>2, InitTypes
  DEF Init, IInv, OneConnection, ErrorIsReset, Covered, ArmedAlways, ReportsHold,
      RoomToAccept, OverrunNeedsTwo, Counted, ReadForEvent, Listeners

LEMMA StepIInv == IInv /\ [Next]_vars => IInv'
BY StepTypes, StepOneConnection, StepErrorIsReset, StepEmptys, StepCovered, StepArmed,
   StepReportsHold, StepRoomToAccept, StepOverrun, StepCounted, StepReadForEvent
DEF IInv

LEMMA IInvImplies ==
  IInv => /\ TypeOK /\ EmptysExact /\ Covered /\ Armed
          /\ PolledReadReady /\ SkipsNothing /\ OverrunNeedsTwo
<1> SUFFICES ASSUME IInv PROVE Armed /\ PolledReadReady /\ SkipsNothing
  BY DEF IInv
<1>1. Armed
  BY DEF IInv, Armed, ArmedAlways, InTrigger
<1>2. PolledReadReady
  <2> SUFFICES ASSUME pc = "read", i <= polled PROVE ~Idle(fd[i])
    BY DEF PolledReadReady
  <2>1. i \in Occupied /\ ToVisit(i)
    BY DEF IInv, Position, InTrigger, ToVisit
  <2>2. revents[i] \cap {"RD", "ERR"} # {}
    BY DEF IInv, ReadForEvent
  <2> QED
    BY <2>1, <2>2 DEF IInv, ReportsHold
<1>3. SkipsNothing
  <2> SUFFICES ASSUME pc = "accept", i = 2, nready = 0, NEW s \in Slots, s <= polled
               PROVE  revents[s] = {}
    BY DEF SkipsNothing
  <2> DEFINE Ready == {k \in i .. polled : revents[k] # {}}
  <2>1. Ready \in SUBSET (i .. polled) /\ i \in Int /\ polled \in Int
    BY DEF IInv, TypeOK
  <2>2. Cardinality(Ready) = 0
    BY DEF IInv, Counted
  <2>3. s \in i .. polled
    BY DEF Slots, IInv, TypeOK
  <2>4. Ready = {}
    <3> HIDE DEF Ready
    <3> QED
      BY <2>1, <2>2, FiniteRange, FS_EmptySet
  <2> QED
    BY <2>3, <2>4
<1> QED
  BY <1>1, <1>2, <1>3

(* The inductive invariant holds in every reachable state.                 *)
THEOREM Invariance == Spec => []IInv
BY InitIInv, StepIInv, PTL DEF Spec

(* Every variable of Progress keeps its type: in particular the slot chosen *)
(* for a new connection and maxi stay inside fds.                          *)
THEOREM TypeCorrect == Spec => []TypeOK
BY Invariance, IInvImplies, PTL

(* emptys, on which a worker decides to listen, is always the number of    *)
(* free slots of a running worker.                                         *)
THEOREM EmptysCounts == Spec => []EmptysExact
BY Invariance, IInvImplies, PTL

(* Every open connection is within the entries poll and the scan cover,    *)
(* and waits for the event that can move it.                               *)
THEOREM NoneForgotten == Spec => [](Covered /\ Armed)
BY Invariance, IInvImplies, PTL

(* What poll reported on the slots it covered is there when read is called, *)
(* and a round that returns to poll early leaves none of it unhandled.     *)
THEOREM ReportsAreHandled == Spec => [](PolledReadReady /\ SkipsNothing)
BY Invariance, IInvImplies, PTL

(* Only the second accept of one round can run out of slots.               *)
THEOREM OverrunIsSecond == Spec => []OverrunNeedsTwo
BY Invariance, IInvImplies, PTL

(* A worker alone on its sockets never waits in accept.                    *)
THEOREM AcceptAloneFinds ==
  ASSUME PROCESSES = 1
  PROVE  Spec => []AcceptFinds
<1> DEFINE Found == pc = "accept" =>
             \A l \in Listeners : l >= i /\ "RD" \in revents[l] => backlog[l] # {}
<1>1. Init => Found
  BY DEF Init
<1>2. ASSUME TypeOK, Position, Found, [Next]_vars PROVE Found'
  <2>1. CASE Environment
    BY <1>2, <2>1 DEF Environment, Connect, Send, Shut, Reset, Drain, Steal, round, TypeOK
  <2>2. ASSUME NEW c \in Client, Accept(c) PROVE Found'
    BY <1>2, <2>2 DEF Accept, Taken, Listeners, TypeOK
  <2>3. CASE Poll
    <3>1. \A l \in Listeners : revents'[l] = Reported(l)
      BY <1>2, <2>3, WorkerAssumption DEF Poll, Stored, Listeners, Entries, TypeOK
    <3>2. \A l \in Listeners : "RD" \in Reported(l) => backlog[l] # {}
      BY DEF Reported, Listeners, Occupied, Free, Slots
    <3> QED
      BY <1>2, <2>3, <3>1, <3>2 DEF Poll, kernel
  <2>4. CASE NotReady \/ UNCHANGED vars
    BY <1>2, <2>4 DEF NotReady, round, kernel, vars, Listeners
  <2>5. CASE \/ \E c \in Client : Overrun(c)
             \/ Dies \/ Close \/ Respawn \/ (Inner /\ ~Poll /\ ~NotReady)
    <3>1. pc' # "accept"
      BY <2>5
      DEF Overrun, Dies, AcceptReset, AcceptFails, WriteFails, Crash, Exit, Close, Respawn, Inner,
          Rearm, Accepted, Scanned, Skip, Visit, ReadData, FullBuffer, ReadEnd, Reply,
          NothingToWrite, WriteChunk, WriteDone, Keep, AfterRead
    <3> QED
      BY <3>1
  <2> QED
    BY <1>2, <2>1, <2>2, <2>3, <2>4, <2>5, StepKinds
<1>3. IInv /\ Found /\ [Next]_vars => Found'
  BY <1>2 DEF IInv
<1>4. TypeOK /\ Found => AcceptFinds
  BY DEF AcceptFinds, TypeOK, Listeners
<1>5. IInv => TypeOK
  BY IInvImplies
<1> HIDE DEF Found
<1> QED
  BY <1>1, <1>3, <1>4, <1>5, Invariance, PTL DEF Spec

=============================================================================
