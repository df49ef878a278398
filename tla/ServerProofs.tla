----------------------------- MODULE ServerProofs -----------------------------
(***************************************************************************)
(* Proofs about Server: the types, the number of processes the master      *)
(* keeps, and that a complete crew never all waits for port 4000.          *)
(***************************************************************************)
EXTENDS Server, FiniteSetTheorems, SequenceTheorems, TLAPS

(* The number of children in every state of the master, and a bound on it  *)
(* when the master has gone.                                               *)
AtMost == Cardinality(Children) <= PROCESSES
Counted == Population /\ AtMost

(* Only a worker in its accept loop has listeners left to accept from.     *)
SeenInAccept == \A p \in Pid : pc[p] # "accept" => seen[p] = {}

(* In a complete crew some worker has somebody to accept on port 4000, if  *)
(* it still has to accept there.                                           *)
Crew ==
  Cardinality(Workers) = PROCESSES =>
    \E w \in Workers : 0 \in seen[w] => backlog[0] # <<>>

IInv == TypeOK /\ Counted /\ SeenInAccept /\ Crew

-----------------------------------------------------------------------------
(* Sizes of the sets of processes.                                         *)

(* A process that is forked or reaped changes the children by one.         *)
LEMMA Bigger ==
  ASSUME NEW S, IsFiniteSet(S), NEW T, NEW p, p \notin S, T = S \cup {p}
  PROVE  IsFiniteSet(T) /\ Cardinality(T) = Cardinality(S) + 1
BY FS_AddElement

LEMMA Smaller ==
  ASSUME NEW S, IsFiniteSet(S), NEW T, NEW p, p \in S, T = S \ {p}
  PROVE  IsFiniteSet(T) /\ Cardinality(T) = Cardinality(S) - 1
BY FS_RemoveElement

(* Children and workers are finite, and the workers are children.          *)
LEMMA Sizes ==
  /\ IsFiniteSet(Children) /\ Cardinality(Children) \in Nat
  /\ IsFiniteSet(Workers) /\ Cardinality(Workers) \in Nat
  /\ Cardinality(Workers) <= Cardinality(Children)
<1>1. Children \subseteq Pid /\ Workers \subseteq Children
  BY DEF Children, Workers
<1>2. IsFiniteSet(Pid)
  BY ServerAssumption
<1>3. IsFiniteSet(Children)
  BY <1>1, <1>2, FS_Subset
<1>4. IsFiniteSet(Workers) /\ Cardinality(Workers) <= Cardinality(Children)
  BY <1>1, <1>3, FS_Subset
<1> QED
  BY <1>3, <1>4, FS_CardinalityType

-----------------------------------------------------------------------------
(* Types.                                                                  *)

(* What the end of a process does to the sockets keeps their types.        *)
LEMMA ClosedType ==
  ASSUME TypeOK, NEW lost, NEW last, Closed(lost, last)
  PROVE  backlog' \in [Listeners -> Seq(Conn)] /\ asking' \subseteq Conn
<1>1. [l \in Listeners |-> <<>>] \in [Listeners -> Seq(Conn)]
  OBVIOUS
<1> QED
  BY <1>1 DEF TypeOK, Closed

(* The end of a process empties its table.                                 *)
LEMMA EndsType ==
  ASSUME TypeOK, NEW p \in Pid, Ends(p), exits' \in 0 .. EXITS
  PROVE  TypeOK'
<1>1. backlog' \in [Listeners -> Seq(Conn)] /\ asking' \subseteq Conn
  BY ClosedType DEF Ends
<1> QED
  BY <1>1 DEF TypeOK, Ends

(* A worker that accepts holds one connection more.                        *)
LEMMA AcceptType ==
  ASSUME TypeOK, NEW p \in Pid, Accept(p)
  PROVE  TypeOK'
<1>1. PICK l \in Listeners :
        /\ Turn(p, l) /\ backlog[l] # <<>>
        /\ held' = [held EXCEPT ![p] = @ \cup {Head(backlog[l])}]
        /\ backlog' = [backlog EXCEPT ![l] = Tail(@)]
        /\ seen' = [seen EXCEPT ![p] = Once(p, l)]
  BY DEF Accept
<1>2. backlog[l] \in Seq(Conn)
  BY DEF TypeOK
<1>3. Head(backlog[l]) \in Conn /\ Tail(backlog[l]) \in Seq(Conn)
  BY <1>1, <1>2
<1>4. backlog' \in [Listeners -> Seq(Conn)]
  BY <1>1, <1>3 DEF TypeOK
<1>5. held' \in [Pid -> SUBSET Conn] /\ seen' \in [Pid -> SUBSET Listeners]
  BY <1>1, <1>3 DEF TypeOK, Once
<1>6. \A q \in Pid : due[q] \subseteq held'[q]
  BY <1>1 DEF TypeOK
<1> QED
  BY <1>4, <1>5, <1>6 DEF TypeOK, Accept

(* A connection that is served stays or leaves.                            *)
LEMMA ServeType ==
  ASSUME TypeOK, NEW p \in Pid, Serve(p)
  PROVE  TypeOK'
<1>1. PICK c \in due[p] :
        /\ due' = [due EXCEPT ![p] = Unserved(p, c)]
        /\ asking' = asking \ {c}
        /\ held' \in {held, [held EXCEPT ![p] = @ \ {c}]}
  BY DEF Serve
<1>2. held' \in [Pid -> SUBSET Conn] /\ due' \in [Pid -> SUBSET Conn]
  BY <1>1 DEF TypeOK, Unserved
<1>3. \A q \in Pid : due'[q] \subseteq held'[q]
  BY <1>1 DEF TypeOK, Unserved
<1> QED
  BY <1>1, <1>2, <1>3 DEF TypeOK, Serve

(* Every step keeps the types.                                             *)
LEMMA TypeStep == TypeOK /\ [Next]_vars => TypeOK'
<1> SUFFICES ASSUME TypeOK, [Next]_vars PROVE TypeOK'
  OBVIOUS
<1> USE ServerAssumption
<1>1. ASSUME NEW p \in Pid, Forked(p) PROVE TypeOK'
  BY <1>1 DEF Forked, Forking, Started, TypeOK
<1>2. CASE ForkFails
  <2>1. backlog' \in [Listeners -> Seq(Conn)] /\ asking' \subseteq Conn
    BY <1>2, ClosedType DEF ForkFails
  <2> QED
    BY <1>2, <2>1 DEF ForkFails, worker, TypeOK
<1>3. CASE Serving
  BY <1>3 DEF Serving, worker, TypeOK
<1>4. ASSUME NEW p \in Pid, Waitpid(p) \/ Adopted(p) PROVE TypeOK'
  BY <1>4 DEF Waitpid, Adopted, Reaped, TypeOK
<1>5. ASSUME NEW p \in Pid, Poll(p) PROVE TypeOK'
  BY <1>5 DEF Poll, Ready, TypeOK
<1>6. ASSUME NEW p \in Pid, Accepted(p) \/ Served(p) PROVE TypeOK'
  BY <1>6 DEF Accepted, Served, TypeOK
<1>7. ASSUME NEW p \in Pid, Exit(p) \/ Overrun(p) PROVE TypeOK'
  <2>1. exits' \in 0 .. EXITS /\ Ends(p)
    BY <1>7 DEF Exit, Overrun, TypeOK
  <2> QED
    BY <2>1, EndsType
<1>8. ASSUME NEW c \in Conn, NEW l \in Listeners, Connect(c, l) PROVE TypeOK'
  <2>1. Append(backlog[l], c) \in Seq(Conn)
    BY DEF TypeOK
  <2> QED
    BY <1>8, <2>1 DEF Connect, worker, TypeOK
<1>9. ASSUME NEW c \in Conn, Ask(c) PROVE TypeOK'
  BY <1>9 DEF Ask, worker, TypeOK
<1>10. CASE UNCHANGED vars
  BY <1>10 DEF vars, worker, TypeOK
<1> QED
  BY <1>1, <1>2, <1>3, <1>4, <1>5, <1>6, <1>7, <1>8, <1>9, <1>10, AcceptType, ServeType
  DEF Next, Parent, Worker, Refused

-----------------------------------------------------------------------------
(* The children of the master.                                             *)

(* Every step keeps the number of children that goes with the state of     *)
(* the master.                                                             *)
LEMMA CountStep == TypeOK /\ Counted /\ [Next]_vars => Counted'
<1> SUFFICES ASSUME TypeOK, Counted, [Next]_vars PROVE Counted'
  OBVIOUS
<1> USE ServerAssumption
<1>0. /\ IsFiniteSet(Children) /\ Cardinality(Children) \in Nat
      /\ forked \in 0 .. PROCESSES
      /\ pc \in [Pid -> {"none", "poll", "accept", "serve", "zombie"}]
  BY Sizes DEF TypeOK
<1>1. ASSUME NEW p \in Pid, Forked(p) PROVE Counted'
  <2>1. Children' = Children \cup {p} /\ p \notin Children
    BY <1>0, <1>1 DEF Forked, Children
  <2>2. Cardinality(Children') = Cardinality(Children) + 1
    BY <1>0, <2>1, Bigger
  <2> QED
    BY <1>0, <1>1, <2>2 DEF Forked, Forking, Started, Counted, Population, AtMost
<1>2. ASSUME NEW p \in Pid, Waitpid(p) \/ Adopted(p) PROVE Counted'
  <2>1. Children' = Children \ {p} /\ p \in Children
    BY <1>0, <1>2 DEF Waitpid, Adopted, Reaped, Children
  <2>2. Cardinality(Children') = Cardinality(Children) - 1
    BY <1>0, <2>1, Smaller
  <2> QED
    BY <1>0, <1>2, <2>2
    DEF Waitpid, Adopted, Reaped, Counted, Population, AtMost
<1>3. CASE ForkFails
  <2>1. Children' = Children /\ master' = "gone"
    BY <1>3 DEF ForkFails, worker, Children
  <2> QED
    BY <1>0, <2>1 DEF Counted, Population, AtMost
<1>4. CASE Serving
  <2>1. Children' = Children
    BY <1>4 DEF Serving, worker, Children
  <2> QED
    BY <1>0, <1>4, <2>1 DEF Serving, Started, Counted, Population, AtMost
<1>5. ASSUME Children' = Children, UNCHANGED <<master, forked>> PROVE Counted'
  BY <1>5 DEF Counted, Population, AtMost
<1>6. ASSUME NEW p \in Pid, Worker(p) \/ Exit(p) \/ Overrun(p) PROVE Counted'
  <2>1. /\ pc[p] # "none" /\ UNCHANGED <<master, forked>>
        /\ \/ UNCHANGED pc
           \/ \E step \in {"poll", "accept", "serve", "zombie"} :
                pc' = [pc EXCEPT ![p] = step]
    BY <1>6 DEF Worker, Poll, Accept, Accepted, Serve, Served, Exit, Overrun, Ends
  <2>2. Children' = Children
    BY <1>0, <2>1 DEF Children
  <2> QED
    BY <1>5, <2>1, <2>2
<1>7. ASSUME UNCHANGED <<master, forked, pc>> PROVE Counted'
  BY <1>5, <1>7 DEF Children
<1>8. ASSUME NEW c \in Conn, Ask(c) \/ Refused(c) \/ \E l \in Listeners : Connect(c, l)
      PROVE  UNCHANGED <<master, forked, pc>>
  BY <1>8 DEF Ask, Refused, Connect, vars, worker
<1>9. CASE UNCHANGED vars
  BY <1>7, <1>9 DEF vars, worker
<1> QED
  BY <1>1, <1>2, <1>3, <1>4, <1>6, <1>7, <1>8, <1>9 DEF Next, Parent

-----------------------------------------------------------------------------
(* The crew.                                                               *)

(* Only accept loops keep listeners.                                       *)
LEMMA SeenStep == TypeOK /\ SeenInAccept /\ [Next]_vars => SeenInAccept'
<1> SUFFICES ASSUME TypeOK, SeenInAccept, [Next]_vars PROVE SeenInAccept'
  OBVIOUS
<1> USE DEF SeenInAccept, TypeOK
<1>1. ASSUME NEW p \in Pid, Forked(p) \/ Waitpid(p) \/ Adopted(p) PROVE SeenInAccept'
  BY <1>1 DEF Forked, Waitpid, Adopted, Reaped
<1>2. ASSUME NEW p \in Pid, Poll(p) PROVE SeenInAccept'
  BY <1>2 DEF Poll
<1>3. ASSUME NEW p \in Pid, Accept(p) PROVE SeenInAccept'
  BY <1>3 DEF Accept, Once
<1>4. ASSUME NEW p \in Pid, Accepted(p) \/ Serve(p) \/ Served(p) PROVE SeenInAccept'
  BY <1>4 DEF Accepted, Serve, Served
<1>5. ASSUME NEW p \in Pid, Exit(p) \/ Overrun(p) PROVE SeenInAccept'
  BY <1>5 DEF Exit, Overrun, Ends
<1>6. CASE UNCHANGED <<pc, seen>>
  BY <1>6
<1>7. ASSUME NEW c \in Conn, Ask(c) \/ Refused(c) \/ \E l \in Listeners : Connect(c, l)
      PROVE  UNCHANGED <<pc, seen>>
  BY <1>7 DEF Ask, Refused, Connect, vars, worker
<1>8. ForkFails \/ Serving \/ UNCHANGED vars => UNCHANGED <<pc, seen>>
  BY DEF ForkFails, Serving, vars, worker
<1> QED
  BY <1>1, <1>2, <1>3, <1>4, <1>5, <1>6, <1>7, <1>8 DEF Next, Parent, Worker

(* The worker that keeps the crew going, through every step.               *)
LEMMA CrewStep ==
  TypeOK /\ Counted /\ SeenInAccept /\ Crew /\ [Next]_vars => Crew'
<1> SUFFICES ASSUME TypeOK, Counted, SeenInAccept, Crew, [Next]_vars,
                    Cardinality(Workers') = PROCESSES
             PROVE  \E w \in Workers' : 0 \in seen'[w] => backlog'[0] # <<>>
  BY DEF Crew
<1> USE ServerAssumption
<1>0. /\ pc \in [Pid -> {"none", "poll", "accept", "serve", "zombie"}]
      /\ seen \in [Pid -> SUBSET Listeners]
      /\ backlog \in [Listeners -> Seq(Conn)] /\ 0 \in Listeners
      /\ IsFiniteSet(Workers) /\ Cardinality(Workers) \in Nat
      /\ Cardinality(Workers) <= PROCESSES
  BY Sizes DEF TypeOK, Counted, AtMost, Listeners
<1> DEFINE Goal == \E w \in Workers' : 0 \in seen'[w] => backlog'[0] # <<>>
<1>1. ASSUME NEW p \in Pid, Forked(p) PROVE Goal
  BY <1>0, <1>1 DEF Forked, Workers, SeenInAccept
<1>2. ASSUME Workers' = Workers, UNCHANGED seen,
             backlog'[0] = backlog[0] \/ backlog'[0] # <<>>
      PROVE  Goal
  BY <1>2 DEF Crew
<1>3. ASSUME NEW p \in Pid, Waitpid(p) \/ Adopted(p) PROVE Goal
  <2>1. Workers' = Workers
    BY <1>0, <1>3 DEF Waitpid, Adopted, Reaped, Workers
  <2> QED
    BY <1>2, <1>3, <2>1 DEF Waitpid, Adopted, Reaped
<1>4. ASSUME NEW p \in Pid, Poll(p) PROVE Goal
  <2>1. Workers' = Workers
    BY <1>0, <1>4 DEF Poll, Workers
  <2>2. PICK w \in Workers : 0 \in seen[w] => backlog[0] # <<>>
    BY <2>1 DEF Crew
  <2>3. 0 \in seen'[w] => backlog'[0] # <<>>
    BY <1>0, <1>4, <2>2 DEF Poll, Ready, Workers
  <2> QED
    BY <2>1, <2>3
<1>5. ASSUME NEW p \in Pid, Accept(p) PROVE Goal
  <2>1. Workers' = Workers /\ p \in Workers
    BY <1>0, <1>5 DEF Accept, Workers
  <2>2. PICK l \in Listeners :
          /\ Turn(p, l)
          /\ backlog' = [backlog EXCEPT ![l] = Tail(@)]
          /\ seen' = [seen EXCEPT ![p] = Once(p, l)]
    BY <1>5 DEF Accept
  <2>3. 0 \notin seen'[p]
    BY <1>0, <2>2 DEF Turn, Once, Listeners
  <2> QED
    BY <2>1, <2>3
<1>6. ASSUME NEW p \in Pid, Accepted(p) \/ Serve(p) \/ Served(p) PROVE Goal
  <2>1. Workers' = Workers
    BY <1>0, <1>6 DEF Accepted, Serve, Served, Workers
  <2> QED
    BY <1>2, <1>6, <2>1 DEF Accepted, Serve, Served
<1>7. ASSUME NEW p \in Pid, Exit(p) \/ Overrun(p) PROVE FALSE
  <2>1. Workers' = Workers \ {p} /\ p \in Workers
    BY <1>0, <1>7 DEF Exit, Overrun, Ends, Workers
  <2>2. Cardinality(Workers') = Cardinality(Workers) - 1
    BY <1>0, <2>1, Smaller
  <2> QED
    BY <1>0, <2>2
<1>8. CASE ForkFails
  <2>1. Workers' = Workers /\ UNCHANGED seen
    BY <1>8 DEF ForkFails, worker, Workers
  <2>2. Workers # {}
    BY <2>1, FS_EmptySet
  <2>3. UNCHANGED backlog
    BY <1>8, <2>2 DEF ForkFails, Closed
  <2> QED
    BY <1>2, <2>1, <2>3
<1>9. CASE Serving \/ UNCHANGED vars
  BY <1>2, <1>9 DEF Serving, vars, worker, Workers
<1>10. ASSUME NEW c \in Conn, Ask(c) \/ Refused(c) PROVE Goal
  BY <1>2, <1>10 DEF Ask, Refused, vars, worker, Workers
<1>11. ASSUME NEW c \in Conn, NEW l \in Listeners, Connect(c, l) PROVE Goal
  <2>1. Workers' = Workers /\ UNCHANGED seen
    BY <1>11 DEF Connect, worker, Workers
  <2>2. backlog'[0] = backlog[0] \/ backlog'[0] = Append(backlog[0], c)
    BY <1>0, <1>11 DEF Connect
  <2>3. Len(Append(backlog[0], c)) = Len(backlog[0]) + 1 /\ Len(backlog[0]) \in Nat
    BY <1>0
  <2>4. Append(backlog[0], c) # <<>>
    BY <2>3, EmptySeq
  <2> QED
    BY <1>2, <2>1, <2>2, <2>4
<1> QED
  BY <1>1, <1>3, <1>4, <1>5, <1>6, <1>7, <1>8, <1>9, <1>10, <1>11
  DEF Next, Parent, Worker

-----------------------------------------------------------------------------
(* The inductive invariant holds at the start.                             *)
LEMMA InitIInv == Init => IInv
<1> SUFFICES ASSUME Init PROVE IInv
  OBVIOUS
<1> USE ServerAssumption
<1>1. IsFiniteSet({}) /\ Cardinality({}) = 0
  BY FS_EmptySet
<1>2. Children = {} /\ Workers = {}
  BY DEF Init, Children, Workers
<1>3. TypeOK
  BY <1>1 DEF Init, TypeOK
<1>4. Counted /\ Crew /\ SeenInAccept
  BY <1>1, <1>2 DEF Init, Counted, Population, AtMost, Crew, SeenInAccept
<1> QED
  BY <1>3, <1>4 DEF IInv

LEMMA NextIInv == IInv /\ [Next]_vars => IInv'
BY TypeStep, CountStep, SeenStep, CrewStep DEF IInv

(* IInv holds in every state of the server.                                *)
THEOREM Invariance == Spec => []IInv
<1> QED
  BY InitIInv, NextIInv, PTL DEF Spec

(* The types; a worker serves only connections that are in its own table.  *)
THEOREM TypeCorrect == Spec => []TypeOK
<1>1. IInv => TypeOK
  BY DEF IInv
<1> QED
  BY <1>1, Invariance, PTL

(* The master always has as many children as it should, for any number of  *)
(* workers, clients and exits.                                             *)
THEOREM PopulationKept == Spec => []Population
<1>1. IInv => Population
  BY DEF IInv, Counted
<1> QED
  BY <1>1, Invariance, PTL

(* A complete crew never all waits in accept for port 4000.                *)
THEOREM NeverAllWait == Spec => []SomeonePolls
<1>1. IInv => SomeonePolls
  BY DEF IInv, Crew, SomeonePolls, Waits, Turn
<1> QED
  BY <1>1, Invariance, PTL
=============================================================================
