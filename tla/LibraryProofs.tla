----------------------------- MODULE LibraryProofs -----------------------------
(***************************************************************************)
(* The safety properties of Library, for any number of descriptors and     *)
(* addresses, any set of wrappers called, any length of a line and of what *)
(* is typed.  A step of a program is one of Dialing or one of Stream, whose*)
(* invariants the modules extended prove.                                  *)
(***************************************************************************)
EXTENDS Library, DialingProofs, StreamProofs

Inv == DialInv /\ StreamInv

LEMMA InvInit == Init => Inv
BY DialInvInit, StreamInvInit DEF Init, Inv

LEMMA InvStep == Inv /\ [Next]_<<dial, talk, program>> => Inv'
<1> SUFFICES ASSUME Inv, [Next]_<<dial, talk, program>> PROVE Inv'
  OBVIOUS
<1>1. [DialNext]_dial /\ [StreamNext]_talk
  BY DEF Next
<1>2. DialInv'
  BY <1>1, DialInvStep DEF Inv
<1>3. StreamInv'
  BY <1>1, StreamInvStep DEF Inv
<1> QED
  BY <1>2, <1>3 DEF Inv

THEOREM Invariance == Spec => []Inv
  BY InvInit, InvStep, PTL DEF Spec

(* Every step that uses a descriptor has an open one, and the buffers of   *)
(* the echo client and server keep their bounds.                           *)
THEOREM TypesCorrect == Spec => [](DialTypeOK /\ StreamTypeOK)
<1>1. Inv => DialTypeOK /\ StreamTypeOK
  BY DialInvSays, StreamInvInStep DEF Inv
<1> QED
  BY <1>1, Invariance, PTL

(* No path of tcp_listen, tcp_connect, the udp functions, connect_timeo    *)
(* and connect_nonb loses a descriptor.                                    *)
THEOREM NothingLeaks == Spec => []NoLeak
<1>1. Inv => NoLeak
  BY DialInvSays DEF Inv
<1> QED
  BY <1>1, Invariance, PTL

(* errno is that of what went wrong when err_sys prints it or a caller     *)
(* sees an error, except after a short Write.                              *)
THEOREM ErrnoIsTrue == Spec => []Blame
<1>1. Inv => Blame
  BY DialInvSays DEF Inv
<1> QED
  BY <1>1, Invariance, PTL

(* No address that works is passed over.                                   *)
THEOREM FirstIsTaken == Spec => []FirstWorks
<1>1. Inv => FirstWorks
  BY DialInvSays DEF Inv
<1> QED
  BY <1>1, Invariance, PTL

(* The handler of SIGALRM and the mode of the sockets come back.           *)
THEOREM CallerIsRestored == Spec => []Restored
<1>1. Inv => Restored
  BY DialInvSays DEF Inv
<1> QED
  BY <1>1, Invariance, PTL

(* The alarm of connect_timeo kills no process.                            *)
THEOREM AlarmIsHandled == Spec => []NotKilled
<1>1. Inv => NotKilled
  BY DialInvSays DEF Inv
<1> QED
  BY <1>1, Invariance, PTL

(* The echo client prints what was typed, line by line, however reads and  *)
(* writes are cut.                                                         *)
THEOREM EchoInStep == Spec => []InStep
<1>1. Inv => InStep
  BY StreamInvInStep DEF Inv
<1> QED
  BY <1>1, Invariance, PTL
=============================================================================
