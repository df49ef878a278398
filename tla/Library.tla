-------------------------------- MODULE Library --------------------------------
(***************************************************************************)
(* Programs made of the unp library: a caller of its wrappers and dialling *)
(* functions, or an echo client and server.  The two share no state; a     *)
(* behaviour is one of either.                                             *)
(***************************************************************************)
EXTENDS Dialing, Stream

VARIABLE program   \* "dial" or "echo"

Init == DialInit /\ StreamInit /\ program \in {"dial", "echo"}

Next ==
  /\ UNCHANGED program
  /\ \/ program = "dial" /\ DialNext /\ UNCHANGED talk
     \/ program = "echo" /\ StreamNext /\ UNCHANGED dial

Running(step) == program = "echo" /\ step /\ UNCHANGED <<dial, program>>

(* A process that is not waiting for input runs.                           *)
Spec ==
  /\ Init /\ [][Next]_<<dial, talk, program>>
  /\ WF_<<dial, talk, program>>(Running(ClientStep))
  /\ WF_<<dial, talk, program>>(Running(ServerStep))
=============================================================================
