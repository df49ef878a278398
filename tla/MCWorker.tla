------------------------------ MODULE MCWorker ------------------------------
(* Instances of Worker for TLC. *)
EXTENDS Worker, TLC

(* Clients that cannot reset their connections are interchangeable. *)
ClientSymmetry == Permutations(Client \ Abrupt)
=============================================================================
