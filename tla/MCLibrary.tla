------------------------------- MODULE MCLibrary -------------------------------
(* Instances of Library for TLC. *)
EXTENDS Library

(* A wrapper of each kind.                                                 *)
MCCalled ==
  {"accept", "write", "read", "sysconf", "inet_pton", "mkstemp", "cond_wait",
   "join", "fgets", "fcntl"}
=============================================================================
