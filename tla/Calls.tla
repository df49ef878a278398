--------------------------------- MODULE Calls ---------------------------------
(***************************************************************************)
(* The wrappers of the unp library around one call each: which results     *)
(* they take for a failure, what they do then, and what errno says.        *)
(*                                                                         *)
(* A call does what it was asked to ("done"), a part of it ("part"), finds *)
(* nothing ("nothing": the end of a file, a string that is no address, a   *)
(* limit that is not set), or fails with an error number ("fail").         *)
(***************************************************************************)

(* Error numbers that something depends on, and one for all others.        *)
Error == {"EINTR", "ETIMEDOUT", "EINPROGRESS", "ECONNABORTED", "EPROTO", "EOTHER"}

(* wrapsock.c.                                                             *)
SocketNames  == {"bind", "connect", "getpeername", "getsockname", "getsockopt"}
RoutingCalls == {"inet6_rth_space", "inet6_rth_init", "inet6_rth_add",
                 "inet6_rth_reverse", "inet6_rth_segments", "inet6_rth_getaddr"}
ReceiveCalls == {"listen", "poll", "recv", "recvfrom", "recvmsg", "select"}
SendCalls    == {"send", "sendto", "sendmsg"}
SocketCalls  == {"setsockopt", "shutdown", "sockatmark", "socketpair"}

(* wrapunix.c.                                                             *)
FileCalls    == {"calloc", "dup2", "fcntl", "gettimeofday", "ioctl", "fork",
                 "malloc", "mkstemp", "mmap", "open", "pipe", "read"}
SignalCalls  == {"sigaddset", "sigdelset", "sigemptyset", "sigfillset",
                 "sigismember", "sigpending", "sigprocmask"}
ProcessCalls == {"strdup", "sysconf", "sysctl", "unlink", "wait", "waitpid"}

(* wrappthread.c, whose functions return the error number.                 *)
ThreadCalls ==
  {"create", "join", "detach", "kill", "mutexattr_init",
   "mutexattr_setpshared", "mutex_init", "mutex_lock", "mutex_unlock"}
CondCalls ==
  {"cond_broadcast", "cond_signal", "cond_wait", "cond_timedwait", "once",
   "key_create", "setspecific"}

(* wrapstdio.c and wraplib.c.                                              *)
StdioCalls == {"fclose", "fdopen", "fgets", "fopen", "fputs"}
NameCalls  == {"inet_ntop", "inet_pton"}

Wrapped ==
  {"accept", "write"} \cup SocketNames \cup RoutingCalls \cup ReceiveCalls
    \cup SendCalls \cup SocketCalls \cup FileCalls \cup SignalCalls
    \cup ProcessCalls \cup ThreadCalls \cup CondCalls \cup StdioCalls \cup NameCalls

(* The results a call may have.                                            *)
Kinds(call) ==
  {"done", "fail"}
    \cup {k \in {"part"} : call \in SendCalls \cup {"write", "read", "recv"}}
    \cup {k \in {"nothing"} : call \in {"fgets", "read", "recv", "inet_pton", "sysconf"}}

(* What the wrapper does: return, call again, or exit through err_sys,     *)
(* which prints errno, or err_quit, which does not.                        *)
Retried == {"ECONNABORTED", "EPROTO"}
Exact   == SendCalls \cup {"write"}

Does(call, kind, e) ==
  CASE kind = "done" -> "return"
    [] kind = "part" -> IF call \in Exact THEN "sys" ELSE "return"
    [] kind = "nothing" ->
         (IF call = "inet_pton" THEN "quit" ELSE IF call = "sysconf" THEN "sys" ELSE "return")
    [] kind = "fail" ->
         (IF call = "accept" /\ e \in Retried THEN "again"
          ELSE IF call \in RoutingCalls \cup {"mkstemp"} THEN "quit" ELSE "sys")

(* errno after the wrapper, if it was old before: a call sets it when it   *)
(* fails, the wrappers of the pthread functions do so themselves, and      *)
(* Sysconf clears it first.                                                *)
ErrnoAfter_Unset(call, kind, e, old) ==
  IF kind = "fail" /\ call \notin ThreadCalls \cup CondCalls THEN e
  ELSE IF call = "sysconf" THEN "none" ELSE old

ErrnoAfter(call, kind, e, old) ==
  IF kind = "fail" THEN e ELSE IF call = "sysconf" THEN "none" ELSE old

(* What went wrong, for err_sys to name.                                   *)
Reason(kind, e) ==
  CASE kind = "fail" -> e [] kind = "part" -> "short" [] OTHER -> "none"
=============================================================================
