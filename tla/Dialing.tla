-------------------------------- MODULE Dialing --------------------------------
(***************************************************************************)
(* A process that uses the unp library: the wrappers of module Calls, the  *)
(* functions that go through the addresses of a host until one works, and  *)
(* the two that limit the time connect takes, by SIGALRM and by select.    *)
(*                                                                         *)
(* close succeeds on an open socket and leaves errno alone.  A new socket  *)
(* may be any free descriptor, not only the lowest.  A signal              *)
(* other than SIGALRM interrupts nothing: signal installs its handler with *)
(* SA_RESTART.                                                             *)
(***************************************************************************)
EXTENDS Integers, Sequences, FiniteSets, Calls

CONSTANTS
  FDS,     \* descriptors the process may have
  ADDRS,   \* addresses a host may have
  Called   \* wrappers the process calls

ASSUME DialingAssumption ==
  FDS \in Nat \ {0} /\ ADDRS \in Nat \ {0} /\ Called \subseteq Wrapped

VARIABLES
  pc,      \* the step of the call under way, "idle" or "gone"
  fn,      \* the function or wrapper called
  addrs,   \* what becomes of each address of getaddrinfo's list
  res,     \* the one being tried
  fd,      \* the descriptor being worked on, or 0
  fds,     \* the open descriptors: blocking or not, and before; what it is
  mine,    \* descriptors the caller knows of
  roomy,   \* a descriptor was free when the function was called
  errno,
  why,     \* what went wrong last in the call under way
  soerror, \* SO_ERROR of the socket: what became of its connect
  ret,     \* what the last function returned, "ok" or "error", or how the process ended
  armed,   \* who set the alarm clock: "nobody", "caller" or "timeo"
  disp,    \* disposition of SIGALRM
  saved,   \* sigfunc of connect_timeo
  owned    \* the disposition the caller has chosen

clock == <<armed, disp, saved, owned>>
walk  == <<addrs, res, roomy>>
told  == <<errno, why, ret>>
dial  == <<pc, fn, walk, fd, fds, mine, soerror, told, clock>>

Address == {"unsupported", "refused", "good"}
Lists   == UNION {[1 .. n -> Address] : n \in 1 .. ADDRS}

DialInit ==
  /\ pc = "idle" /\ fn = "none"
  /\ addrs = <<>> /\ res = 0 /\ roomy = FALSE
  /\ fd = 0 /\ fds = <<>> /\ mine = {} /\ soerror = "none"
  /\ errno = "none" /\ why = "none" /\ ret = "ok"
  /\ armed = "nobody" /\ disp = "default" /\ saved = "default" /\ owned = "default"

Free == (1 .. FDS) \ DOMAIN fds

Opened(d, block) ==
  fds' = [x \in DOMAIN fds \cup {d} |->
            IF x = d THEN [block |-> block, before |-> block, is |-> "new"] ELSE fds[x]]
Closed(d) == fds' = [x \in DOMAIN fds \ {d} |-> fds[x]]
Turned(d, what) == fds' = [fds EXCEPT ![d].is = what]

Fails(e) == errno' = e /\ why' = e

(* The call returns to the caller, which starts again with a clean slate.  *)
Returns(what) ==
  /\ pc' = "idle" /\ fn' = "none" /\ ret' = what
  /\ addrs' = <<>> /\ res' = 0 /\ roomy' = FALSE /\ fd' = 0 /\ soerror' = "none"

(* err_sys, err_quit, or a signal that nobody handles.                     *)
Ends(how) ==
  /\ pc' = "gone" /\ ret' = how /\ fn' = "none"
  /\ UNCHANGED <<walk, fd, fds, mine, soerror, clock>>

Calling(name, step, d) ==
  /\ pc = "idle"
  /\ fn' = name /\ pc' = step /\ fd' = d
  /\ why' = "none" /\ ret' = "ok"
  /\ UNCHANGED <<addrs, res, fds, mine, soerror, errno>>

-----------------------------------------------------------------------------
(* The caller.                                                             *)

Socket(block) ==
  /\ pc = "idle"
  /\ \E d \in Free : Opened(d, block) /\ mine' = mine \cup {d}
  /\ UNCHANGED <<pc, fn, walk, fd, soerror, told, clock>>

Close(d) ==
  /\ pc = "idle" /\ d \in mine
  /\ Closed(d) /\ mine' = mine \ {d}
  /\ UNCHANGED <<pc, fn, walk, fd, soerror, told, clock>>

(* An alarm of its own, with a handler installed by signal or to end it.   *)
OwnAlarm(handler) ==
  /\ pc = "idle"
  /\ disp' = handler /\ owned' = handler /\ armed' = "caller"
  /\ UNCHANGED <<pc, fn, walk, fd, fds, mine, soerror, told, saved>>

(* A call of a wrapper, which calls what it wraps until Does says          *)
(* otherwise.                                                              *)
CallWrapper(call) == Calling(call, "call", 0) /\ UNCHANGED <<roomy, clock>>

Wrapper(kind, e) ==
  /\ pc = "call" /\ kind \in Kinds(fn)
  /\ errno' = ErrnoAfter(fn, kind, e, errno)
  /\ why' = Reason(kind, e)
  /\ CASE Does(fn, kind, e) = "again" ->
            UNCHANGED <<pc, fn, walk, fd, fds, mine, soerror, ret, clock>>
       [] Does(fn, kind, e) = "return" ->
            Returns("ok") /\ UNCHANGED <<fds, mine, clock>>
       [] Does(fn, kind, e) \in {"sys", "quit"} -> Ends(Does(fn, kind, e))

-----------------------------------------------------------------------------
(* The functions that try one address after another.  Each gets a socket   *)
(* and does with it                                                        *)
(*   set:  what must work for every address,                               *)
(*   use:  what decides whether the address works,                         *)
(*   then: what must work for the address that did,                        *)
(* and it is that in the end.                                              *)

tcp_listen  == [set |-> {"setsockopt"}, use |-> "bind", then |-> {"listen"},
                is |-> "listening"]
tcp_connect == [set |-> {}, use |-> "connect", then |-> {}, is |-> "up"]
udp_client  == [set |-> {}, use |-> "none", then |-> {"malloc"}, is |-> "new"]
udp_server  == [set |-> {}, use |-> "bind", then |-> {}, is |-> "new"]
udp_connect == [set |-> {}, use |-> "connect", then |-> {}, is |-> "up"]

Walks == [tcp_listen |-> tcp_listen, tcp_connect |-> tcp_connect,
          udp_client |-> udp_client, udp_server |-> udp_server,
          udp_connect |-> udp_connect]

CallWalk(name) ==
  /\ Calling(name, "getaddrinfo", 0)
  /\ roomy' = (Free # {})
  /\ UNCHANGED clock

Getaddrinfo ==
  /\ pc = "getaddrinfo"
  /\ addrs' \in Lists /\ res' = 1
  /\ pc' = "socket"
  /\ UNCHANGED <<fn, roomy, fd, fds, mine, soerror, told, clock>>

NoAddress ==
  /\ pc = "getaddrinfo"
  /\ Ends("quit") /\ UNCHANGED <<errno, why>>

(* res->ai_next, also after the continue of a do-while loop.               *)
NextAddress_GivesUp ==
  /\ pc' = "exhausted"
  /\ UNCHANGED <<fn, walk, mine, soerror, ret, clock>>

NextAddress ==
  /\ IF res = Len(addrs) THEN pc' = "exhausted" /\ UNCHANGED res
     ELSE pc' = "socket" /\ res' = res + 1
  /\ UNCHANGED <<fn, addrs, roomy, mine, soerror, ret, clock>>

GetSocket ==
  /\ pc = "socket" /\ addrs[res] # "unsupported"
  /\ \E d \in Free : fd' = d /\ Opened(d, TRUE)
  /\ pc' = IF Walks[fn].use = "none" THEN "then" ELSE "set"
  /\ UNCHANGED <<fn, walk, mine, soerror, told, clock>>

NoSocket_GoesOn(e) ==
  /\ pc = "socket" /\ (addrs[res] = "unsupported" \/ Free = {})
  /\ Fails(e)
  /\ pc' = "set" /\ UNCHANGED <<fn, walk, fd, fds, mine, soerror, ret, clock>>

NoSocket(e) ==
  /\ pc = "socket" /\ (addrs[res] = "unsupported" \/ Free = {})
  /\ Fails(e)
  /\ NextAddress /\ UNCHANGED <<fd, fds>>

Prepare ==
  /\ pc = "set" /\ pc' = "use"
  /\ UNCHANGED <<fn, walk, fd, fds, mine, soerror, told, clock>>

Works ==
  /\ pc = "use" /\ addrs[res] = "good"
  /\ pc' = "then"
  /\ Turned(fd, Walks[fn].is)
  /\ UNCHANGED <<fn, walk, fd, mine, soerror, told, clock>>

Refused(e) ==
  /\ pc = "use" /\ addrs[res] = "refused"
  /\ Fails(e)
  /\ pc' = "close"
  /\ UNCHANGED <<fn, walk, fd, fds, mine, soerror, ret, clock>>

Dropped_Not(d) == UNCHANGED fds
Dropped(d) == Closed(d)

CloseIt ==
  /\ pc = "close"
  /\ Dropped(fd) /\ fd' = 0
  /\ NextAddress /\ UNCHANGED <<errno, why>>

Exhausted ==
  /\ pc = "exhausted"
  /\ Ends("sys") /\ UNCHANGED <<errno, why>>

(* Setsockopt, Listen and Malloc on the way.                               *)
WrapperFails(e) ==
  /\ \/ pc = "set"  /\ Walks[fn].set # {}
     \/ pc = "then" /\ Walks[fn].then # {}
  /\ Fails(e) /\ Ends("sys")

Dialled ==
  /\ pc = "then"
  /\ Returns("ok") /\ mine' = mine \cup {fd} /\ why' = "none"
  /\ UNCHANGED <<fds, errno, clock>>

-----------------------------------------------------------------------------
(* connect_timeo.                                                          *)

CallTimeo(d) ==
  /\ d \in mine \cap DOMAIN fds /\ fds[d].is = "new"
  /\ Calling("connect_timeo", "signal", d) /\ UNCHANGED <<roomy, clock>>

Install ==
  /\ pc = "signal" /\ pc' = "alarm"
  /\ saved' = disp /\ disp' = "connect_alarm"
  /\ UNCHANGED <<fn, walk, fd, fds, mine, soerror, told, armed, owned>>

(* alarm(nsec), also over an alarm of the caller.                          *)
SetAlarm ==
  /\ pc = "alarm" /\ pc' = "wait"
  /\ armed' = "timeo"
  /\ UNCHANGED <<fn, walk, fd, fds, mine, soerror, told, disp, saved, owned>>

TimeoConnects ==
  /\ pc = "wait" /\ pc' = "disarm"
  /\ Turned(fd, "up")
  /\ UNCHANGED <<fn, walk, fd, mine, soerror, told, clock>>

(* The socket is closed and EINTR becomes ETIMEDOUT.  A socket that was    *)
(* non-blocking before does not wait.                                      *)
Late(e) == IF e = "EINTR" THEN "ETIMEDOUT" ELSE e

TimeoFails(e) ==
  /\ pc = "wait" /\ pc' = "disarm"
  /\ (e = "EINTR") => fds[fd].block
  /\ (e = "EINPROGRESS") => ~fds[fd].block
  /\ why' = (IF e = "EINTR" THEN "late" ELSE e) /\ errno' = Late(e)
  /\ Closed(fd)
  /\ UNCHANGED <<fn, walk, fd, mine, soerror, ret>>

Stopped_Not == armed
Stopped == "nobody"

Disarm ==
  /\ pc = "disarm" /\ pc' = "restore"
  /\ armed' = Stopped
  /\ UNCHANGED <<fn, walk, fd, fds, mine, soerror, told, disp, saved, owned>>

Reinstall ==
  /\ pc = "restore"
  /\ disp' = saved /\ saved' = "default"
  /\ Returns(IF fd \in DOMAIN fds THEN "ok" ELSE "error")
  /\ UNCHANGED <<fds, mine, errno, why, armed, owned>>

-----------------------------------------------------------------------------
(* connect_nonb.                                                           *)

CallNonb(d) ==
  /\ d \in mine \cap DOMAIN fds /\ fds[d].is = "new"
  /\ Calling("connect_nonb", "nonblock", d) /\ UNCHANGED <<roomy, clock>>

Nonblock ==
  /\ pc = "nonblock" /\ pc' = "connect"
  /\ fds' = [fds EXCEPT ![fd].block = FALSE]
  /\ UNCHANGED <<fn, walk, fd, mine, soerror, told, clock>>

NonbConnects ==
  /\ pc = "connect"
  /\ Turned(fd, "up") /\ pc' = "flags"
  /\ UNCHANGED <<fn, walk, fd, mine, soerror, told, clock>>

InProgress ==
  /\ pc = "connect" /\ pc' = "select"
  /\ errno' = "EINPROGRESS"
  /\ UNCHANGED <<fn, walk, fd, fds, mine, soerror, why, ret, clock>>

(* connect or getsockopt fails: the socket stays open, and non-blocking.   *)
NonbFails(e) ==
  /\ pc \in {"connect", "select"}
  /\ Fails(e) /\ Returns("error")
  /\ Turned(fd, "failed")
  /\ UNCHANGED <<mine, clock>>

NonbLate ==
  /\ pc = "select"
  /\ Closed(fd) /\ Returns("error")
  /\ why' = "late" /\ errno' = "ETIMEDOUT"
  /\ UNCHANGED <<mine, clock>>

(* The socket is ready, and SO_ERROR says what became of the connect.      *)
Ready(error) ==
  /\ pc = "select" /\ pc' = "flags"
  /\ soerror' = error
  /\ Turned(fd, IF error = "none" THEN "up" ELSE "failed")
  /\ why' = error
  /\ UNCHANGED <<fn, walk, fd, mine, errno, ret, clock>>

Flags_Later(d) == fds[d].block
Flags(d) == fds[d].before

RestoreFlags ==
  /\ pc = "flags"
  /\ IF soerror = "none"
     THEN /\ fds' = [fds EXCEPT ![fd].block = Flags(fd)]
          /\ Returns("ok") /\ UNCHANGED errno
     ELSE Closed(fd) /\ errno' = soerror /\ Returns("error")
  /\ UNCHANGED <<mine, why, clock>>

-----------------------------------------------------------------------------
(* SIGALRM.                                                                *)

InConnect == pc = "use" /\ Walks[fn].use = "connect"

(* It interrupts the system call the process is in.                        *)
AlarmInterrupts ==
  /\ armed # "nobody" /\ disp # "default"
  /\ armed' = "nobody" /\ UNCHANGED <<disp, saved, owned>>
  /\ \/ /\ InConnect
        /\ Fails("EINTR") /\ pc' = "close"
        /\ UNCHANGED <<fn, walk, fd, fds, mine, soerror, ret>>
     \/ TimeoFails("EINTR")
     \/ /\ pc = "select"
        /\ Fails("EINTR")
        /\ pc' = "gone" /\ ret' = "sys" /\ fn' = "none"
        /\ UNCHANGED <<walk, fd, fds, mine, soerror>>

(* It comes when the process is in none, or just before it makes one.      *)
AlarmPasses ==
  /\ armed # "nobody" /\ disp # "default" /\ pc # "gone"
  /\ armed' = "nobody"
  /\ UNCHANGED <<pc, fn, walk, fd, fds, mine, soerror, told, disp, saved, owned>>

AlarmKills ==
  /\ armed # "nobody" /\ disp = "default" /\ pc # "gone"
  /\ Ends("killed") /\ UNCHANGED <<errno, why>>

-----------------------------------------------------------------------------
Caller ==
  \/ \E block \in BOOLEAN : Socket(block)
  \/ \E d \in 1 .. FDS : Close(d) \/ CallTimeo(d) \/ CallNonb(d)
  \/ \E handler \in {"default", "own"} : OwnAlarm(handler)
  \/ \E call \in Called : CallWrapper(call)
  \/ \E name \in DOMAIN Walks : CallWalk(name)

Walk ==
  \/ Getaddrinfo \/ NoAddress \/ GetSocket \/ Prepare \/ Works \/ CloseIt
  \/ Exhausted \/ Dialled
  \/ \E e \in Error \ {"EINTR"} : NoSocket(e) \/ Refused(e) \/ WrapperFails(e)

Timed ==
  \/ Install \/ SetAlarm \/ TimeoConnects \/ Disarm \/ Reinstall
  \/ Nonblock \/ NonbConnects \/ InProgress \/ NonbLate \/ RestoreFlags
  \/ \E e \in Error \ {"EINTR"} : TimeoFails(e) /\ UNCHANGED clock
  \/ \E e \in Error \ {"EINTR", "EINPROGRESS"} : NonbFails(e) \/ Ready(e)
  \/ Ready("none")

DialNext ==
  \/ Caller \/ Walk \/ Timed
  \/ \E e \in Error : \E kind \in {"done", "part", "nothing", "fail"} : Wrapper(kind, e)
  \/ AlarmInterrupts \/ AlarmPasses \/ AlarmKills

-----------------------------------------------------------------------------
(* Properties.                                                             *)

(* The variables have their types, and every step that uses a descriptor   *)
(* has an open one, although socket may fail for any address.              *)
DialTypeOK ==
  /\ pc \in {"idle", "gone", "call", "getaddrinfo", "socket", "set", "use", "then",
             "close", "exhausted", "signal", "alarm", "wait", "disarm", "restore",
             "nonblock", "connect", "select", "flags"}
  /\ fn \in {"none", "connect_timeo", "connect_nonb"} \cup Wrapped \cup DOMAIN Walks
  /\ res \in 0 .. Len(addrs) /\ addrs \in Lists \cup {<<>>}
  /\ DOMAIN fds \subseteq 1 .. FDS /\ mine \subseteq 1 .. FDS
  /\ fd \in 0 .. FDS
  /\ pc \in {"set", "use", "then", "close", "wait", "nonblock", "connect", "select", "flags"}
       => fd \in DOMAIN fds
  /\ errno \in Error \cup {"none"} /\ armed \in {"nobody", "caller", "timeo"}
  /\ disp \in {"default", "connect_alarm", "own"} /\ saved \in {"default", "own"}
  /\ owned \in {"default", "own"}

(* Whatever fails on the way, the process has no open descriptor that its  *)
(* caller does not know of, except the one it is working on.               *)
NoLeak == DOMAIN fds \subseteq mine \cup {fd}

(* The comments "errno from final socket() or bind()" and the like: when a *)
(* function returns an error, or err_sys prints one, errno is that of what *)
(* went wrong, whatever was called in between.  The exception is Write and *)
(* the Sends after a short count, which leaves errno as it was.            *)
Blame ==
  (pc = "idle" /\ ret = "error" /\ why # "none") \/ (pc = "gone" /\ ret = "sys") =>
    \/ errno = why \/ why = "short"
    \/ why = "late" /\ errno = "ETIMEDOUT"

(* An address is used only if none before it works, and the process gives  *)
(* up only if none works; a free descriptor, and no signal handler of the  *)
(* caller that interrupts connect, provided.                               *)
Usable(k) ==
  addrs[k] = "good" \/ (addrs[k] = "refused" /\ Walks[fn].use = "none")

FirstWorks ==
  fn \in DOMAIN Walks /\ roomy /\ owned = "default" =>
    /\ \A k \in 1 .. res - 1 : ~Usable(k)
    /\ pc = "exhausted" => \A k \in 1 .. Len(addrs) : ~Usable(k)

(* A call leaves the caller's signal handler and the mode of its sockets   *)
(* as they were.  Only connect_nonb may fail without closing or restoring. *)
Restored ==
  pc = "idle" =>
    /\ disp = owned
    /\ \A d \in DOMAIN fds :
         fds[d].is # "failed" => fds[d].block = fds[d].before

(* The alarm of connect_timeo never finds the process without a handler,   *)
(* whenever it goes off.                                                   *)
NotKilled == ret = "killed" => armed = "caller"
=============================================================================
