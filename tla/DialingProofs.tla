----------------------------- MODULE DialingProofs -----------------------------
(***************************************************************************)
(* Proofs about Dialing, for any number of descriptors and addresses: no   *)
(* descriptor is lost, the alarm clock finds its handler, the caller gets  *)
(* back its handler and the mode of its sockets, no address that works is  *)
(* passed over, and errno tells what went wrong.                           *)
(***************************************************************************)
EXTENDS Dialing, SequenceTheorems, TLAPS

WalkSteps == {"getaddrinfo", "socket", "set", "use", "then", "close", "exhausted"}
Armed     == {"alarm", "wait", "disarm", "restore"}
NonbSteps == {"nonblock", "connect", "select", "flags"}

Sock == [block : BOOLEAN, before : BOOLEAN,
         is : {"new", "up", "listening", "failed"}]

(* What the functions keep true of their steps and descriptors.            *)
Typed ==
  /\ DialTypeOK
  /\ fds \in [DOMAIN fds -> Sock]
  /\ soerror \in Error \cup {"none"}
  /\ pc \notin Armed \cup {"gone"} => disp \in {"default", "own"}
  /\ pc \in WalkSteps => fn \in DOMAIN Walks
  /\ pc \in {"idle", "gone"} => fn = "none"
  /\ pc \in {"call"} \cup Armed \cup NonbSteps \cup {"signal"} =>
       fn \in {"connect_timeo", "connect_nonb"} \cup Wrapped
  /\ pc \in {"set", "use", "close"} => Walks[fn].use # "none"
  /\ pc \in {"signal", "alarm"} => fd \in DOMAIN fds
  /\ pc \in {"socket", "set", "use", "then", "close", "exhausted"} =>
       res \in 1 .. Len(addrs)
  /\ pc \in {"idle", "call", "getaddrinfo", "signal"} \cup Armed \cup NonbSteps =>
       res = 0

(* Whose the open descriptors are.                                         *)
Kept ==
  /\ NoLeak
  /\ pc \in {"idle", "call", "getaddrinfo", "socket", "exhausted"} =>
       DOMAIN fds \subseteq mine
  /\ pc \in {"signal"} \cup Armed \cup NonbSteps => fd \in mine

(* Where the caller's handler is, and whose the alarm can be.              *)
Clock ==
  /\ pc \in Armed => disp = "connect_alarm" /\ saved = owned
  /\ pc \notin Armed => disp = owned
  /\ armed = "timeo" => pc \in {"wait", "disarm"}
  /\ NotKilled
  /\ ret = "killed" => pc = "gone"

(* Only connect_nonb has a socket in another mode, while it uses it.       *)
Modes ==
  /\ pc # "gone" =>
       \A d \in DOMAIN fds :
         \/ fds[d].is = "failed"
         \/ fds[d].block = fds[d].before
         \/ d = fd /\ pc \in {"connect", "select", "flags"}
  /\ pc \in {"set", "use", "signal", "alarm", "wait"} => fds[fd].is = "new"

(* The addresses passed over do not work.                                  *)
Tried ==
  fn \in DOMAIN Walks /\ roomy /\ owned = "default" =>
    /\ \A k \in 1 .. res - 1 : ~Usable(k)
    /\ pc \in {"getaddrinfo", "socket"} => Free # {}
    /\ pc = "close" => addrs[res] = "refused"
    /\ pc = "exhausted" => \A k \in 1 .. Len(addrs) : ~Usable(k)

(* errno is that of what went wrong, until somebody is told.               *)
Named ==
  \/ errno = why \/ why = "short"
  \/ why = "late" /\ errno = "ETIMEDOUT"

Blamed ==
  /\ Blame
  /\ pc \in {"disarm", "restore"} /\ fd \notin DOMAIN fds => Named
  /\ pc \in {"close", "exhausted"} => errno = why
  /\ soerror = "none" \/ pc = "gone" \/ (pc = "flags" /\ soerror = why)

DialInv == Typed /\ Kept /\ Clock /\ Modes /\ Tried /\ Blamed

-----------------------------------------------------------------------------
(* The walks, and that their names are those of no wrapper.                *)
LEMMA WalkNames ==
  /\ DOMAIN Walks = {"tcp_listen", "tcp_connect", "udp_client", "udp_server", "udp_connect"}
  /\ DOMAIN Walks \cap ({"none", "connect_timeo", "connect_nonb"} \cup Wrapped) = {}
  /\ \A name \in DOMAIN Walks :
       /\ Walks[name].use \in {"none", "bind", "connect"}
       /\ Walks[name].is \in {"new", "up", "listening"}
<1>1. DOMAIN Walks = {"tcp_listen", "tcp_connect", "udp_client", "udp_server", "udp_connect"}
  BY DEF Walks
<1>2. DOMAIN Walks \cap ({"none", "connect_timeo", "connect_nonb"} \cup Wrapped) = {}
  BY <1>1 DEF Wrapped, SocketNames, RoutingCalls, ReceiveCalls, SendCalls, SocketCalls,
     FileCalls, SignalCalls, ProcessCalls, ThreadCalls, CondCalls, StdioCalls, NameCalls
<1>3. \A name \in DOMAIN Walks :
        /\ Walks[name].use \in {"none", "bind", "connect"}
        /\ Walks[name].is \in {"new", "up", "listening"}
  BY <1>1 DEF Walks, tcp_listen, tcp_connect, udp_client, udp_server, udp_connect
<1> QED
  BY <1>1, <1>2, <1>3

(* What becomes of the table of descriptors.                               *)
LEMMA OpenedType ==
  ASSUME Typed, NEW d \in Free, NEW block \in BOOLEAN, Opened(d, block)
  PROVE  /\ DOMAIN fds' = DOMAIN fds \cup {d} /\ DOMAIN fds' \subseteq 1 .. FDS
         /\ fds' \in [DOMAIN fds' -> Sock]
         /\ \A x \in DOMAIN fds : fds'[x] = fds[x]
         /\ fds'[d].block = fds'[d].before /\ fds'[d].is = "new"
BY DEF Typed, DialTypeOK, Opened, Free, Sock

LEMMA ClosedType ==
  ASSUME Typed, NEW d, Closed(d)
  PROVE  /\ DOMAIN fds' = DOMAIN fds \ {d} /\ DOMAIN fds' \subseteq 1 .. FDS
         /\ fds' \in [DOMAIN fds' -> Sock]
         /\ \A x \in DOMAIN fds' : fds'[x] = fds[x]
BY DEF Typed, DialTypeOK, Closed

LEMMA TurnedType ==
  ASSUME Typed, NEW d \in DOMAIN fds, NEW what \in {"new", "up", "listening", "failed"},
         Turned(d, what)
  PROVE  /\ DOMAIN fds' = DOMAIN fds
         /\ fds' \in [DOMAIN fds' -> Sock]
         /\ \A x \in DOMAIN fds \ {d} : fds'[x] = fds[x]
         /\ fds'[d].is = what
         /\ fds'[d].block = fds[d].block /\ fds'[d].before = fds[d].before
BY DEF Typed, Turned, Sock

LEMMA BlockType ==
  ASSUME Typed, NEW d \in DOMAIN fds, NEW block \in BOOLEAN,
         fds' = [fds EXCEPT ![d].block = block]
  PROVE  /\ DOMAIN fds' = DOMAIN fds
         /\ fds' \in [DOMAIN fds' -> Sock]
         /\ \A x \in DOMAIN fds \ {d} : fds'[x] = fds[x]
         /\ fds'[d].is = fds[d].is
         /\ fds'[d].block = block /\ fds'[d].before = fds[d].before
BY DEF Typed, Sock

-----------------------------------------------------------------------------
(* Types.                                                                  *)

(* The caller's own steps.                                                 *)
LEMMA CallerTyped == Typed /\ Caller => Typed'
<1> SUFFICES ASSUME Typed, Caller PROVE Typed'
  OBVIOUS
<1> USE DEF told, walk, clock
<1>1. ASSUME NEW block \in BOOLEAN, Socket(block) PROVE Typed'
  <2>1. PICK d \in Free : Opened(d, block) /\ mine' = mine \cup {d}
    BY <1>1 DEF Socket
  <2>2. /\ DOMAIN fds' = DOMAIN fds \cup {d} /\ DOMAIN fds' \subseteq 1 .. FDS
        /\ fds' \in [DOMAIN fds' -> Sock]
    BY <2>1, OpenedType
  <2> QED
    BY <1>1, <2>1, <2>2 DEF Socket, Free, Typed, DialTypeOK
<1>2. ASSUME NEW d \in 1 .. FDS, Close(d) PROVE Typed'
  <2>1. DOMAIN fds' \subseteq 1 .. FDS /\ fds' \in [DOMAIN fds' -> Sock]
    BY <1>2, ClosedType DEF Close
  <2> QED
    BY <1>2, <2>1 DEF Close, Typed, DialTypeOK, WalkSteps, Armed, NonbSteps
<1>3. ASSUME NEW d \in 1 .. FDS, CallTimeo(d) \/ CallNonb(d) PROVE Typed'
  BY <1>3 DEF CallTimeo, CallNonb, Calling, Typed, DialTypeOK, WalkSteps, Armed, NonbSteps
<1>4. ASSUME NEW handler \in {"default", "own"}, OwnAlarm(handler) PROVE Typed'
  BY <1>4 DEF OwnAlarm, Typed, DialTypeOK, WalkSteps, Armed, NonbSteps
<1>5. ASSUME NEW call \in Called, CallWrapper(call) PROVE Typed'
  <2>1. call \in Wrapped /\ 0 \in 0 .. FDS
    BY DialingAssumption
  <2> QED
    BY <1>5, <2>1 DEF CallWrapper, Calling, Typed, DialTypeOK, WalkSteps, Armed, NonbSteps
<1>6. ASSUME NEW name \in DOMAIN Walks, CallWalk(name) PROVE Typed'
  <2>1. 0 \in 0 .. FDS
    BY DialingAssumption
  <2> QED
    BY <1>6, <2>1 DEF CallWalk, Calling, Typed, DialTypeOK, WalkSteps, Armed, NonbSteps
<1> QED
  BY <1>1, <1>2, <1>3, <1>4, <1>5, <1>6 DEF Caller

(* The call returns, or the process ends.                                  *)
LEMMA ReturnsTyped ==
  ASSUME Typed, NEW what, Returns(what),
         fds' \in [DOMAIN fds' -> Sock], DOMAIN fds' \subseteq 1 .. FDS,
         mine' \subseteq 1 .. FDS, errno' \in Error \cup {"none"},
         armed' \in {"nobody", "caller", "timeo"},
         disp' \in {"default", "own"},
         saved' \in {"default", "own"}, owned' \in {"default", "own"}
  PROVE  Typed'
<1>1. 0 \in 0 .. FDS /\ Len(<<>>) = 0 /\ 0 \in 0 .. 0
  BY DialingAssumption
<1>2. res' \in 0 .. Len(addrs') /\ addrs' \in Lists \cup {<<>>}
  BY <1>1 DEF Returns
<1>3. /\ pc' = "idle" /\ fn' = "none" /\ res' = 0 /\ fd' \in 0 .. FDS
      /\ soerror' = "none"
  BY <1>1 DEF Returns
<1> QED
  BY <1>2, <1>3 DEF Typed, DialTypeOK, WalkSteps, Armed, NonbSteps

LEMMA EndsTyped ==
  ASSUME Typed, NEW how, Ends(how), errno' \in Error \cup {"none"}
  PROVE  Typed'
BY DEF Ends, walk, clock, Typed, DialTypeOK, WalkSteps, Armed, NonbSteps

(* The steps through the addresses of a host.                              *)
LEMMA NextAddressTyped ==
  ASSUME Typed, NextAddress, pc \in {"socket", "close"},
         fds' \in [DOMAIN fds' -> Sock], DOMAIN fds' \subseteq 1 .. FDS,
         fd' \in 0 .. FDS, errno' \in Error \cup {"none"}
  PROVE  Typed'
<1>1. res \in 1 .. Len(addrs) /\ Len(addrs) \in Nat
  <2>1. res \in 1 .. Len(addrs) /\ addrs \in Lists
    BY DEF Typed, DialTypeOK
  <2>2. \A list \in Lists : Len(list) \in Nat
    BY DialingAssumption DEF Lists
  <2> QED
    BY <2>1, <2>2
<1>2. res' \in 1 .. Len(addrs') /\ pc' \in {"socket", "exhausted"}
  BY <1>1 DEF NextAddress, walk
<1>3. UNCHANGED <<fn, addrs, roomy, mine, soerror, ret, clock>>
  BY DEF NextAddress, walk
<1>4. res' \in 0 .. Len(addrs')
  BY <1>2
<1> QED
  BY <1>2, <1>3, <1>4 DEF Typed, DialTypeOK, WalkSteps, Armed, NonbSteps, clock

LEMMA WalkTyped == Typed /\ Walk => Typed'
<1> SUFFICES ASSUME Typed, Walk PROVE Typed'
  OBVIOUS
<1> USE DEF told, clock
<1>1. CASE Getaddrinfo
  <2>1. PICK n \in 1 .. ADDRS : addrs' \in [1 .. n -> Address]
    BY <1>1 DEF Getaddrinfo, Lists
  <2>2. Len(addrs') = n /\ n \in Nat
    BY <2>1, DialingAssumption
  <2>3. 1 \in 1 .. Len(addrs') /\ 1 \in 0 .. Len(addrs')
    BY <2>2
  <2> QED
    BY <1>1, <2>3 DEF Getaddrinfo, Typed, DialTypeOK, WalkSteps, Armed, NonbSteps
<1>2. CASE NoAddress \/ Exhausted
  BY <1>2, EndsTyped DEF NoAddress, Exhausted, Typed, DialTypeOK
<1>3. CASE GetSocket
  <2>1. PICK d \in Free : fd' = d /\ Opened(d, TRUE)
    BY <1>3 DEF GetSocket
  <2>2. /\ DOMAIN fds' = DOMAIN fds \cup {d} /\ DOMAIN fds' \subseteq 1 .. FDS
        /\ fds' \in [DOMAIN fds' -> Sock]
    BY <2>1, OpenedType
  <2>3. d \in 0 .. FDS /\ d \in 1 .. FDS
    BY DialingAssumption DEF Free
  <2> QED
    BY <1>3, <2>1, <2>2, <2>3
    DEF GetSocket, walk, Typed, DialTypeOK, WalkSteps, Armed, NonbSteps
<1>4. CASE Prepare
  <2>1. Walks[fn].use # "none"
    BY <1>4 DEF Prepare, Typed, WalkSteps
  <2> QED
    BY <1>4, <2>1 DEF Prepare, walk, Typed, DialTypeOK, WalkSteps, Armed, NonbSteps
<1>5. CASE Works
  <2>1. fd \in DOMAIN fds /\ Walks[fn].is \in {"new", "up", "listening"}
    BY <1>5, WalkNames DEF Works, Typed, DialTypeOK, WalkSteps
  <2>2. DOMAIN fds' = DOMAIN fds /\ fds' \in [DOMAIN fds' -> Sock]
    BY <1>5, <2>1, TurnedType DEF Works
  <2> QED
    BY <1>5, <2>2 DEF Works, walk, Typed, DialTypeOK, WalkSteps, Armed, NonbSteps
<1>6. CASE CloseIt
  <2>1. DOMAIN fds' \subseteq 1 .. FDS /\ fds' \in [DOMAIN fds' -> Sock]
    BY <1>6, ClosedType DEF CloseIt, Dropped
  <2>2. fd' \in 0 .. FDS /\ errno' \in Error \cup {"none"}
    BY <1>6, DialingAssumption DEF CloseIt, Typed, DialTypeOK
  <2> QED
    BY <1>6, <2>1, <2>2, NextAddressTyped DEF CloseIt
<1>7. CASE Dialled
  <2>1. mine' \subseteq 1 .. FDS
    BY <1>7 DEF Dialled, Typed, DialTypeOK
  <2> QED
    BY <1>7, <2>1, ReturnsTyped DEF Dialled, Typed, DialTypeOK, Armed
<1>8. ASSUME NEW e \in Error \ {"EINTR"}, NoSocket(e) PROVE Typed'
  <2>1. pc = "socket" /\ NextAddress /\ UNCHANGED <<fds, fd>> /\ errno' = e
    BY <1>8 DEF NoSocket, Fails
  <2>2. /\ fds' \in [DOMAIN fds' -> Sock] /\ DOMAIN fds' \subseteq 1 .. FDS
        /\ fd' \in 0 .. FDS
    BY <2>1 DEF Typed, DialTypeOK
  <2> QED
    BY <2>1, <2>2, NextAddressTyped
<1>9. ASSUME NEW e \in Error \ {"EINTR"}, Refused(e) PROVE Typed'
  BY <1>9 DEF Refused, Fails, walk, Typed, DialTypeOK, WalkSteps, Armed, NonbSteps
<1>10. ASSUME NEW e \in Error \ {"EINTR"}, WrapperFails(e) PROVE Typed'
  BY <1>10, EndsTyped DEF WrapperFails, Fails
<1> QED
  BY <1>1, <1>2, <1>3, <1>4, <1>5, <1>6, <1>7, <1>8, <1>9, <1>10 DEF Walk

(* The steps of connect_timeo and of connect_nonb.                         *)
LEMMA TimedTyped == Typed /\ Timed => Typed'
<1> SUFFICES ASSUME Typed, Timed PROVE Typed'
  OBVIOUS
<1> USE DEF told, clock
<1>1. CASE Install
  <2>1. saved' \in {"default", "own"}
    BY <1>1 DEF Install, Typed, Armed
  <2> QED
    BY <1>1, <2>1 DEF Install, walk, Typed, DialTypeOK, WalkSteps, Armed, NonbSteps
<1>2. CASE SetAlarm
  BY <1>2 DEF SetAlarm, walk, Typed, DialTypeOK, WalkSteps, Armed, NonbSteps
<1>3. CASE TimeoConnects
  <2>1. fd \in DOMAIN fds
    BY <1>3 DEF TimeoConnects, Typed, DialTypeOK
  <2>2. DOMAIN fds' = DOMAIN fds /\ fds' \in [DOMAIN fds' -> Sock]
    BY <1>3, <2>1, TurnedType DEF TimeoConnects
  <2> QED
    BY <1>3, <2>2 DEF TimeoConnects, walk, Typed, DialTypeOK, WalkSteps, Armed, NonbSteps
<1>4. CASE Disarm
  BY <1>4 DEF Disarm, Stopped, walk, Typed, DialTypeOK, WalkSteps, Armed, NonbSteps
<1>5. CASE Reinstall
  BY <1>5, ReturnsTyped DEF Reinstall, Typed, DialTypeOK, Armed
<1>6. CASE Nonblock
  <2>1. fd \in DOMAIN fds
    BY <1>6 DEF Nonblock, Typed, DialTypeOK
  <2>2. DOMAIN fds' = DOMAIN fds /\ fds' \in [DOMAIN fds' -> Sock]
    BY <1>6, <2>1, BlockType DEF Nonblock
  <2> QED
    BY <1>6, <2>2 DEF Nonblock, walk, Typed, DialTypeOK, WalkSteps, Armed, NonbSteps
<1>7. CASE NonbConnects
  <2>1. fd \in DOMAIN fds
    BY <1>7 DEF NonbConnects, Typed, DialTypeOK
  <2>2. DOMAIN fds' = DOMAIN fds /\ fds' \in [DOMAIN fds' -> Sock]
    BY <1>7, <2>1, TurnedType DEF NonbConnects
  <2> QED
    BY <1>7, <2>2 DEF NonbConnects, walk, Typed, DialTypeOK, WalkSteps, Armed, NonbSteps
<1>8. CASE InProgress
  BY <1>8 DEF InProgress, Error, walk, Typed, DialTypeOK, WalkSteps, Armed, NonbSteps
<1>9. CASE NonbLate
  <2>1. DOMAIN fds' \subseteq 1 .. FDS /\ fds' \in [DOMAIN fds' -> Sock]
    BY <1>9, ClosedType DEF NonbLate
  <2> QED
    BY <1>9, <2>1, ReturnsTyped DEF NonbLate, Error, Typed, DialTypeOK, Armed
<1>10. CASE RestoreFlags
  <2>1. fd \in DOMAIN fds /\ fds[fd].before \in BOOLEAN
    BY <1>10 DEF RestoreFlags, Typed, DialTypeOK, Sock
  <2>2. DOMAIN fds' \subseteq 1 .. FDS /\ fds' \in [DOMAIN fds' -> Sock]
    BY <1>10, <2>1, BlockType, ClosedType DEF RestoreFlags, Flags, Typed, DialTypeOK
  <2>3. errno' \in Error \cup {"none"}
    BY <1>10 DEF RestoreFlags, Typed, DialTypeOK
  <2>4. \E what : Returns(what)
    BY <1>10 DEF RestoreFlags
  <2> QED
    BY <1>10, <2>2, <2>3, <2>4, ReturnsTyped DEF RestoreFlags, Typed, DialTypeOK, Armed
<1>11. ASSUME NEW e \in Error \ {"EINTR"}, TimeoFails(e) /\ UNCHANGED clock PROVE Typed'
  <2>1. DOMAIN fds' \subseteq 1 .. FDS /\ fds' \in [DOMAIN fds' -> Sock]
    BY <1>11, ClosedType DEF TimeoFails
  <2>2. errno' \in Error \cup {"none"}
    BY <1>11 DEF TimeoFails, Late, Error
  <2> QED
    BY <1>11, <2>1, <2>2 DEF TimeoFails, walk, Typed, DialTypeOK, WalkSteps, Armed, NonbSteps
<1>12. ASSUME NEW e \in Error \ {"EINTR", "EINPROGRESS"}, NonbFails(e) PROVE Typed'
  <2>1. fd \in DOMAIN fds
    BY <1>12 DEF NonbFails, Typed, DialTypeOK
  <2>2. DOMAIN fds' = DOMAIN fds /\ fds' \in [DOMAIN fds' -> Sock]
    BY <1>12, <2>1, TurnedType DEF NonbFails
  <2> QED
    BY <1>12, <2>2, ReturnsTyped DEF NonbFails, Fails, Typed, DialTypeOK, Armed
<1>13. ASSUME NEW e \in Error \cup {"none"}, Ready(e) PROVE Typed'
  <2>1. fd \in DOMAIN fds
    BY <1>13 DEF Ready, Typed, DialTypeOK
  <2>2. DOMAIN fds' = DOMAIN fds /\ fds' \in [DOMAIN fds' -> Sock]
    BY <1>13, <2>1, TurnedType DEF Ready
  <2> QED
    BY <1>13, <2>2 DEF Ready, walk, Typed, DialTypeOK, WalkSteps, Armed, NonbSteps
<1> QED
  BY <1>1, <1>2, <1>3, <1>4, <1>5, <1>6, <1>7, <1>8, <1>9, <1>10, <1>11, <1>12, <1>13
  DEF Timed

(* The steps of a wrapper, and the signal.                                 *)
LEMMA WrapperTyped ==
  ASSUME Typed, NEW e \in Error, NEW kind \in {"done", "part", "nothing", "fail"},
         Wrapper(kind, e)
  PROVE  Typed'
<1>1. errno' \in Error \cup {"none"}
  BY DEF Wrapper, ErrnoAfter, Typed, DialTypeOK, Error
<1>2. CASE Does(fn, kind, e) = "again"
  BY <1>1, <1>2
  DEF Wrapper, walk, clock, Typed, DialTypeOK, WalkSteps, Armed, NonbSteps
<1>3. CASE Does(fn, kind, e) = "return"
  <2>1. pc = "call" /\ Returns("ok") /\ UNCHANGED <<fds, mine, clock>>
    BY <1>3 DEF Wrapper
  <2> QED
    BY <1>1, <2>1, ReturnsTyped DEF clock, Typed, DialTypeOK, Armed
<1>4. CASE Does(fn, kind, e) \in {"sys", "quit"}
  <2>1. Ends(Does(fn, kind, e))
    BY <1>4 DEF Wrapper
  <2> QED
    BY <1>1, <2>1, EndsTyped
<1>5. Does(fn, kind, e) \in {"again", "return", "sys", "quit"}
  BY DEF Does
<1> QED
  BY <1>2, <1>3, <1>4, <1>5

LEMMA SignalTyped ==
  Typed /\ (AlarmInterrupts \/ AlarmPasses \/ AlarmKills) => Typed'
<1> SUFFICES ASSUME Typed, AlarmInterrupts \/ AlarmPasses \/ AlarmKills PROVE Typed'
  OBVIOUS
<1> USE DEF told
<1>1. CASE AlarmKills
  BY <1>1, EndsTyped DEF AlarmKills, Typed, DialTypeOK
<1>2. CASE AlarmPasses
  BY <1>2 DEF AlarmPasses, walk, Typed, DialTypeOK, WalkSteps, Armed, NonbSteps
<1>3. CASE AlarmInterrupts
  <2>1. /\ armed' \in {"nobody", "caller", "timeo"}
        /\ UNCHANGED <<disp, saved, owned>>
    BY <1>3 DEF AlarmInterrupts
  <2>2. CASE InConnect /\ Fails("EINTR") /\ pc' = "close"
             /\ UNCHANGED <<fn, walk, fd, fds, mine, soerror, ret>>
    BY <2>1, <2>2
    DEF InConnect, Fails, Error, walk, Typed, DialTypeOK, WalkSteps, Armed, NonbSteps
  <2>3. CASE TimeoFails("EINTR")
    <3>1. DOMAIN fds' \subseteq 1 .. FDS /\ fds' \in [DOMAIN fds' -> Sock]
      BY <2>3, ClosedType DEF TimeoFails
    <3>2. errno' \in Error \cup {"none"}
      BY <2>3 DEF TimeoFails, Late, Error
    <3> QED
      BY <2>1, <2>3, <3>1, <3>2
      DEF TimeoFails, walk, Typed, DialTypeOK, WalkSteps, Armed, NonbSteps
  <2>4. CASE pc = "select" /\ Fails("EINTR") /\ pc' = "gone" /\ fn' = "none"
             /\ UNCHANGED <<walk, fd, fds, mine, soerror>>
    BY <2>1, <2>4
    DEF Fails, Error, walk, Typed, DialTypeOK, WalkSteps, Armed, NonbSteps
  <2> QED
    BY <1>3, <2>2, <2>3, <2>4 DEF AlarmInterrupts
<1> QED
  BY <1>1, <1>2, <1>3

LEMMA TypedStep == Typed /\ DialNext => Typed'
BY CallerTyped, WalkTyped, TimedTyped, WrapperTyped, SignalTyped DEF DialNext

-----------------------------------------------------------------------------
(* No descriptor is lost.                                                  *)

LEMMA KeptStep == Typed /\ Kept /\ DialNext => Kept'
<1> SUFFICES ASSUME Typed, Kept, DialNext PROVE Kept'
  OBVIOUS
<1> USE DEF NoLeak
<1>1. ASSUME NEW block \in BOOLEAN, Socket(block) PROVE Kept'
  <2>1. PICK d \in Free : Opened(d, block) /\ mine' = mine \cup {d}
    BY <1>1 DEF Socket
  <2>2. DOMAIN fds' = DOMAIN fds \cup {d}
    BY <2>1, OpenedType
  <2> QED
    BY <1>1, <2>1, <2>2 DEF Socket, Kept, Armed, NonbSteps
<1>2. ASSUME NEW d, Close(d) PROVE Kept'
  BY <1>2, ClosedType DEF Close, Kept, Armed, NonbSteps
<1>3. ASSUME NEW d, CallTimeo(d) \/ CallNonb(d) PROVE Kept'
  BY <1>3 DEF CallTimeo, CallNonb, Calling, Kept, Armed, NonbSteps
<1>4. CASE \/ \E handler \in {"default", "own"} : OwnAlarm(handler)
           \/ \E call \in Called : CallWrapper(call)
           \/ \E name \in DOMAIN Walks : CallWalk(name)
  BY <1>4 DEF OwnAlarm, CallWrapper, CallWalk, Calling, Kept, Armed, NonbSteps
<1>5. CASE Caller
  BY <1>1, <1>2, <1>3, <1>4, <1>5 DEF Caller
<1>6. CASE Walk
  <2>1. CASE Getaddrinfo \/ Prepare \/ \E e \in Error \ {"EINTR"} : Refused(e)
    BY <2>1 DEF Getaddrinfo, Prepare, Refused, Kept, Armed, NonbSteps
  <2>2. CASE NoAddress \/ Exhausted \/ \E e \in Error \ {"EINTR"} : WrapperFails(e)
    BY <2>2 DEF NoAddress, Exhausted, WrapperFails, Ends, Kept, Armed, NonbSteps
  <2>3. CASE GetSocket
    <3>1. PICK d \in Free : fd' = d /\ Opened(d, TRUE)
      BY <2>3 DEF GetSocket
    <3>2. DOMAIN fds' = DOMAIN fds \cup {d}
      BY <3>1, OpenedType
    <3> QED
      BY <2>3, <3>1, <3>2 DEF GetSocket, Kept, Armed, NonbSteps
  <2>4. CASE \E e \in Error \ {"EINTR"} : NoSocket(e)
    BY <2>4 DEF NoSocket, NextAddress, Kept, Armed, NonbSteps
  <2>5. CASE CloseIt
    <3>1. DOMAIN fds' = DOMAIN fds \ {fd} /\ mine' = mine /\ pc' \in {"socket", "exhausted"}
      BY <2>5, ClosedType DEF CloseIt, Dropped, NextAddress
    <3> QED
      BY <3>1 DEF Kept, Armed, NonbSteps
  <2>6. CASE Works
    <3>1. DOMAIN fds' = DOMAIN fds
      BY <2>6, WalkNames, TurnedType DEF Works, Typed, DialTypeOK, WalkSteps
    <3> QED
      BY <2>6, <3>1 DEF Works, Kept, Armed, NonbSteps
  <2>7. CASE Dialled
    BY <2>7 DEF Dialled, Returns, Kept, Armed, NonbSteps
  <2> QED
    BY <1>6, <2>1, <2>2, <2>3, <2>4, <2>5, <2>6, <2>7 DEF Walk
<1>7. CASE Timed
  <2>1. CASE Install \/ SetAlarm \/ Disarm \/ InProgress
    BY <2>1 DEF Install, SetAlarm, Disarm, InProgress, Kept, Armed, NonbSteps
  <2>2. CASE Reinstall
    BY <2>2 DEF Reinstall, Returns, Kept, Armed, NonbSteps
  <2>3. CASE NonbLate
    BY <2>3, ClosedType DEF NonbLate, Returns, Kept, Armed, NonbSteps
  <2>4. CASE \E e \in Error \ {"EINTR"} : TimeoFails(e)
    BY <2>4, ClosedType DEF TimeoFails, Kept, Armed, NonbSteps
  <2>5. CASE RestoreFlags
    <3>1. fd \in DOMAIN fds /\ fds[fd].before \in BOOLEAN
      BY <2>5 DEF RestoreFlags, Typed, DialTypeOK, Sock
    <3>2. DOMAIN fds' \subseteq DOMAIN fds
      BY <2>5, <3>1, BlockType, ClosedType DEF RestoreFlags, Flags
    <3> QED
      BY <2>5, <3>2 DEF RestoreFlags, Returns, Kept, Armed, NonbSteps
  <2>6. CASE \/ TimeoConnects \/ Nonblock \/ NonbConnects \/ Ready("none")
             \/ \E e \in Error \ {"EINTR", "EINPROGRESS"} : NonbFails(e) \/ Ready(e)
    <3>1. fd \in DOMAIN fds
      BY <2>6 DEF TimeoConnects, Nonblock, NonbConnects, NonbFails, Ready, Typed, DialTypeOK
    <3>2. DOMAIN fds' = DOMAIN fds
      BY <2>6, <3>1, TurnedType, BlockType
      DEF TimeoConnects, Nonblock, NonbConnects, NonbFails, Ready
    <3> QED
      BY <2>6, <3>2
      DEF TimeoConnects, Nonblock, NonbConnects, NonbFails, Ready, Returns,
          Kept, Armed, NonbSteps
  <2> QED
    BY <1>7, <2>1, <2>2, <2>3, <2>4, <2>5, <2>6 DEF Timed
<1>8. ASSUME NEW e \in Error, NEW kind \in {"done", "part", "nothing", "fail"}, Wrapper(kind, e)
      PROVE Kept'
  <2>1. Does(fn, kind, e) \in {"again", "return", "sys", "quit"}
    BY DEF Does
  <2>2. pc = "call" /\ UNCHANGED <<fds, mine>> /\ pc' \in {"call", "idle", "gone"}
    BY <1>8, <2>1 DEF Wrapper, Returns, Ends
  <2> QED
    BY <2>2 DEF Kept, Armed, NonbSteps
<1>9. CASE AlarmInterrupts
  BY <1>9, ClosedType DEF AlarmInterrupts, InConnect, TimeoFails, Kept, Armed, NonbSteps
<1>10. CASE AlarmPasses \/ AlarmKills
  BY <1>10 DEF AlarmPasses, AlarmKills, Ends, Kept, Armed, NonbSteps
<1> QED
  BY <1>5, <1>6, <1>7, <1>8, <1>9, <1>10 DEF DialNext

-----------------------------------------------------------------------------
(* The alarm clock finds its handler, and the caller gets back its own.    *)

LEMMA ClockStep == Typed /\ Clock /\ DialNext => Clock'
<1> SUFFICES ASSUME Typed, Clock, DialNext PROVE Clock'
  OBVIOUS
<1> USE DEF NotKilled, clock, told
<1>1. armed \in {"nobody", "caller", "timeo"}
  BY DEF Typed, DialTypeOK
<1>2. CASE Caller
  <2>1. CASE \E handler \in {"default", "own"} : OwnAlarm(handler)
    BY <2>1 DEF OwnAlarm, Clock, Armed
  <2>2. CASE \/ \E block \in BOOLEAN : Socket(block)
             \/ \E d \in 1 .. FDS : Close(d)
    BY <2>2 DEF Socket, Close, Clock, Armed
  <2>3. CASE \/ \E d \in 1 .. FDS : CallTimeo(d) \/ CallNonb(d)
             \/ \E call \in Called : CallWrapper(call)
             \/ \E name \in DOMAIN Walks : CallWalk(name)
    BY <2>3 DEF CallTimeo, CallNonb, CallWrapper, CallWalk, Calling, Clock, Armed
  <2> QED
    BY <1>2, <2>1, <2>2, <2>3 DEF Caller
<1>3. CASE Walk
  <2>1. /\ pc \in WalkSteps /\ UNCHANGED clock
        /\ pc' \in WalkSteps \cup {"idle", "gone"}
        /\ ret' # "killed" \/ ret' = ret
    BY <1>3
    DEF Walk, Getaddrinfo, NoAddress, GetSocket, Prepare, Works, CloseIt, Exhausted, Dialled,
        NoSocket, Refused, WrapperFails, NextAddress, Ends, Returns, WalkSteps
  <2> QED
    BY <2>1 DEF Clock, Armed, WalkSteps
<1>4. CASE Timed
  <2>1. CASE Install
    BY <2>1 DEF Install, Clock, Armed
  <2>2. CASE SetAlarm
    BY <2>2 DEF SetAlarm, Clock, Armed
  <2>3. CASE Disarm
    BY <2>3 DEF Disarm, Stopped, Clock, Armed
  <2>4. CASE Reinstall
    BY <2>4 DEF Reinstall, Returns, Clock, Armed
  <2>5. CASE TimeoConnects \/ \E e \in Error \ {"EINTR"} : TimeoFails(e) /\ UNCHANGED clock
    BY <2>5 DEF TimeoConnects, TimeoFails, Clock, Armed
  <2>6. CASE \/ Nonblock \/ NonbConnects \/ InProgress \/ NonbLate \/ RestoreFlags
             \/ \E e \in Error \ {"EINTR", "EINPROGRESS"} : NonbFails(e) \/ Ready(e)
             \/ Ready("none")
    <3>1. /\ pc \in NonbSteps /\ UNCHANGED clock
          /\ pc' \in NonbSteps \cup {"idle"}
          /\ ret' # "killed" \/ ret' = ret
      BY <2>6
      DEF Nonblock, NonbConnects, InProgress, NonbLate, RestoreFlags, NonbFails, Ready,
          Returns, NonbSteps
    <3> QED
      BY <3>1 DEF Clock, Armed, NonbSteps
  <2> QED
    BY <1>4, <2>1, <2>2, <2>3, <2>4, <2>5, <2>6 DEF Timed
<1>5. ASSUME NEW e \in Error, NEW kind \in {"done", "part", "nothing", "fail"}, Wrapper(kind, e)
      PROVE Clock'
  <2>1. Does(fn, kind, e) \in {"again", "return", "sys", "quit"}
    BY DEF Does
  <2>2. /\ pc = "call" /\ UNCHANGED clock /\ pc' \in {"call", "idle", "gone"}
        /\ ret' # "killed" \/ ret' = ret
    BY <1>5, <2>1 DEF Wrapper, Returns, Ends
  <2> QED
    BY <2>2 DEF Clock, Armed
<1>6. CASE AlarmInterrupts
  BY <1>6 DEF AlarmInterrupts, InConnect, TimeoFails, Clock, Armed
<1>7. CASE AlarmPasses
  BY <1>7 DEF AlarmPasses, Clock, Armed
<1>8. CASE AlarmKills
  BY <1>1, <1>8 DEF AlarmKills, Ends, Clock, Armed
<1> QED
  BY <1>2, <1>3, <1>4, <1>5, <1>6, <1>7, <1>8 DEF DialNext

-----------------------------------------------------------------------------
(* The modes of the sockets.                                               *)

(* A socket that is connected, or has failed, while it is worked on.       *)
LEMMA ReadyModes ==
  ASSUME Typed, Modes, NEW what \in {"new", "up", "listening", "failed"}, Turned(fd, what),
         \/ pc = "wait" /\ pc' = "disarm"
         \/ pc \in {"connect", "select"} /\ pc' = "flags" /\ UNCHANGED fd
         \/ pc \in {"connect", "select"} /\ pc' = "idle" /\ what = "failed"
  PROVE  Modes'
<1>1. fd \in DOMAIN fds
  BY DEF Typed, DialTypeOK
<1>2. /\ DOMAIN fds' = DOMAIN fds
      /\ \A x \in DOMAIN fds \ {fd} : fds'[x] = fds[x]
      /\ fds'[fd].is = what
      /\ fds'[fd].block = fds[fd].block /\ fds'[fd].before = fds[fd].before
  BY <1>1, TurnedType
<1>3. pc = "wait" => fds[fd].block = fds[fd].before
  BY <1>1 DEF Modes
<1> QED
  BY <1>1, <1>2, <1>3 DEF Modes

LEMMA ModesStep == Typed /\ Modes /\ DialNext => Modes'
<1> SUFFICES ASSUME Typed, Modes, DialNext PROVE Modes'
  OBVIOUS
<1>1. CASE /\ UNCHANGED fds
           /\ pc \notin {"connect", "select", "flags", "gone"} \/ pc' = "gone"
           /\ \/ pc' \notin {"set", "use", "signal", "alarm", "wait"}
              \/ pc \in {"set", "signal", "alarm"} /\ UNCHANGED fd
  BY <1>1 DEF Modes
<1>2. CASE Caller
  <2>1. ASSUME NEW block \in BOOLEAN, Socket(block) PROVE Modes'
    <3>1. PICK d \in Free : Opened(d, block)
      BY <2>1 DEF Socket
    <3>2. /\ DOMAIN fds' = DOMAIN fds \cup {d}
          /\ \A x \in DOMAIN fds : fds'[x] = fds[x]
          /\ fds'[d].block = fds'[d].before /\ fds'[d].is = "new"
      BY <3>1, OpenedType
    <3> QED
      BY <2>1, <3>2 DEF Socket, Modes
  <2>2. ASSUME NEW d, Close(d) PROVE Modes'
    BY <2>2, ClosedType DEF Close, Modes
  <2>3. CASE \/ \E handler \in {"default", "own"} : OwnAlarm(handler)
             \/ \E d \in 1 .. FDS : CallTimeo(d) \/ CallNonb(d)
             \/ \E call \in Called : CallWrapper(call)
             \/ \E name \in DOMAIN Walks : CallWalk(name)
    <3>1. /\ pc = "idle" /\ fds' = fds
          /\ \/ pc' \notin {"set", "use", "signal", "alarm", "wait"}
             \/ fds[fd'].is = "new"
      BY <2>3 DEF OwnAlarm, CallTimeo, CallNonb, CallWrapper, CallWalk, Calling
    <3> QED
      BY <3>1 DEF Modes
  <2> QED
    BY <1>2, <2>1, <2>2, <2>3 DEF Caller
<1>3. CASE Walk
  <2>1. CASE \/ Getaddrinfo \/ NoAddress \/ Prepare \/ Exhausted \/ Dialled
             \/ \E e \in Error \ {"EINTR"} : NoSocket(e) \/ Refused(e) \/ WrapperFails(e)
    <3>1. /\ fds' = fds /\ pc \in WalkSteps
          /\ \/ pc' \in {"socket", "close", "exhausted", "gone", "idle"}
             \/ pc = "set" /\ fd' = fd
      BY <2>1
      DEF Getaddrinfo, NoAddress, Prepare, Exhausted, Dialled, NoSocket, NextAddress, Refused,
          WrapperFails, Ends, Returns, WalkSteps
    <3> QED
      BY <1>1, <3>1 DEF WalkSteps
  <2>2. CASE GetSocket
    <3>1. PICK d \in Free : fd' = d /\ Opened(d, TRUE)
      BY <2>2 DEF GetSocket
    <3>2. /\ DOMAIN fds' = DOMAIN fds \cup {d}
          /\ \A x \in DOMAIN fds : fds'[x] = fds[x]
          /\ fds'[d].block = fds'[d].before /\ fds'[d].is = "new"
      BY <3>1, OpenedType
    <3> QED
      BY <2>2, <3>1, <3>2 DEF GetSocket, Modes
  <2>3. CASE Works
    <3>1. /\ DOMAIN fds' = DOMAIN fds /\ fd \in DOMAIN fds
          /\ \A x \in DOMAIN fds \ {fd} : fds'[x] = fds[x]
          /\ fds'[fd].block = fds[fd].block /\ fds'[fd].before = fds[fd].before
          /\ fds[fd].block = fds[fd].before
      <4>1. fd \in DOMAIN fds /\ Walks[fn].is \in {"new", "up", "listening"}
        BY <2>3, WalkNames DEF Works, Typed, DialTypeOK, WalkSteps
      <4>2. fds[fd].block = fds[fd].before
        BY <2>3, <4>1 DEF Works, Modes
      <4> QED
        BY <2>3, <4>1, <4>2, TurnedType DEF Works
    <3> QED
      BY <2>3, <3>1 DEF Works, Modes
  <2>4. CASE CloseIt
    <3>1. /\ DOMAIN fds' = DOMAIN fds \ {fd}
          /\ \A x \in DOMAIN fds' : fds'[x] = fds[x]
          /\ pc = "close" /\ pc' \in {"socket", "exhausted"}
      BY <2>4, ClosedType DEF CloseIt, Dropped, NextAddress
    <3> QED
      BY <3>1 DEF Modes
  <2> QED
    BY <1>3, <2>1, <2>2, <2>3, <2>4 DEF Walk
<1>4. CASE Timed
  <2>1. CASE Install \/ SetAlarm \/ Disarm
    <3>1. /\ fds' = fds /\ fd' = fd /\ pc \in {"signal", "alarm", "disarm"}
          /\ pc' \in {"alarm", "wait", "restore"} /\ (pc = "disarm" => pc' = "restore")
      BY <2>1 DEF Install, SetAlarm, Disarm
    <3> QED
      BY <3>1 DEF Modes
  <2>2. CASE InProgress
    BY <2>2 DEF InProgress, Modes
  <2>3. CASE Reinstall
    BY <2>3 DEF Reinstall, Returns, Modes
  <2>4. CASE TimeoConnects \/ NonbConnects \/ Ready("none")
    BY <2>4, ReadyModes DEF TimeoConnects, NonbConnects, Ready
  <2>5. CASE Nonblock
    <3>1. fd \in DOMAIN fds
      BY <2>5 DEF Nonblock, Typed, DialTypeOK
    <3>2. /\ DOMAIN fds' = DOMAIN fds
          /\ \A x \in DOMAIN fds \ {fd} : fds'[x] = fds[x]
      BY <2>5, <3>1, BlockType DEF Nonblock
    <3> QED
      BY <2>5, <3>2 DEF Nonblock, Modes
  <2>6. CASE NonbLate
    <3>1. DOMAIN fds' = DOMAIN fds \ {fd} /\ (\A x \in DOMAIN fds' : fds'[x] = fds[x])
      BY <2>6, ClosedType DEF NonbLate
    <3> QED
      BY <2>6, <3>1 DEF NonbLate, Returns, Modes
  <2>7. CASE RestoreFlags
    <3>1. fd \in DOMAIN fds /\ fds[fd].before \in BOOLEAN
      BY <2>7 DEF RestoreFlags, Typed, DialTypeOK, Sock
    <3>2. /\ DOMAIN fds' \subseteq DOMAIN fds
          /\ \A x \in DOMAIN fds' \ {fd} : fds'[x] = fds[x]
          /\ fd \in DOMAIN fds' => fds'[fd].block = fds'[fd].before
      BY <2>7, <3>1, BlockType, ClosedType DEF RestoreFlags, Flags
    <3> QED
      BY <2>7, <3>2 DEF RestoreFlags, Returns, Modes
  <2>8. ASSUME NEW e \in Error \ {"EINTR"}, TimeoFails(e) PROVE Modes'
    BY <2>8, ClosedType DEF TimeoFails, Modes
  <2>9. ASSUME NEW e \in Error \ {"EINTR", "EINPROGRESS"}, NonbFails(e) \/ Ready(e)
        PROVE Modes'
    <3>1. CASE NonbFails(e)
      BY <3>1, ReadyModes DEF NonbFails, Returns
    <3>2. CASE Ready(e)
      BY <3>2, ReadyModes DEF Ready
    <3> QED
      BY <2>9, <3>1, <3>2
  <2> QED
    BY <1>4, <2>1, <2>2, <2>3, <2>4, <2>5, <2>6, <2>7, <2>8, <2>9 DEF Timed
<1>5. ASSUME NEW e \in Error, NEW kind \in {"done", "part", "nothing", "fail"}, Wrapper(kind, e)
      PROVE Modes'
  <2>1. Does(fn, kind, e) \in {"again", "return", "sys", "quit"}
    BY DEF Does
  <2>2. pc = "call" /\ UNCHANGED fds /\ pc' \in {"call", "idle", "gone"}
    BY <1>5, <2>1 DEF Wrapper, Returns, Ends
  <2> QED
    BY <2>2 DEF Modes
<1>6. CASE AlarmInterrupts
  BY <1>6, ClosedType DEF AlarmInterrupts, InConnect, TimeoFails, Modes
<1>7. CASE AlarmPasses \/ AlarmKills
  BY <1>7 DEF AlarmPasses, AlarmKills, Ends, Modes
<1> QED
  BY <1>2, <1>3, <1>4, <1>5, <1>6, <1>7 DEF DialNext

-----------------------------------------------------------------------------
(* The addresses.                                                          *)

(* The step on to the next address, past one that cannot be used.          *)
LEMMA NextAddressTried ==
  ASSUME Typed, Tried, NextAddress, pc \in {"socket", "close"}, UNCHANGED owned,
         roomy /\ owned = "default" => ~Usable(res) /\ Free' # {}
  PROVE  Tried'
<1>1. res \in 1 .. Len(addrs) /\ Len(addrs) \in Nat
  <2>1. res \in 1 .. Len(addrs) /\ addrs \in Lists
    BY DEF Typed, DialTypeOK
  <2>2. \A list \in Lists : Len(list) \in Nat
    BY DialingAssumption DEF Lists
  <2> QED
    BY <2>1, <2>2
<1>2. /\ UNCHANGED <<fn, addrs, roomy>>
      /\ \/ res = Len(addrs) /\ pc' = "exhausted" /\ res' = res
         \/ pc' = "socket" /\ res' = res + 1
  BY DEF NextAddress
<1>3. \A k : Usable(k)' <=> Usable(k)
  BY <1>2 DEF Usable
<1>4. SUFFICES ASSUME fn \in DOMAIN Walks, roomy, owned = "default" PROVE Tried'
  BY <1>2 DEF Tried
<1>5. (\A k \in 1 .. res - 1 : ~Usable(k)) /\ ~Usable(res) /\ Free' # {}
  BY <1>4 DEF Tried
<1>6. \A k \in 1 .. res : ~Usable(k)
  BY <1>1, <1>5
<1> QED
  BY <1>1, <1>2, <1>3, <1>5, <1>6 DEF Tried

LEMMA TriedStep == Typed /\ Clock /\ Tried /\ DialNext => Tried'
<1> SUFFICES ASSUME Typed, Clock, Tried, DialNext PROVE Tried'
  OBVIOUS
<1> USE DEF clock, walk, told
<1>1. CASE fn' \notin DOMAIN Walks
  BY <1>1 DEF Tried
<1>2. "none" \notin DOMAIN Walks /\ "connect_timeo" \notin DOMAIN Walks
        /\ "connect_nonb" \notin DOMAIN Walks /\ (\A call \in Wrapped : call \notin DOMAIN Walks)
  BY WalkNames
<1>3. pc \notin WalkSteps => fn \notin DOMAIN Walks
  BY <1>2 DEF Typed, DialTypeOK, WalkSteps, Armed, NonbSteps
<1>4. CASE Caller
  <2>1. CASE \/ \E handler \in {"default", "own"} : OwnAlarm(handler)
             \/ \E block \in BOOLEAN : Socket(block)
             \/ \E d \in 1 .. FDS : Close(d)
    BY <1>1, <1>3, <2>1 DEF OwnAlarm, Socket, Close, WalkSteps
  <2>2. CASE \E d \in 1 .. FDS : CallTimeo(d) \/ CallNonb(d)
    BY <1>1, <1>2, <2>2 DEF CallTimeo, CallNonb, Calling
  <2>3. CASE \E call \in Called : CallWrapper(call)
    BY <1>1, <1>2, <2>3, DialingAssumption DEF CallWrapper, Calling
  <2>4. ASSUME NEW name \in DOMAIN Walks, CallWalk(name) PROVE Tried'
    <3>1. /\ res' = 0 /\ pc' = "getaddrinfo" /\ fds' = fds /\ roomy' = (Free # {})
      BY <2>4 DEF CallWalk, Calling, Typed
    <3>2. Free' = Free /\ 1 .. res' - 1 = {}
      BY <3>1 DEF Free
    <3> QED
      BY <3>1, <3>2 DEF Tried
  <2> QED
    BY <1>4, <2>1, <2>2, <2>3, <2>4 DEF Caller
<1>5. CASE Walk
  <2>1. CASE \/ NoAddress \/ Exhausted \/ Dialled
             \/ \E e \in Error \ {"EINTR"} : WrapperFails(e)
    BY <1>1, <1>2, <2>1 DEF NoAddress, Exhausted, Dialled, WrapperFails, Ends, Returns
  <2>2. CASE Getaddrinfo
    <3>1. /\ pc = "getaddrinfo" /\ pc' = "socket" /\ res' = 1
          /\ UNCHANGED <<fn, roomy, fds, owned>>
      BY <2>2 DEF Getaddrinfo
    <3>2. Free' = Free /\ 1 .. res' - 1 = {}
      BY <3>1 DEF Free
    <3> QED
      BY <3>1, <3>2 DEF Tried
  <2>3. CASE \/ GetSocket \/ Prepare \/ Works
             \/ \E e \in Error \ {"EINTR"} : Refused(e)
    <3>1. /\ UNCHANGED <<fn, addrs, res, roomy, owned>>
          /\ \/ pc' \in {"set", "use", "then"}
             \/ pc' = "close" /\ addrs[res] = "refused"
      BY <2>3 DEF GetSocket, Prepare, Works, Refused
    <3>2. \A k : Usable(k)' <=> Usable(k)
      BY <3>1 DEF Usable
    <3> QED
      BY <3>1, <3>2 DEF Tried
  <2>4. ASSUME NEW e \in Error \ {"EINTR"}, NoSocket(e) PROVE Tried'
    <3>1. /\ pc = "socket" /\ NextAddress /\ UNCHANGED <<fds, owned>>
          /\ addrs[res] = "unsupported" \/ Free = {}
      BY <2>4 DEF NoSocket, NextAddress
    <3>2. fn \in DOMAIN Walks /\ Free' = Free
      BY <3>1 DEF Free, Typed, WalkSteps
    <3>3. roomy /\ owned = "default" => ~Usable(res) /\ Free' # {}
      BY <3>1, <3>2 DEF Tried, Usable
    <3> QED
      BY <3>1, <3>3, NextAddressTried
  <2>5. CASE CloseIt
    <3>1. pc = "close" /\ NextAddress /\ UNCHANGED owned /\ Closed(fd)
      BY <2>5 DEF CloseIt, Dropped, NextAddress
    <3>2. fn \in DOMAIN Walks /\ Walks[fn].use # "none" /\ fd \in DOMAIN fds
      BY <3>1 DEF Typed, DialTypeOK, WalkSteps
    <3>3. fd \in Free'
      <4>1. DOMAIN fds' = DOMAIN fds \ {fd}
        BY <3>1, ClosedType
      <4>2. fd \in 1 .. FDS
        BY <3>2 DEF Typed, DialTypeOK
      <4> QED
        BY <4>1, <4>2 DEF Free
    <3>4. roomy /\ owned = "default" => ~Usable(res)
      BY <3>1, <3>2 DEF Tried, Usable
    <3> QED
      BY <3>1, <3>3, <3>4, NextAddressTried
  <2> QED
    BY <1>5, <2>1, <2>2, <2>3, <2>4, <2>5 DEF Walk
<1>6. CASE Timed
  <2>1. pc \notin WalkSteps /\ (fn' = fn \/ fn' = "none")
    BY <1>6
    DEF Timed, Install, SetAlarm, TimeoConnects, Disarm, Reinstall, Nonblock, NonbConnects,
        InProgress, NonbLate, RestoreFlags, TimeoFails, NonbFails, Ready, Returns, WalkSteps
  <2> QED
    BY <1>1, <1>2, <1>3, <2>1
<1>7. ASSUME NEW e \in Error, NEW kind \in {"done", "part", "nothing", "fail"}, Wrapper(kind, e)
      PROVE Tried'
  <2>1. Does(fn, kind, e) \in {"again", "return", "sys", "quit"}
    BY DEF Does
  <2>2. pc \notin WalkSteps /\ (fn' = fn \/ fn' = "none")
    BY <1>7, <2>1 DEF Wrapper, Returns, Ends, WalkSteps
  <2> QED
    BY <1>1, <1>2, <1>3, <2>2
<1>8. CASE AlarmInterrupts
  <2>1. CASE InConnect
    <3>1. owned # "default" /\ owned' = owned
      BY <1>8, <2>1 DEF AlarmInterrupts, InConnect, Clock, Armed
    <3> QED
      BY <3>1 DEF Tried
  <2>2. CASE pc \in {"wait", "select"} /\ (fn' = fn \/ fn' = "none")
    BY <1>1, <1>2, <1>3, <2>2 DEF WalkSteps
  <2> QED
    BY <1>8, <2>1, <2>2 DEF AlarmInterrupts, TimeoFails
<1>9. CASE AlarmPasses
  BY <1>9 DEF AlarmPasses, Tried, Usable, Free
<1>10. CASE AlarmKills
  BY <1>1, <1>2, <1>10 DEF AlarmKills, Ends
<1> QED
  BY <1>4, <1>5, <1>6, <1>7, <1>8, <1>9, <1>10 DEF DialNext

-----------------------------------------------------------------------------
(* errno.                                                                  *)

LEMMA BlamedStep == Typed /\ Blamed /\ DialNext => Blamed'
<1> SUFFICES ASSUME Typed, Blamed, DialNext PROVE Blamed'
  OBVIOUS
<1> USE DEF Blame, Named, told, clock
<1>1. CASE Caller
  <2>1. CASE \/ \E handler \in {"default", "own"} : OwnAlarm(handler)
             \/ \E block \in BOOLEAN : Socket(block)
             \/ \E d \in 1 .. FDS : Close(d)
    <3>1. pc = "idle" /\ UNCHANGED <<pc, soerror, errno, why, ret>>
      BY <2>1 DEF OwnAlarm, Socket, Close
    <3> QED
      BY <3>1 DEF Blamed
  <2>2. CASE \/ \E d \in 1 .. FDS : CallTimeo(d) \/ CallNonb(d)
             \/ \E call \in Called : CallWrapper(call)
             \/ \E name \in DOMAIN Walks : CallWalk(name)
    <3>1. /\ pc = "idle" /\ UNCHANGED soerror
          /\ pc' \in {"signal", "nonblock", "call", "getaddrinfo"}
      BY <2>2 DEF CallTimeo, CallNonb, CallWrapper, CallWalk, Calling
    <3> QED
      BY <3>1 DEF Blamed
  <2> QED
    BY <1>1, <2>1, <2>2 DEF Caller
<1>2. CASE Walk
  <2>1. CASE Dialled
    BY <2>1 DEF Dialled, Returns, Blamed
  <2>2. CASE Exhausted
    BY <2>2 DEF Exhausted, Ends, Blamed
  <2>3. CASE NoAddress
    BY <2>3 DEF NoAddress, Ends, Blamed
  <2>4. ASSUME NEW e, WrapperFails(e) PROVE Blamed'
    BY <2>4 DEF WrapperFails, Fails, Ends, Blamed
  <2>5. CASE Getaddrinfo \/ GetSocket \/ Prepare \/ Works
    <3>1. pc' \in {"socket", "set", "use", "then"} /\ UNCHANGED soerror /\ pc \in WalkSteps
      BY <2>5 DEF Getaddrinfo, GetSocket, Prepare, Works, WalkSteps
    <3> QED
      BY <3>1 DEF Blamed, WalkSteps
  <2>6. CASE CloseIt
    <3>1. pc = "close" /\ pc' \in {"socket", "exhausted"} /\ UNCHANGED <<soerror, errno, why>>
      BY <2>6 DEF CloseIt, NextAddress
    <3> QED
      BY <3>1 DEF Blamed
  <2>7. ASSUME NEW e, NoSocket(e) \/ Refused(e) PROVE Blamed'
    <3>1. /\ pc \in {"socket", "use"} /\ pc' \in {"socket", "exhausted", "close"}
          /\ UNCHANGED soerror /\ errno' = why'
      BY <2>7 DEF NoSocket, Refused, NextAddress, Fails
    <3> QED
      BY <3>1 DEF Blamed
  <2> QED
    BY <1>2, <2>1, <2>2, <2>3, <2>4, <2>5, <2>6, <2>7 DEF Walk
<1>3. CASE Timed
  <2>1. CASE Install \/ SetAlarm \/ Nonblock \/ NonbConnects \/ InProgress \/ TimeoConnects
    <3>1. /\ pc \in {"signal", "alarm", "nonblock", "connect", "wait"} /\ UNCHANGED soerror
          /\ pc' \in {"alarm", "wait", "connect", "flags", "select"} \/ TimeoConnects
      BY <2>1 DEF Install, SetAlarm, Nonblock, NonbConnects, InProgress, TimeoConnects
    <3>2. TimeoConnects => pc' = "disarm" /\ fd' \in DOMAIN fds'
      BY TurnedType DEF TimeoConnects, Typed, DialTypeOK
    <3> QED
      BY <3>1, <3>2 DEF Blamed
  <2>2. CASE Disarm
    BY <2>2 DEF Disarm, Blamed
  <2>3. CASE Reinstall
    BY <2>3 DEF Reinstall, Returns, Blamed
  <2>4. ASSUME NEW e, TimeoFails(e) PROVE Blamed'
    BY <2>4 DEF TimeoFails, Late, Blamed
  <2>5. ASSUME NEW e, NonbFails(e) PROVE Blamed'
    BY <2>5 DEF NonbFails, Fails, Returns, Blamed
  <2>6. CASE NonbLate
    BY <2>6 DEF NonbLate, Returns, Blamed
  <2>7. ASSUME NEW e, Ready(e) PROVE Blamed'
    BY <2>7 DEF Ready, Blamed
  <2>8. CASE RestoreFlags
    BY <2>8 DEF RestoreFlags, Returns, Blamed
  <2> QED
    BY <1>3, <2>1, <2>2, <2>3, <2>4, <2>5, <2>6, <2>7, <2>8 DEF Timed
<1>4. ASSUME NEW e \in Error, NEW kind \in {"done", "part", "nothing", "fail"}, Wrapper(kind, e)
      PROVE Blamed'
  <2>1. pc = "call" /\ kind \in Kinds(fn) /\ errno' = ErrnoAfter(fn, kind, e, errno)
        /\ why' = Reason(kind, e)
    BY <1>4 DEF Wrapper
  <2>2. CASE Does(fn, kind, e) \in {"again", "return"}
    BY <1>4, <2>2 DEF Wrapper, Returns, Blamed
  <2>3. CASE Does(fn, kind, e) = "quit"
    BY <1>4, <2>3 DEF Wrapper, Ends, Blamed
  <2>4. CASE Does(fn, kind, e) = "sys"
    <3>1. kind \in {"fail", "part"} \/ (kind = "nothing" /\ fn = "sysconf")
      BY <2>4 DEF Does
    <3>2. errno' = why' \/ why' = "short"
      BY <2>1, <3>1 DEF ErrnoAfter, Reason
    <3>3. pc' = "gone" /\ UNCHANGED soerror
      BY <1>4, <2>4 DEF Wrapper, Ends
    <3> QED
      BY <3>2, <3>3 DEF Blamed
  <2>5. Does(fn, kind, e) \in {"again", "return", "sys", "quit"}
    BY DEF Does
  <2> QED
    BY <2>2, <2>3, <2>4, <2>5
<1>5. CASE AlarmInterrupts
  BY <1>5 DEF AlarmInterrupts, InConnect, TimeoFails, Late, Fails, Blamed
<1>6. CASE AlarmPasses
  BY <1>6 DEF AlarmPasses, Blamed
<1>7. CASE AlarmKills
  BY <1>7 DEF AlarmKills, Ends, Blamed
<1> QED
  BY <1>1, <1>2, <1>3, <1>4, <1>5, <1>6, <1>7 DEF DialNext

-----------------------------------------------------------------------------
LEMMA DialInvInit == DialInit => DialInv
<1> SUFFICES ASSUME DialInit PROVE DialInv
  OBVIOUS
<1> USE DEF DialInit
<1>1. DOMAIN fds = {} /\ fds \in [DOMAIN fds -> Sock]
  BY DEF Sock
<1>2. "none" \notin DOMAIN Walks
  BY WalkNames
<1>3. 0 \in 0 .. Len(addrs) /\ 0 \in 0 .. FDS
  BY DialingAssumption
<1>4. Typed
  BY <1>1, <1>3 DEF Typed, DialTypeOK, WalkSteps, Armed, NonbSteps
<1>5. Kept /\ Clock /\ Modes
  BY <1>1 DEF Kept, NoLeak, Clock, NotKilled, Modes, Armed, NonbSteps
<1>6. Tried /\ Blamed
  BY <1>2 DEF Tried, Blamed, Blame, Named
<1> QED
  BY <1>4, <1>5, <1>6 DEF DialInv

LEMMA DialInvStep == DialInv /\ [DialNext]_dial => DialInv'
<1> SUFFICES ASSUME DialInv, [DialNext]_dial PROVE DialInv'
  OBVIOUS
<1>1. CASE DialNext
  BY <1>1, TypedStep, KeptStep, ClockStep, ModesStep, TriedStep, BlamedStep DEF DialInv
<1>2. CASE UNCHANGED dial
  <2>1. UNCHANGED <<pc, fn, addrs, res, roomy, fd, fds, mine, soerror, errno, why, ret,
                    armed, disp, saved, owned>>
    BY <1>2 DEF dial, walk, told, clock
  <2> QED
    BY <2>1
    DEF DialInv, Typed, DialTypeOK, Kept, NoLeak, Clock, NotKilled, Modes, Tried, Usable, Free,
        Blamed, Blame, Named
<1> QED
  BY <1>1, <1>2

(* What the invariant says of the properties of module Dialing.            *)
LEMMA DialInvSays ==
  DialInv => DialTypeOK /\ NoLeak /\ Blame /\ FirstWorks /\ Restored /\ NotKilled
BY DEF DialInv, Typed, Kept, Clock, Modes, Tried, Blamed, FirstWorks, Restored, Armed
=============================================================================
