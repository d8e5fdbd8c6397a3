---------------------------- MODULE LinuxKernel ----------------------------
(***************************************************************************)
(* What Venti sees of the Linux kernel: one record per open descriptor,    *)
(* its poll mask, and the system calls venti/platform/linux makes on it.   *)
(* All of it is external code, modelled from how linuxsock.h and           *)
(* epollimpl.h use it.  A system call is a set of outcomes                 *)
(*   [ret |-> return value, errno |-> errno if ret = -1, fd |-> new state] *)
(* and an empty set says that the call blocks.                             *)
(***************************************************************************)
EXTENDS Integers

CONSTANTS Faults,   \* which of the failures below the environment produces
          MaxIn     \* bound on what is queued on one descriptor

ASSUME KernelAssumption ==
  /\ Faults \subseteq {"FIN", "RST", "ICMP", "EMFILE", "EAGAIN", "ENETUNREACH"}
  /\ MaxIn \in Nat \ {0}

EAGAIN       == 11    \* the value of EWOULDBLOCK too
EMFILE       == 24
EPIPE        == 32
ENETUNREACH  == 101
ECONNRESET   == 104
EISCONN      == 106
ENOTCONN     == 107
ECONNREFUSED == 111
EALREADY     == 114
EINPROGRESS  == 115

Kinds == {"TCP", "UDP", "LISTENER", "TIMER", "SIGNALFD"}

(* conn: idle is a TCP socket never connected, syn one whose handshake is  *)
(* under way, refused one whose handshake failed, reset one that was       *)
(* connected until the peer reset it; est everything else.                 *)
Conns == {"idle", "syn", "refused", "est", "reset"}

Fds == [open : BOOLEAN,    \* the descriptor exists
        reg : BOOLEAN,     \* it is in the epoll interest list
        ready : BOOLEAN,   \* it is in the epoll ready list
        nb : BOOLEAN,      \* FIONBIO was applied to it
        conn : Conns,
        in : 0..MaxIn,     \* data, datagrams, connections, ticks or signals queued
        eof : BOOLEAN,     \* the peer's FIN arrived, or a reset
        shutW : BOOLEAN,   \* the sending side is shut
        room : BOOLEAN,    \* the send buffer has room
        err : BOOLEAN,     \* an asynchronous error is pending
        armed : BOOLEAN]   \* a timer that has not expired

ClosedFd == [open |-> FALSE, reg |-> FALSE, ready |-> FALSE, nb |-> FALSE,
             conn |-> "est", in |-> 0, eof |-> FALSE, shutW |-> FALSE,
             room |-> FALSE, err |-> FALSE, armed |-> FALSE]

(* accept() returns a connected socket that does not inherit O_NONBLOCK.   *)
AcceptedFd == [ClosedFd EXCEPT !.open = TRUE, !.room = TRUE]

(* The poll mask of a descriptor of some kind. *)
Mask(kind, fd) ==
  {f \in {"IN", "OUT", "ERR", "HUP"} :
     \/ f = "IN" /\ fd.conn # "syn" /\ (fd.in > 0 \/ fd.eof)
     \/ f = "OUT" /\ kind \in {"TCP", "UDP"} /\ fd.conn # "syn"
                  /\ (fd.room \/ fd.shutW)
     \/ f = "ERR" /\ fd.err
     \/ f = "HUP" /\ (fd.conn = "idle" \/ (fd.eof /\ fd.shutW))}

(* A state change of the descriptor wakes the epoll instance it is in. *)
Wake(fd) == [fd EXCEPT !.ready = fd.reg]

(* epoll_ctl(EPOLL_CTL_ADD): fails on a descriptor already there, and      *)
(* queues one that is ready at once.                                       *)
EpollAdd(kind, fd) ==
  IF ~fd.open \/ fd.reg THEN fd
  ELSE [fd EXCEPT !.reg = TRUE, !.ready = Mask(kind, fd) # {}]

EpollDel(fd) == [fd EXCEPT !.reg = FALSE, !.ready = FALSE]

-----------------------------------------------------------------------------
(* -1, or what a call moved: at most what is queued, or the one unit that  *)
(* a send takes.                                                           *)
Outcomes == [ret : -1..MaxIn, errno : Nat, fd : Fds]

Ok(n, fd) == [ret |-> n, errno |-> 0, fd |-> fd]
Fail(e, fd) == [ret |-> -1, errno |-> e, fd |-> fd]
WouldBlock(fd) == {Fail(EAGAIN, f) : f \in {g \in {fd} : g.nb}}

RecvMsg(kind, fd) ==
  CASE fd.err /\ (kind = "UDP" \/ fd.in = 0) ->
         {Fail(ECONNRESET, [fd EXCEPT !.err = FALSE])}
    [] fd.in > 0 /\ ~(kind = "UDP" /\ fd.err) ->
         {Ok(n, [fd EXCEPT !.in = @ - n]) :
            n \in 1..(IF kind = "UDP" THEN 1 ELSE fd.in)}
    [] fd.in = 0 /\ ~fd.err /\ fd.eof -> {Ok(0, fd)}
    [] fd.in = 0 /\ ~fd.err /\ ~fd.eof /\ fd.conn = "idle" -> {Fail(ENOTCONN, fd)}
    [] OTHER -> WouldBlock(fd)

SendMsg(fd) ==
  CASE fd.err -> {Fail(ECONNRESET, [fd EXCEPT !.err = FALSE])}
    [] ~fd.err /\ (fd.shutW \/ fd.conn = "idle") -> {Fail(EPIPE, fd)}
    [] ~fd.err /\ ~fd.shutW /\ fd.conn = "est" /\ fd.room ->
         {Ok(1, [fd EXCEPT !.room = b]) : b \in BOOLEAN}
    [] OTHER -> WouldBlock(fd)

AcceptCall(fd) ==
  IF fd.in = 0 THEN WouldBlock(fd)
  ELSE {Ok(0, [fd EXCEPT !.in = @ - 1])}
         \cup {Fail(EMFILE, fd) : x \in {"EMFILE"} \cap Faults}

(* A non-blocking TCP connect() never finishes on the spot: it reports     *)
(* EINPROGRESS, and a later call reports how the handshake went.           *)
ConnectCall(fd) ==
  CASE fd.conn = "idle" ->
         {Fail(EINPROGRESS, [fd EXCEPT !.conn = "syn"])}
           \cup {Fail(ENETUNREACH, fd) : x \in {"ENETUNREACH"} \cap Faults}
           \cup {Fail(EAGAIN, fd) : x \in {"EAGAIN"} \cap Faults}
    [] fd.conn = "syn" -> {Fail(EALREADY, fd)}
    [] fd.conn = "est" -> {Ok(0, fd), Fail(EISCONN, fd)}
    [] fd.conn \in {"refused", "reset"} ->
         {Fail(ECONNREFUSED, [fd EXCEPT !.err = FALSE])}

(* timerfd_settime(): drops earlier ticks; a zero time disarms the timer.  *)
SetTime(fd, zero) == [fd EXCEPT !.in = 0, !.armed = ~zero]

-----------------------------------------------------------------------------
(* What the network, the clock and other processes do to a descriptor,     *)
(* each as the set of states it may go to (empty when it cannot happen).   *)
Arrive(kind, fd) ==
  {Wake([f EXCEPT !.in = @ + 1]) :
     f \in {g \in {fd} : /\ g.open /\ g.conn = "est" /\ ~g.eof /\ g.in < MaxIn
                         /\ kind # "TIMER"}}

PeerFin(kind, fd) ==
  {Wake([f EXCEPT !.eof = TRUE]) :
     f \in {g \in {fd} : /\ "FIN" \in Faults /\ kind = "TCP" /\ g.open
                         /\ g.conn = "est" /\ ~g.eof}}

PeerReset(kind, fd) ==
  {Wake([f EXCEPT !.conn = IF @ = "syn" THEN "refused" ELSE "reset",
                  !.err = TRUE, !.eof = TRUE, !.shutW = TRUE]) :
     f \in {g \in {fd} : /\ "RST" \in Faults /\ kind = "TCP" /\ g.open
                         /\ g.conn \in {"syn", "est"}}}

IcmpError(kind, fd) ==
  {Wake([f EXCEPT !.err = TRUE]) :
     f \in {g \in {fd} : "ICMP" \in Faults /\ kind = "UDP" /\ g.open /\ ~g.err}}

Established(fd) ==
  {Wake([f EXCEPT !.conn = "est"]) : f \in {g \in {fd} : g.open /\ g.conn = "syn"}}

Drain(kind, fd) ==
  {Wake([f EXCEPT !.room = TRUE]) :
     f \in {g \in {fd} : kind \in {"TCP", "UDP"} /\ g.open /\ ~g.room}}

Expire(fd) ==
  {Wake([f EXCEPT !.in = 1, !.armed = FALSE]) : f \in {g \in {fd} : g.open /\ g.armed}}
=============================================================================
