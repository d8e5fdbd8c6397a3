------------------------------- MODULE Epoll -------------------------------
(***************************************************************************)
(* The Linux back end of Venti: the Epoll handler (epollimpl.h), the one   *)
(* SockEventData slot every LinuxSock owns (linuxsock.h), and the socket,  *)
(* acceptor, timer and signal classes that call it, on top of the event    *)
(* loop of module Context and the kernel of module LinuxKernel.            *)
(*                                                                         *)
(* An operation is one asynchronous call of the program: its event, its    *)
(* callback and the awaitable that waits for it.  The program itself is    *)
(* arbitrary: it makes any call from its setup code or from a callback.    *)
(***************************************************************************)
EXTENDS Context, LinuxKernel, FiniteSetsExt

CONSTANTS Socks,        \* LinuxSock objects
          NoSock,       \* no LinuxSock
          Kind,         \* what each LinuxSock is used for
          Fresh,        \* TCP sockets built without a descriptor, for accept
          MaxEvents,    \* length of the events array of Wait (128 in the code)
          Errnos,       \* values a left-over errno may have
          UserCalls,    \* the calls below this program makes
          Overlap,      \* does it start an operation on a socket that has one?
          CarefulUser   \* does it give every registered socket an operation
                        \* other than a connect before it goes back to the loop?

ASSUME EpollAssumption ==
  /\ NoSock \notin Socks
  /\ Kind \in [Socks -> Kinds]
  /\ Fresh \subseteq {s \in Socks : Kind[s] = "TCP"}
  /\ MaxEvents \in Nat \ {0}
  /\ Errnos \subseteq Nat
  /\ UserCalls \subseteq {"Connect", "SyncConnect", "Write", "Sync", "Shutdown",
                       "Close", "End", "Zero"}
  /\ Overlap \in BOOLEAN
  /\ CarefulUser \in BOOLEAN

VARIABLES k,            \* the descriptor of each socket
          slot,         \* LinuxSock::ev_, the SockEventData of each socket
          await,        \* what each operation waits for (ReadAwait, AcceptAwait ...)
          waiting,      \* Acceptor::waiting_.cb of each listener
          calling,      \* the operation whose Submit call is in its system call
          batch,        \* the events epoll_wait returned and Wait has not served
          runs,         \* history: how often a callback ran (2: more than once)
          displaced,    \* history: operations overwritten before they completed
          redelivered,  \* history: operations completed again after completing
          missed        \* history: readiness reported to Wait and not recorded

userVars == <<await, waiting, displaced, redelivered, missed>>
vars == <<waitset, it, canContinue, pc, k, slot, await, waiting, calling, batch,
          runs, displaced, redelivered, missed>>

InTypes == {"READ", "ACCEPT", "RECVFROM"}
OutTypes == {"WRITE", "SENDTO"}
Types == InTypes \cup OutTypes \cup {"CONNECT", "TIMETICK", "SIGNAL", "NOOP"}

(* The transfers a socket of some kind offers to this program. *)
Transfers(kind) ==
  {type \in {"READ", "WRITE", "RECVFROM", "SENDTO"} :
     /\ kind = IF type \in {"READ", "WRITE"} THEN "TCP" ELSE "UDP"
     /\ type \in OutTypes => "Write" \in UserCalls}

Slots == [sock : BOOLEAN,        \* sock is set; it is null until the first Set()
          type : Types,
          ev : Events,
          rp : BOOLEAN, wp : BOOLEAN,
          data : Socks \cup {NoSock}]

(* new SockEventData(): value-initialized, so type is 0, which is READ.    *)
NewSlot == [sock |-> FALSE, type |-> "READ", ev |-> Event(NoOp),
            rp |-> FALSE, wp |-> FALSE, data |-> NoSock]

Set(sl, type, op, data) ==
  [sl EXCEPT !.sock = TRUE, !.type = type, !.ev = Event(op), !.data = data]

(* Mutants: the slot is not cleared, or its socket is cleared, too. *)
ClearForgotten(sl) == sl
ClearSocket(sl) == [sl EXCEPT !.type = "NOOP", !.sock = FALSE]

Clear(sl) == [sl EXCEPT !.type = "NOOP"]

Awaits == [type : Types, sock : Socks \cup {NoSock}, target : Socks \cup {NoSock}]
Unissued == [type |-> "NOOP", sock |-> NoSock, target |-> NoSock]

Polled == [sock : Socks, events : SUBSET {"IN", "OUT", "ERR", "HUP"}]

TypeOK ==
  /\ LoopTypeOK
  /\ k \in [Socks -> Fds]
  /\ slot \in [Socks -> Slots]
  /\ await \in [Ops -> Awaits]
  /\ waiting \in [Socks -> Ops \cup {NoOp}]
  /\ calling \in Ops \cup {NoOp}
  /\ batch \subseteq Polled
  /\ runs \in [Ops -> 0..2]
  /\ displaced \subseteq Ops
  /\ redelivered \subseteq Ops
  /\ missed \subseteq Socks \X {"IN", "OUT"}

(* Mutant: no FIONBIO. *)
NewFdBlocking(kind) ==
  EpollAdd(kind, [ClosedFd EXCEPT !.open = TRUE, !.conn = IF kind = "TCP" THEN "idle" ELSE "est",
                                  !.room = kind \in {"TCP", "UDP"}])

(* The descriptors the constructors leave: a TCP socket that is not        *)
(* connected, a bound datagram socket, an acceptor that listens, a timer   *)
(* that is not armed; each registered with epoll by its constructor.       *)
NewFd(kind) ==
  EpollAdd(kind, [ClosedFd EXCEPT !.open = TRUE, !.nb = TRUE,
                                  !.conn = IF kind = "TCP" THEN "idle" ELSE "est",
                                  !.room = kind \in {"TCP", "UDP"}])

Init ==
  /\ LoopInit
  /\ k = [s \in Socks |-> IF s \in Fresh \/ Kind[s] = "SIGNALFD"
                          THEN ClosedFd ELSE NewFd(Kind[s])]
  /\ slot = [s \in Socks |-> NewSlot]
  /\ await = [op \in Ops |-> Unissued]
  /\ waiting = [s \in Socks |-> NoOp]
  /\ calling = NoOp
  /\ batch = {}
  /\ runs = [op \in Ops |-> 0]
  /\ displaced = {}
  /\ redelivered = {}
  /\ missed = {}

-----------------------------------------------------------------------------
(* Results of the system calls as LinuxSock returns them.                  *)

(* Send, Recv, Sendto and Recvfrom keep the ssize_t result in a size_t, so *)
(* that -1 is a large number, `len < 0` is false, and the number becomes   *)
(* -1 again when it is returned as an int.  2^16 stands for both widths.   *)
SizeMod == 65536
AsSize(n) == n % SizeMod

(* No call moves as much as an int cannot hold. *)
ASSUME SizeAssumption == MaxIn < SizeMod \div 2

AsInt(u) == IF u >= SizeMod \div 2 THEN u - SizeMod ELSE u

(* Mutant: the result is kept in an int. *)
SizeResultAsInt(o) == IF o.ret < 0 THEN -o.errno ELSE o.ret

SizeResult(o) ==
  LET len == AsSize(o.ret) IN IF len < 0 THEN -o.errno ELSE AsInt(len)

(* Connect and Accept test an int. *)
IntResult(o) == IF o.ret < 0 THEN -o.errno ELSE 0

(* TryRead, TryRecvfrom, TryWrite, TrySendto and TryAccept: the possible   *)
(* results with the state they leave the descriptor in.                    *)
Try(s, type) ==
  CASE type \in {"READ", "RECVFROM"} ->
         {[r |-> SizeResult(o), fd |-> o.fd] : o \in RecvMsg(Kind[s], k[s])}
    [] type \in OutTypes ->
         {[r |-> SizeResult(o), fd |-> o.fd] : o \in SendMsg(k[s])}
    [] type = "ACCEPT" ->
         {[r |-> IntResult(o), fd |-> o.fd] : o \in AcceptCall(k[s])}

(* Mutant: the test of accept's result is inverted. *)
KernelAfterFailure(s, type, t) ==
  [x \in Socks |->
     IF x = s THEN t.fd
     ELSE IF type = "ACCEPT" /\ t.r < 0 /\ x = slot[s].data THEN AcceptedFd
     ELSE k[x]]

(* What a finished call leaves: an accept that succeeded also stores the   *)
(* new descriptor in the socket it was given.                              *)
KernelAfter(s, type, t) ==
  [x \in Socks |->
     IF x = s THEN t.fd
     ELSE IF type = "ACCEPT" /\ t.r = 0 /\ x = slot[s].data THEN AcceptedFd
     ELSE k[x]]

(* The status and the result a finished call gives to its event. *)
Outcome(ev, r) ==
  IF r < 0 THEN [ev EXCEPT !.status = "ERR", !.error = -r]
           ELSE [ev EXCEPT !.status = "COMPLETED", !.res = r]

(* The operation that is pending in a slot, as a set of at most one. *)
PendingIn(s) ==
  {op \in Ops : slot[s].sock /\ slot[s].type # "NOOP" /\ slot[s].ev.cb = op}

-----------------------------------------------------------------------------
(* Calls of the program, from its setup code or from a callback.           *)

InUser == pc \in {"setup", "callback"} /\ calling = NoOp

(* An operation the program may start on s: its caller is the coroutine    *)
(* that owns s unless operations overlap.                                  *)
MayStart(op, s) ==
  /\ InUser
  /\ await[op] = Unissued
  /\ \A p \in Ops : await[p].sock = s /\ runs[p] = 0 => Overlap

Started(op, type, s, target) ==
  await' = [await EXCEPT ![op] = [type |-> type, sock |-> s, target |-> target]]

(* SubmitRead, SubmitWrite, SubmitRecvfrom and SubmitSendto: Set() and,    *)
(* when the direction was reported ready before, the Try... call.          *)
SubmitTransfer(s, type, op) ==
  /\ MayStart(op, s)
  /\ type \in Transfers(Kind[s])
  /\ k[s].reg
  /\ slot' = [slot EXCEPT ![s] = Set(@, type, op, @.data)]
  /\ calling' = IF (type \in InTypes /\ slot[s].rp) \/ (type \in OutTypes /\ slot[s].wp)
                THEN op ELSE NoOp
  /\ Started(op, type, s, NoSock)
  /\ displaced' = displaced \cup PendingIn(s)
  /\ UNCHANGED <<loopVars, k, waiting, batch, runs, redelivered, missed>>

(* AsyncAcceptcb and SubmitAccept, with the TCPSocket to fill. *)
FreeTarget(t) ==
  /\ t \in Fresh
  /\ ~k[t].open
  /\ \A l \in Socks : slot[l].type = "ACCEPT" => slot[l].data # t

SubmitAccept(s, target, op) ==
  /\ MayStart(op, s)
  /\ Kind[s] = "LISTENER"
  /\ k[s].reg
  /\ FreeTarget(target)
  /\ waiting' = [waiting EXCEPT ![s] = op]
  /\ slot' = [slot EXCEPT ![s] = Set(@, "ACCEPT", op, target)]
  /\ calling' = IF slot[s].rp THEN op ELSE NoOp
  /\ Started(op, "ACCEPT", s, target)
  /\ displaced' = displaced \cup PendingIn(s)
  /\ UNCHANGED <<loopVars, k, batch, runs, redelivered, missed>>

(* The rest of these five calls, once the system call returns.  An         *)
(* accepted socket is in blocking mode: when nothing can be read from it,  *)
(* the call, and with it the whole loop, stays here.                       *)
Tried ==
  /\ calling # NoOp
  /\ LET s == await[calling].sock
         type == await[calling].type
     IN \E t \in Try(s, type) :
          /\ k' = KernelAfter(s, type, t)
          /\ IF t.r = -EAGAIN
             THEN /\ slot' = IF type = "WRITE" THEN [slot EXCEPT ![s].wp = FALSE]
                                               ELSE [slot EXCEPT ![s].rp = FALSE]
                  /\ UNCHANGED waitset
             ELSE /\ waitset' = SubmitComplete(waitset, Outcome(Event(calling), t.r))
                  /\ slot' = [slot EXCEPT ![s] = Clear(@)]
  /\ calling' = NoOp
  /\ UNCHANGED <<it, canContinue, pc, batch, runs, userVars>>

(* AsyncConnectcb and SubmitConnect: nothing is stored in the slot unless  *)
(* connect() says EWOULDBLOCK, yet the slot is cleared.                    *)
SubmitConnect(s, op) ==
  /\ MayStart(op, s)
  /\ "Connect" \in UserCalls
  /\ Kind[s] = "TCP"
  /\ k[s].reg
  /\ \E o \in ConnectCall(k[s]) :
       LET r == IntResult(o)
       IN /\ k' = [k EXCEPT ![s] = o.fd]
          /\ IF r = -EAGAIN
             THEN /\ slot' = [slot EXCEPT ![s] = Set(@, "CONNECT", op, @.data)]
                  /\ UNCHANGED waitset
             ELSE /\ waitset' = SubmitComplete(waitset, Outcome(Event(op), r))
                  /\ slot' = [slot EXCEPT ![s] = Clear(@)]
  /\ Started(op, "CONNECT", s, NoSock)
  /\ displaced' = displaced \cup PendingIn(s)
  /\ UNCHANGED <<it, canContinue, pc, waiting, calling, batch, runs, redelivered, missed>>

(* Mutant: the time is only set by the first Wait. *)
SubmitTimerKeepsTime(s, zero, op) ==
  /\ MayStart(op, s)
  /\ Kind[s] = "TIMER"
  /\ zero => "Zero" \in UserCalls
  /\ k' = IF slot[s].sock THEN k ELSE [k EXCEPT ![s] = SetTime(@, zero)]
  /\ slot' = [slot EXCEPT ![s] = Set(@, "TIMETICK", op, @.data)]
  /\ Started(op, "TIMETICK", s, NoSock)
  /\ displaced' = displaced \cup PendingIn(s)
  /\ UNCHANGED <<loopVars, waiting, calling, batch, runs, redelivered, missed>>

(* LinuxSteadyTimer::Wait: SetTime and SubmitTimer. *)
SubmitTimer(s, zero, op) ==
  /\ MayStart(op, s)
  /\ Kind[s] = "TIMER"
  /\ zero => "Zero" \in UserCalls
  /\ k' = [k EXCEPT ![s] = SetTime(@, zero)]
  /\ slot' = [slot EXCEPT ![s] = Set(@, "TIMETICK", op, @.data)]
  /\ Started(op, "TIMETICK", s, NoSock)
  /\ displaced' = displaced \cup PendingIn(s)
  /\ UNCHANGED <<loopVars, waiting, calling, batch, runs, redelivered, missed>>

(* LinuxSignalHandler::Wait: a new signalfd, on which the signals that     *)
(* were delivered and never read are still pending.                        *)
SubmitSignal(s, op) ==
  /\ MayStart(op, s)
  /\ Kind[s] = "SIGNALFD"
  /\ ~k[s].reg
  /\ k' = [k EXCEPT ![s] =
             EpollAdd("SIGNALFD", [ClosedFd EXCEPT !.open = TRUE, !.nb = TRUE, !.in = k[s].in])]
  /\ slot' = [slot EXCEPT ![s] = Set(@, "SIGNAL", op, @.data)]
  /\ Started(op, "SIGNAL", s, NoSock)
  /\ displaced' = displaced \cup PendingIn(s)
  /\ UNCHANGED <<loopVars, waiting, calling, batch, runs, redelivered, missed>>

(* SyncRead, SyncWrite and their datagram forms go past the slot; a call   *)
(* that fails changes nothing the model holds.                             *)
SyncTransfer(s) ==
  /\ InUser
  /\ "Sync" \in UserCalls
  /\ Kind[s] \in {"TCP", "UDP"} /\ k[s].reg
  /\ \E o \in RecvMsg(Kind[s], k[s]) \cup SendMsg(k[s]) : k' = [k EXCEPT ![s] = o.fd]
  /\ UNCHANGED <<loopVars, slot, calling, batch, runs, userVars>>

SyncConnect(s) ==
  /\ InUser
  /\ "SyncConnect" \in UserCalls
  /\ Kind[s] = "TCP" /\ k[s].reg
  /\ \E o \in ConnectCall(k[s]) : k' = [k EXCEPT ![s] = o.fd]
  /\ UNCHANGED <<loopVars, slot, calling, batch, runs, userVars>>

(* SyncAccept: accept() and, if it succeeds, Setup() of the new socket.    *)
SyncAccept(s, target) ==
  /\ InUser
  /\ "Sync" \in UserCalls
  /\ Kind[s] = "LISTENER" /\ k[s].reg
  /\ FreeTarget(target)
  /\ \E o \in AcceptCall(k[s]) :
       k' = IF IntResult(o) = 0
            THEN [k EXCEPT ![s] = o.fd, ![target] = EpollAdd("TCP", AcceptedFd)]
            ELSE [k EXCEPT ![s] = o.fd]
  /\ UNCHANGED <<loopVars, slot, calling, batch, runs, userVars>>

(* TCPSocket::Shutdown(R, W or RW); it wakes whoever polls the socket.     *)
Shutdown(s, r, w) ==
  /\ InUser
  /\ "Shutdown" \in UserCalls
  /\ Kind[s] = "TCP" /\ k[s].reg /\ k[s].conn = "est"
  /\ r \/ w
  /\ k' = [k EXCEPT ![s] = Wake([k[s] EXCEPT !.eof = @ \/ r, !.shutW = @ \/ w])]
  /\ UNCHANGED <<loopVars, slot, calling, batch, runs, userVars>>

(* Close: CloseSock, which leaves the slot as it is.  The kernel takes the *)
(* descriptor out of the interest list.                                    *)
Close(s) ==
  /\ InUser
  /\ "Close" \in UserCalls
  /\ Kind[s] \in {"TCP", "UDP", "LISTENER"} /\ k[s].reg
  /\ k' = [k EXCEPT ![s] = ClosedFd]
  /\ missed' = {m \in missed : m[1] # s}
  /\ UNCHANGED <<loopVars, slot, await, waiting, calling, batch, runs, displaced, redelivered>>

-----------------------------------------------------------------------------
(* Context::Run around the handler.                                        *)

NotHere == <<k, slot, calling, batch, runs>>

(* s was given an operation that stores the socket in its slot. *)
Given(s) == \E op \in Ops : await[op].sock = s /\ await[op].type # "CONNECT"

MayLeave == CarefulUser => \A s \in Socks : k[s].reg => Given(s)

StartRun == calling = NoOp /\ MayLeave /\ Run /\ UNCHANGED <<NotHere, userVars>>

LoopTest == Enter /\ UNCHANGED <<NotHere, userVars>>

(* The operation whose code runs when an event completes: AcceptCallback   *)
(* calls what waiting_ holds by now.                                       *)
Callee(ev) ==
  IF await[ev.cb].type = "ACCEPT" THEN waiting[await[ev.cb].sock] ELSE ev.cb

(* AcceptAwait::Resume registers the new socket before the program goes on.*)
Resumed(ev) ==
  LET a == await[Callee(ev)]
  IN IF a.type = "ACCEPT" /\ ev.error = 0
     THEN [k EXCEPT ![a.target] = EpollAdd("TCP", @)] ELSE k

Called(ev) ==
  /\ k' = Resumed(ev)
  /\ runs' = [runs EXCEPT ![Callee(ev)] = IF @ = 2 THEN 2 ELSE @ + 1]
  /\ IF Callee(ev) = ev.cb
     THEN UNCHANGED <<displaced, redelivered>>
     ELSE /\ displaced' = displaced \cup {ev.cb}
          /\ redelivered' = redelivered \cup {Callee(ev)}

StartCallback ==
  /\ Scan
  /\ IF Due(waitset[it]) THEN Called(waitset[it])
                         ELSE UNCHANGED <<k, runs, displaced, redelivered>>
  /\ UNCHANGED <<slot, await, waiting, calling, batch, missed>>

EndCallback == calling = NoOp /\ MayLeave /\ Return /\ UNCHANGED <<NotHere, userVars>>

StartWait == EnterWait /\ UNCHANGED <<NotHere, userVars>>

UserEnd == "End" \in UserCalls /\ calling = NoOp /\ End /\ UNCHANGED <<NotHere, userVars>>

-----------------------------------------------------------------------------
(* Epoll::Wait.                                                            *)

Ready == {s \in Socks : k[s].ready /\ Mask(Kind[s], k[s]) # {}}

(* epoll_wait returns at most MaxEvents sockets of the ready list, each    *)
(* once and with its poll mask; edge-triggered, it forgets those.          *)
Harvest ==
  /\ pc = "wait"
  /\ Ready # {}
  /\ \E S \in SUBSET Ready :
       /\ S = Ready \/ Cardinality(S) = MaxEvents
       /\ Cardinality(S) <= MaxEvents
       /\ batch' = {[sock |-> s, events |-> Mask(Kind[s], k[s])] : s \in S}
       /\ k' = [s \in Socks |-> IF s \in Ready \ S THEN k[s]
                                ELSE [k[s] EXCEPT !.ready = FALSE]]
  /\ pc' = "dispatch"
  /\ UNCHANGED <<waitset, it, canContinue, slot, calling, runs, userVars>>

(* A signal handler ran while epoll_wait slept: it returns -1.             *)
Interrupted ==
  /\ pc = "wait"
  /\ Ready = {}
  /\ pc' = "top"
  /\ UNCHANGED <<waitset, it, canContinue, NotHere, userVars>>

(* One turn of the for loop of Wait. *)
Served(b) ==
  /\ pc = "dispatch"
  /\ slot[b.sock].sock
  /\ batch' = batch \ {b}
  /\ pc' = IF batch = {b} THEN "top" ELSE pc
  /\ UNCHANGED <<it, canContinue, calling, runs, await, waiting, displaced>>

Swallowed(b) == missed' = missed \cup ({b.sock} \X (b.events \cap {"IN", "OUT"}))
Recorded(b) == missed' = missed \ ({b.sock} \X b.events)

(* LinuxSock& sock = *data.sock, while no Set() has stored a socket yet.   *)
DispatchNull(b) ==
  /\ pc = "dispatch"
  /\ ~slot[b.sock].sock
  /\ pc' = "crashed"
  /\ batch' = {}
  /\ UNCHANGED <<waitset, it, canContinue, k, slot, calling, runs, userVars>>

(* EPOLLERR completes the event the slot holds, whatever became of it. *)
DispatchError(b) ==
  /\ Served(b)
  /\ "ERR" \in b.events
  /\ \E e \in Errnos :
       LET ev == [slot[b.sock].ev EXCEPT !.status = "ERR", !.error = e]
       IN /\ waitset' = SubmitComplete(waitset, ev)
          /\ slot' = [slot EXCEPT ![b.sock] = [Clear(@) EXCEPT !.ev = ev]]
  /\ redelivered' = redelivered \cup ({slot[b.sock].ev.cb} \ PendingIn(b.sock))
  /\ Swallowed(b)
  /\ UNCHANGED k

(* Mutant: EPOLLHUP completes a connect as EPOLLOUT does. *)
DispatchHangupSucceeds(b) ==
  /\ Served(b)
  /\ "HUP" \in b.events /\ "ERR" \notin b.events
  /\ slot[b.sock].type = "CONNECT"
  /\ waitset' = SubmitComplete(waitset, slot[b.sock].ev)
  /\ slot' = [slot EXCEPT ![b.sock] = Clear(@)]
  /\ Swallowed(b)
  /\ UNCHANGED <<k, redelivered>>

(* EPOLLHUP fails a connect and nothing else. *)
DispatchHangup(b) ==
  /\ Served(b)
  /\ "HUP" \in b.events /\ "ERR" \notin b.events
  /\ IF slot[b.sock].type = "CONNECT"
     THEN LET ev == [slot[b.sock].ev EXCEPT !.status = "ERR", !.error = 144]
          IN /\ waitset' = SubmitComplete(waitset, ev)
             /\ slot' = [slot EXCEPT ![b.sock] = [Clear(@) EXCEPT !.ev = ev]]
     ELSE UNCHANGED <<waitset, slot>>
  /\ Swallowed(b)
  /\ UNCHANGED <<k, redelivered>>

(* The branches for EPOLLIN and EPOLLOUT. *)
Edge(b) == Served(b) /\ b.events \cap {"ERR", "HUP"} = {} /\ Recorded(b)

(* Mutants: only one of the flags is set. *)
FlaggedIn(b) == [slot[b.sock] EXCEPT !.rp = @ \/ "IN" \in b.events]
FlaggedOut(b) == [slot[b.sock] EXCEPT !.wp = @ \/ "OUT" \in b.events]

Flagged(b) == [slot[b.sock] EXCEPT !.rp = @ \/ "IN" \in b.events,
                                   !.wp = @ \/ "OUT" \in b.events]

(* Mutant: the slot is not cleared. *)
CompletedOnly(b, ev, sl) ==
  /\ waitset' = SubmitComplete(waitset, ev)
  /\ slot' = [slot EXCEPT ![b.sock] = [sl EXCEPT !.ev = ev]]
  /\ UNCHANGED redelivered

Completed(b, ev, sl) ==
  /\ waitset' = SubmitComplete(waitset, ev)
  /\ slot' = [slot EXCEPT ![b.sock] = [Clear(sl) EXCEPT !.ev = ev]]
  /\ UNCHANGED redelivered

(* Mutant: a case of the switch is missing. *)
AwaitedNoRecvfrom(b) ==
  \/ "IN" \in b.events /\ slot[b.sock].type \in {"READ", "ACCEPT", "TIMETICK", "SIGNAL"}
  \/ "OUT" \in b.events /\ slot[b.sock].type \in OutTypes \cup {"CONNECT"}

Awaited(b) ==
  \/ "IN" \in b.events /\ slot[b.sock].type \in InTypes \cup {"TIMETICK", "SIGNAL"}
  \/ "OUT" \in b.events /\ slot[b.sock].type \in OutTypes \cup {"CONNECT"}

(* Nobody waits for what is ready: only rp and wp are set. *)
DispatchIdle(b) ==
  /\ Edge(b)
  /\ ~Awaited(b)
  /\ slot' = [slot EXCEPT ![b.sock] = Flagged(b)]
  /\ UNCHANGED <<waitset, k, redelivered>>

(* READ, RECVFROM, ACCEPT, WRITE and SENDTO: only the last two know        *)
(* EWOULDBLOCK, and SENDTO then resets the flag of the other direction.    *)
DispatchTransfer(b) ==
  LET s == b.sock
      type == slot[s].type
  IN /\ Edge(b)
     /\ Awaited(b)
     /\ type \in InTypes \cup OutTypes
     /\ \E t \in Try(s, type) :
          /\ k' = KernelAfter(s, type, t)
          /\ IF t.r = -EAGAIN /\ type \in OutTypes
             THEN /\ slot' = IF type = "WRITE"
                             THEN [slot EXCEPT ![s] = [Flagged(b) EXCEPT !.wp = FALSE]]
                             ELSE [slot EXCEPT ![s] = [Flagged(b) EXCEPT !.rp = FALSE]]
                  /\ UNCHANGED <<waitset, redelivered>>
             ELSE Completed(b, Outcome(slot[s].ev, t.r), Flagged(b))

DispatchConnect(b) ==
  /\ Edge(b)
  /\ Awaited(b)
  /\ slot[b.sock].type = "CONNECT"
  /\ Completed(b, [slot[b.sock].ev EXCEPT !.status = "COMPLETED"], Flagged(b))
  /\ UNCHANGED k

(* The timer's ticks are not read, and rp is reset. *)
DispatchTimer(b) ==
  /\ Edge(b)
  /\ Awaited(b)
  /\ slot[b.sock].type = "TIMETICK"
  /\ Completed(b, [slot[b.sock].ev EXCEPT !.status = "COMPLETED", !.res = 0],
               [Flagged(b) EXCEPT !.rp = FALSE])
  /\ UNCHANGED k

(* Mutant: the signal is read. *)
DispatchSignalReads(b) ==
  /\ Edge(b)
  /\ Awaited(b)
  /\ slot[b.sock].type = "SIGNAL"
  /\ Completed(b, [slot[b.sock].ev EXCEPT !.status = "COMPLETED", !.res = 1],
               [Flagged(b) EXCEPT !.rp = FALSE])
  /\ k' = [k EXCEPT ![b.sock] = EpollDel([@ EXCEPT !.in = k[b.sock].in - 1])]

(* recvmsg on a signalfd fails with ENOTSOCK, so that the signal is not    *)
(* consumed and its number is read from an uninitialized struct: any       *)
(* number, of which 0 and 1 stand for all.                                 *)
DispatchSignal(b) ==
  /\ Edge(b)
  /\ Awaited(b)
  /\ slot[b.sock].type = "SIGNAL"
  /\ \E signo \in {0, 1} :
       Completed(b, [slot[b.sock].ev EXCEPT !.status = "COMPLETED", !.res = signo],
                 [Flagged(b) EXCEPT !.rp = FALSE])
  /\ k' = [k EXCEPT ![b.sock] = EpollDel(@)]

-----------------------------------------------------------------------------
(* The environment, at any moment while the program runs.                  *)
World(s, fds) ==
  /\ pc \notin {"done", "crashed"}
  /\ \E fd \in fds : k' = [k EXCEPT ![s] = fd]
  /\ UNCHANGED <<loopVars, slot, calling, batch, runs, userVars>>

Tick(s) == World(s, Expire(k[s]))

Submit(op) ==
  \E s \in Socks :
    \/ \E type \in {"READ", "WRITE", "RECVFROM", "SENDTO"} : SubmitTransfer(s, type, op)
    \/ \E t \in Socks : SubmitAccept(s, t, op)
    \/ SubmitConnect(s, op)
    \/ \E zero \in BOOLEAN : SubmitTimer(s, zero, op)
    \/ SubmitSignal(s, op)

DirectCall ==
  \E s \in Socks :
    \/ SyncTransfer(s)
    \/ SyncConnect(s)
    \/ \E t \in Socks : SyncAccept(s, t)
    \/ \E r \in BOOLEAN, w \in BOOLEAN : Shutdown(s, r, w)
    \/ Close(s)

Dispatch ==
  \E b \in batch :
    \/ DispatchNull(b)
    \/ DispatchError(b)
    \/ DispatchHangup(b)
    \/ DispatchIdle(b)
    \/ DispatchTransfer(b)
    \/ DispatchConnect(b)
    \/ DispatchTimer(b)
    \/ DispatchSignal(b)

LoopStep == LoopTest \/ StartCallback \/ StartWait \/ Harvest \/ Dispatch \/ Tried

Environment ==
  \E s \in Socks :
    \/ World(s, Arrive(Kind[s], k[s]))
    \/ World(s, PeerFin(Kind[s], k[s]))
    \/ World(s, PeerReset(Kind[s], k[s]))
    \/ World(s, IcmpError(Kind[s], k[s]))
    \/ World(s, Established(k[s]))
    \/ World(s, Drain(Kind[s], k[s]))
    \/ Tick(s)

Next ==
  \/ \E op \in Ops : Submit(op)
  \/ DirectCall
  \/ UserEnd
  \/ StartRun
  \/ EndCallback
  \/ LoopStep
  \/ Interrupted
  \/ Environment

Spec == Init /\ [][Next]_vars

(* The thread keeps running Context::Run, the program's own code returns   *)
(* (neither setup nor a callback computes for ever), and an armed timer    *)
(* expires.  Nothing is assumed of the network.                            *)
Fairness ==
  /\ WF_vars(LoopStep)
  /\ WF_vars(StartRun \/ EndCallback)
  /\ WF_vars(\E s \in Socks : Tick(s))

FairSpec == Spec /\ Fairness
=============================================================================
