------------------------------ MODULE EpollInv ------------------------------
(***************************************************************************)
(* The inductive invariant of Epoll: why its safety properties hold, in    *)
(* parts that refer to one relation each.                                  *)
(***************************************************************************)
EXTENDS EpollProps

(* Sockets of a kind only hold operations of that kind. *)
Fits(kind, type) ==
  CASE type \in {"READ", "WRITE", "CONNECT"} -> kind = "TCP"
    [] type \in {"RECVFROM", "SENDTO"} -> kind = "UDP"
    [] type = "ACCEPT" -> kind = "LISTENER"
    [] type = "TIMETICK" -> kind = "TIMER"
    [] type = "SIGNAL" -> kind = "SIGNALFD"
    [] OTHER -> TRUE

(* A slot that was set holds an event of an operation on its own socket,   *)
(* even after Clear().                                                     *)
SlotInv ==
  \A s \in Socks : slot[s].sock =>
    /\ slot[s].ev.cb \in Ops
    /\ await[slot[s].ev.cb].sock = s
    /\ Fits(Kind[s], slot[s].type)
    /\ slot[s].type = "ACCEPT" => slot[s].data \in Fresh

(* The awaitable of an operation refers to sockets of the program, and an  *)
(* acceptor that was asked to accept holds the callback of an accept.      *)
AwaitInv ==
  \A op \in Ops :
    /\ await[op] # Unissued => await[op].sock \in Socks
    /\ await[op].type = "ACCEPT" =>
         /\ await[op].target \in Fresh
         /\ waiting[await[op].sock] \in Ops
         /\ await[waiting[await[op].sock]].type = "ACCEPT"

(* A system call within Submit belongs to the operation just put in the    *)
(* slot, in a direction that was flagged.                                  *)
CallingInv ==
  calling # NoOp =>
    /\ pc \in {"setup", "callback"}
    /\ await[calling].sock \in Socks
    /\ LET sl == slot[await[calling].sock]
       IN /\ sl.sock
          /\ sl.ev.cb = calling
          /\ sl.type = await[calling].type
          /\ (sl.type \in InTypes /\ sl.rp) \/ (sl.type \in OutTypes /\ sl.wp)

(* Events are only left to dispatch while Wait dispatches them.             *)
BatchInv == pc # "dispatch" => batch = {}

(* The structural part: every variable has its type, and the references    *)
(* between slots, awaitables and events resolve.                           *)
StructInv ==
  /\ TypeOK
  /\ LoopInv
  /\ BatchInv
  /\ SlotInv
  /\ AwaitInv
  /\ CallingInv

(* Facts about descriptors the kernel keeps. *)
DescriptorInv ==
  \A s \in Socks :
    /\ k[s].ready => k[s].reg
    /\ Kind[s] = "LISTENER" => ~k[s].eof /\ k[s].conn = "est"

(* Readiness, descriptors and flags agree. *)
WakeInv ==
  /\ StructInv
  /\ DescriptorInv
  /\ NoLostWakeup

(* Every operation but a connect has stored its socket in its slot, and a  *)
(* careful program gives each socket one before it leaves its own code.    *)
CarefulInv ==
  CarefulUser =>
    /\ \A op \in Ops :
         Issued(op) /\ await[op].type # "CONNECT" => slot[await[op].sock].sock
    /\ pc \notin {"setup", "callback"} => \A s \in Socks : k[s].reg => slot[s].sock
    /\ \A b \in batch : slot[b.sock].sock
    /\ pc # "crashed"

Inv ==
  /\ WakeInv
  /\ NothingWaitsForTheFlag
  /\ CarefulInv

-----------------------------------------------------------------------------
(* Deliveries.                                                             *)

(* A slot that is not idle holds an operation of its own type, which was   *)
(* never completed; the socket of an operation is of a kind that has it.   *)
TypesInv ==
  /\ \A s \in Socks :
       slot[s].sock /\ slot[s].type # "NOOP" =>
         /\ await[slot[s].ev.cb].type = slot[s].type
         /\ slot[s].ev = Event(slot[s].ev.cb)
  /\ \A op \in Ops : Issued(op) => Fits(Kind[await[op].sock], await[op].type)

(* Only operations the program started are queued, displaced or delivered  *)
(* again.                                                                  *)
IssuedInv ==
  /\ \A i \in 1..Len(waitset) : Issued(waitset[i].cb)
  /\ \A op \in displaced \cup redelivered : Issued(op)

DeliveryInv ==
  /\ StructInv
  /\ TypesInv
  /\ IssuedInv
  /\ ExactlyOnce

-----------------------------------------------------------------------------
(* What never happens to some descriptors.                                 *)

(* An acceptor, a timer and a signal descriptor have no error and no end   *)
(* of file; only timers are armed, and have no tick while they are.        *)
CalmKinds == {"LISTENER", "TIMER", "SIGNALFD"}

Calm(fd) == ~fd.err /\ ~fd.eof /\ fd.conn = "est"

CalmInv ==
  /\ \A s \in Socks : Kind[s] \in CalmKinds => Calm(k[s])
  /\ \A s \in Socks : Kind[s] # "TIMER" \/ k[s].in > 0 => ~k[s].armed
  /\ \A b \in batch : Kind[b.sock] \in CalmKinds => b.events \subseteq {"IN"}
  /\ \A b \in batch :
       Kind[b.sock] \in {"TIMER", "SIGNALFD"} /\ "IN" \in b.events => k[b.sock].in > 0

(* A handshake that is over stays over, and one that succeeded is not      *)
(* undone.  Wait tells a connect of one that is over only, and of a        *)
(* refused one, which epoll reports with EPOLLHUP, only for its EPOLLERR.  *)
Settled(fd) == fd.conn \in {"est", "reset", "refused"}
Won(fd) == fd.conn \in {"est", "reset"}
Refusal(fd) == fd.conn = "refused" => fd.eof /\ fd.shutW

ConnectInv ==
  /\ \A s \in Socks : Kind[s] = "TCP" =>
       /\ k[s].err => Settled(k[s])
       /\ Refusal(k[s])
  /\ \A b \in batch : Kind[b.sock] = "TCP" =>
       /\ "ERR" \in b.events => Settled(k[b.sock])
       /\ "OUT" \in b.events /\ "HUP" \notin b.events => Won(k[b.sock])
  /\ \A i \in 1..Len(waitset) :
       await[waitset[i].cb].type = "CONNECT" /\ waitset[i].error = 0 =>
         /\ Settled(k[await[waitset[i].cb].sock])
         /\ waitset[i].status = "COMPLETED" => Won(k[await[waitset[i].cb].sock])

(* A timer descriptor is always registered, and the edge of a tick beside  *)
(* a wait was not reported and served yet.                                 *)
TickInv ==
  \A s \in Socks : Kind[s] = "TIMER" =>
    /\ k[s].reg
    /\ (PendingIn(s) # {} /\ k[s].in > 0 /\ pc # "crashed") =>
         k[s].ready \/ \E b \in batch : b.sock = s /\ "IN" \in b.events

(* Only accepted sockets are registered in blocking mode, and a socket     *)
(* stays registered while a call on it is under way.                       *)
BlockInv ==
  /\ \A s \in Socks \ Fresh : k[s].reg => k[s].nb
  /\ calling # NoOp => k[await[calling].sock].reg

(* Nothing fails where nothing is refused or reset. *)
FaultlessInv ==
  Faults \cap {"RST", "ICMP"} = {} =>
    /\ \A s \in Socks : ~k[s].err
    /\ \A b \in batch : "ERR" \notin b.events

-----------------------------------------------------------------------------
(* Programs whose operations do not overlap.                               *)

(* An accept that was not called is the one its acceptor calls, and an     *)
(* operation that EPOLLERR delivers again is in no slot.                   *)
OwnInv ==
  ~Overlap =>
    /\ \A op \in Ops : await[op].type = "ACCEPT" =>
         op \notin redelivered /\ (runs[op] = 0 => waiting[await[op].sock] = op)
    /\ \A s \in Socks : PendingIn(s) \cap redelivered = {}

(* The accepts that wait, and the completed ones whose callback has not    *)
(* started.                                                                *)
Accepting(s) == slot[s].sock /\ slot[s].type = "ACCEPT"

ToResume(i) ==
  /\ await[waitset[i].cb].type = "ACCEPT"
  /\ waitset[i].error = 0
  /\ ~(pc = "callback" /\ i <= it)

(* Each target belongs to one of them: it has no descriptor while its      *)
(* accept waits, and one that is not registered until it resumes.          *)
AcceptInv ==
  ~Overlap =>
    /\ \A s \in Socks : Accepting(s) =>
         slot[s].data = await[slot[s].ev.cb].target /\ ~k[slot[s].data].open
    /\ \A s, x \in Socks :
         Accepting(s) /\ Accepting(x) /\ slot[s].data = slot[x].data => s = x
    /\ \A i \in 1..Len(waitset) : ToResume(i) =>
         LET t == await[waitset[i].cb].target IN k[t].open /\ ~k[t].reg
    /\ \A i, j \in 1..Len(waitset) :
         /\ ToResume(i) /\ ToResume(j)
         /\ await[waitset[i].cb].target = await[waitset[j].cb].target
         => i = j
=============================================================================
