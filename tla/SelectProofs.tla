---------------------------- MODULE SelectProofs ----------------------------
(***************************************************************************)
(* The select loop: what waits in an entry of socks_ waits there alone, is *)
(* in no list, and completes once; what the calls of the handler moved is  *)
(* what the callbacks were told.  For any sockets and operations.          *)
(***************************************************************************)
EXTENDS SelectLoop, ContextProofs

Dirs == {"in", "out"}
Entries == [in : Slots, out : Slots]

Listed(op) == \E i \in 1..Len(waitset) : waitset[i].cb = op
Completed(op) == runs[op] > 0 \/ Listed(op)
Issued(op) == await[op] # Unissued

-----------------------------------------------------------------------------
(* The invariant.                                                          *)

Descriptors == [conn : {"closed", "idle", "connecting", "est", "refused"},
                inq : Seq({0, 1}), fin : BOOLEAN, reset : BOOLEAN, room : BOOLEAN]
Awaits == [type : Types \cup {"unset"}, sock : Socks \cup {NoSock},
           target : Socks \cup {NoSock}, len : {0, 1}]
Handles == [Socks -> {"none", "open", "invalid"}]
Tables == [Keys -> Entries]

TypesInv ==
  /\ LoopInv
  /\ handle \in Handles
  /\ kernel \in [Socks -> Descriptors]
  /\ socks \in Tables
  /\ rs \subseteq Socks /\ ws \subseteq Socks
  /\ await \in [Ops -> Awaits]
  /\ runs \in [Ops -> 0..2] /\ units \in [Ops -> 0..2] /\ empties \in [Ops -> 0..2]
  /\ told \in [Ops -> {"nothing", "ok", "zero", "error", "invalid"}]
  /\ dropped \subseteq Ops
  /\ vanished \in BOOLEAN

(* An operation that was not started left no trace; one that was is one    *)
(* its socket offers.                                                      *)
Untouched(op) ==
  /\ ~Completed(op) /\ op \notin dropped /\ told[op] = "nothing"
  /\ units[op] = 0 /\ empties[op] = 0

Offered(w) ==
  /\ w.sock \in Socks /\ w.type \in Offers(Kind[w.sock])
  /\ w.type = "ACCEPT" <=> w.target # NoSock
  /\ w.target # NoSock => Kind[w.target] = "TCP"
  /\ w.len = 0 => w.type = "SENDTO"

AwaitInv ==
  \A op \in Ops : /\ ~Issued(op) => Untouched(op)
                  /\ Issued(op) => Offered(await[op])

(* What waits in an entry: an operation on the socket of that key, in its  *)
(* direction, which has not completed.                                     *)
Waits(h, d, q) == socks[h][d].active /\ socks[h][d].op = q

Holds(h, d, q) ==
  /\ Issued(q) /\ ~Completed(q) /\ q \notin dropped
  /\ Key(await[q].sock) = h /\ handle[await[q].sock] # "none"
  /\ Dir(await[q].type) = d
  /\ socks[h][d].type = await[q].type /\ socks[h][d].data = await[q].target

SlotInv ==
  \A h \in Keys, d \in Dirs :
    /\ socks[h][d].active => socks[h][d].op \in Ops
    /\ \A q \in Ops : Waits(h, d, q) => Holds(h, d, q)

(* The target of an accept that runs is no other's, and nothing waits for it. *)
TargetInv ==
  \A p \in Ops : (Running(p) /\ await[p].target # NoSock) =>
    /\ \A q \in Ops : (Running(q) /\ q # p) => await[q].target # await[p].target
    /\ \A h \in Keys, d \in Dirs, q \in Ops :
         Waits(h, d, q) => await[q].sock # await[p].target

(* Each operation is at most once in the list, until its callback is called. *)
QueueInv ==
  /\ \A i \in Lo..Len(waitset) : runs[waitset[i].cb] = 0
  /\ \A i \in 1..Len(waitset) : waitset[i].cb \notin dropped
  /\ \A i, j \in Lo..Len(waitset) : waitset[i].cb = waitset[j].cb => i = j
  /\ pc = "callback" => runs[waitset[1].cb] > 0
  /\ \A op \in dropped : runs[op] = 0

(* What select() reported stays so until it is served, but for connections *)
(* that vanish.                                                            *)
Reported(h, d) ==
  /\ socks[h][d].active /\ kernel[h].conn = "est"
  /\ Ready(kernel[h], d) \/ (Kind[h] = "LISTEN" /\ vanished)

BatchInv ==
  /\ pc # "dispatch" => rs = {} /\ ws = {}
  /\ \A h \in rs : Reported(h, "in")
  /\ \A h \in ws : Reported(h, "out")

Sane(s, fd) ==
  /\ fd.reset => fd.conn = "est" /\ Kind[s] = "TCP"
  /\ fd.fin => Kind[s] = "TCP"
  /\ Kind[s] # "UDP" => \A i \in 1..Len(fd.inq) : fd.inq[i] = 1

KernelInv ==
  /\ \A s \in Socks : Sane(s, kernel[s])
  /\ \A s \in Socks : handle[s] = "invalid" => Kind[s] = "TCP"

CoreInv ==
  /\ TypesInv
  /\ AwaitInv
  /\ SlotInv
  /\ TargetInv
  /\ QueueInv
  /\ BatchInv
  /\ KernelInv

-----------------------------------------------------------------------------
(* The calls.                                                              *)
LEMMA Constants ==
  /\ NoSock \notin Socks /\ INVALID_SOCKET \notin Socks /\ Socks \subseteq Keys
  /\ INVALID_SOCKET \in Keys
  /\ \A s \in Socks : Kind[s] \in {"LISTEN", "TCP", "UDP"}
  /\ "unset" \notin Types /\ NoOp \notin Ops
  BY SelectAssumption, NoOpAssumption DEF Keys, Types, InTypes, OutTypes

LEMMA OfferedTypes ==
  ASSUME NEW s \in Socks, NEW type \in Offers(Kind[s])
  PROVE  /\ type \in Types /\ Dir(type) \in Dirs
         /\ type = "ACCEPT" <=> Kind[s] = "LISTEN"
         /\ type \in {"RECVFROM", "SENDTO"} <=> Kind[s] = "UDP"
         /\ type \in {"READ", "WRITE", "CONNECT"} <=> Kind[s] = "TCP"
<1>1. CASE Kind[s] = "LISTEN" BY <1>1 DEF Offers, Types, InTypes, OutTypes, Dir, Dirs
<1>2. CASE Kind[s] = "TCP" BY <1>2 DEF Offers, Types, InTypes, OutTypes, Dir, Dirs
<1>3. CASE Kind[s] = "UDP" BY <1>3 DEF Offers, Types, InTypes, OutTypes, Dir, Dirs
<1> QED BY <1>1, <1>2, <1>3, Constants

LEMMA FreshDescriptors ==
  /\ ClosedFd \in Descriptors /\ AcceptedFd \in Descriptors
  /\ \A s \in Socks : NewFd(Kind[s]) \in Descriptors
  /\ \A s \in Socks : /\ Sane(s, ClosedFd) /\ Sane(s, AcceptedFd)
                      /\ Sane(s, NewFd(Kind[s]))
<1>1. <<>> \in Seq({0, 1}) /\ Len(<<>>) = 0 BY EmptySeq
<1>2. ClosedFd \in Descriptors BY <1>1 DEF ClosedFd, Descriptors
<1>3. AcceptedFd \in Descriptors BY <1>2 DEF AcceptedFd, Descriptors
<1>4. \A s \in Socks : NewFd(Kind[s]) \in Descriptors BY <1>2 DEF NewFd, Descriptors
<1>5. /\ ~ClosedFd.reset /\ ~ClosedFd.fin /\ ClosedFd.inq = <<>>
      /\ ~AcceptedFd.reset /\ ~AcceptedFd.fin /\ AcceptedFd.inq = <<>>
      /\ \A s \in Socks : /\ ~NewFd(Kind[s]).reset /\ ~NewFd(Kind[s]).fin
                          /\ NewFd(Kind[s]).inq = <<>>
  BY DEF ClosedFd, AcceptedFd, NewFd
<1> QED BY <1>1, <1>2, <1>3, <1>4, <1>5 DEF Sane

(* What a call leaves of its descriptor. *)
Leaves(fd, d, new) ==
  /\ new \in Descriptors
  /\ new.conn = fd.conn /\ new.reset = fd.reset /\ new.fin = fd.fin
  /\ d = "in" => new.room = fd.room
  /\ d = "out" => new.inq = fd.inq
  /\ new.inq = fd.inq \/ (fd.inq # <<>> /\ new.inq = Tail(fd.inq))

(* What it says of what it moved. *)
Says(s, fd, d, len, t) ==
  /\ t.r \in Int /\ t.again \in BOOLEAN /\ t.unit \in {-1, 0, 1}
  /\ t.r < 0 => t.unit = -1
  /\ t.r > 0 => t.unit = 1
  /\ t.r = 0 => t.unit # 1
  /\ t.unit = 0 => Kind[s] = "UDP" \/ (d = "out" /\ len = 0)
  /\ (t.r = 0 /\ t.unit = -1 /\ Ready(fd, d)) => d = "in" /\ Kind[s] = "TCP"

LEMMA Tail01 ==
  ASSUME NEW q \in Seq({0, 1}), q # <<>>
  PROVE  /\ Tail(q) \in Seq({0, 1}) /\ Head(q) \in {0, 1} /\ Head(q) = q[1]
         /\ 1 \in 1..Len(q)
         /\ \A i \in 1..Len(Tail(q)) : \E j \in 1..Len(q) : Tail(q)[i] = q[j]
<1>1. Len(q) \in Nat \ {0} BY EmptySeq
<1>2. Len(Tail(q)) = Len(q) - 1 /\ \A i \in 1..Len(Tail(q)) : Tail(q)[i] = q[i + 1]
  BY HeadTailProperties
<1>3. \A i \in 1..Len(Tail(q)) : i + 1 \in 1..Len(q) BY <1>1, <1>2
<1> QED BY <1>1, <1>2, <1>3, HeadTailProperties

LEMMA LeavesSane ==
  ASSUME NEW s \in Socks, NEW fd \in Descriptors, Sane(s, fd), NEW d, NEW new, Leaves(fd, d, new)
  PROVE  Sane(s, new)
<1>1. fd.inq \in Seq({0, 1}) BY DEF Descriptors
<1>2. \A i \in 1..Len(new.inq) : \E j \in 1..Len(fd.inq) : new.inq[i] = fd.inq[j]
  <2>1. CASE new.inq = fd.inq BY <2>1
  <2>2. CASE fd.inq # <<>> /\ new.inq = Tail(fd.inq) BY <1>1, <2>2, Tail01
  <2> QED BY <2>1, <2>2 DEF Leaves
<1> QED BY <1>2 DEF Sane, Leaves

(* A call that moved nothing, and one that moved something. *)
LEMMA NothingMoved ==
  ASSUME NEW s, NEW fd, NEW d, NEW len, NEW t, t.r \in Int, t.r <= 0, t.again \in BOOLEAN,
         t.unit = -1, t.r = 0 /\ Ready(fd, d) => d = "in" /\ Kind[s] = "TCP"
  PROVE  Says(s, fd, d, len, t)
<1>1. t.unit \in {-1, 0, 1} OBVIOUS
<1>2. ~(t.r > 0) OBVIOUS
<1>3. t.unit # 1 /\ t.unit # 0 OBVIOUS
<1> QED BY <1>1, <1>2, <1>3 DEF Says

LEMMA UnitMoved ==
  ASSUME NEW s, NEW fd, NEW d, NEW len, NEW t, NEW r \in {0, 1},
         t.r = r, t.unit = r, t.again = FALSE,
         r = 0 => Kind[s] = "UDP" \/ (d = "out" /\ len = 0)
  PROVE  Says(s, fd, d, len, t)
<1>1. t.r \in Int /\ t.unit \in {-1, 0, 1} /\ ~(t.r < 0) OBVIOUS
<1>2. t.r > 0 => t.unit = 1 OBVIOUS
<1>3. t.r = 0 => t.unit # 1 OBVIOUS
<1>4. t.unit = 0 => Kind[s] = "UDP" \/ (d = "out" /\ len = 0) OBVIOUS
<1>5. t.unit # -1 OBVIOUS
<1>6. t.again \in BOOLEAN BY ONLY t.again = FALSE
<1> QED BY <1>1, <1>2, <1>3, <1>4, <1>5, <1>6 DEF Says

LEMMA Unmoved ==
  ASSUME NEW fd \in Descriptors, NEW d PROVE Leaves(fd, d, fd)
  BY DEF Leaves

LEMMA FailedOutcome ==
  ASSUME NEW s, NEW fd \in Descriptors, NEW d, NEW len, NEW err \in Nat \ {0}
  PROVE  Leaves(fd, d, Failed(fd, err).fd) /\ Says(s, fd, d, len, Failed(fd, err))
<1> DEFINE t == Failed(fd, err)
<1>1. t.r = -err /\ t.again = FALSE /\ t.unit = -1 /\ t.fd = fd BY DEF Failed
<1> HIDE DEF t
<1>2. t.r \in Int /\ t.r <= 0 /\ t.r # 0 BY <1>1
<1>3. t.again \in BOOLEAN BY ONLY <1>1
<1>4. Says(s, fd, d, len, t) BY <1>1, <1>2, <1>3, NothingMoved
<1> QED BY <1>1, <1>4, Unmoved DEF t

LEMMA WouldBlockOutcome ==
  ASSUME NEW s, NEW fd \in Descriptors, NEW d, NEW len,
         Ready(fd, d) => d = "in" /\ Kind[s] = "TCP"
  PROVE  Leaves(fd, d, WouldBlock(fd).fd) /\ Says(s, fd, d, len, WouldBlock(fd))
<1> DEFINE t == WouldBlock(fd)
<1>1. t.r = 0 /\ t.again = TRUE /\ t.unit = -1 /\ t.fd = fd BY DEF WouldBlock
<1> HIDE DEF t
<1>2. t.r \in Int /\ t.r <= 0 BY <1>1
<1>3. t.again \in BOOLEAN BY ONLY <1>1
<1>4. Says(s, fd, d, len, t) BY <1>1, <1>2, <1>3, NothingMoved
<1> QED BY <1>1, <1>4, Unmoved DEF t

LEMMA RecvOutcome ==
  ASSUME NEW s \in Socks, NEW fd \in Descriptors, Sane(s, fd), NEW len, NEW t \in Recv(fd)
  PROVE  Leaves(fd, "in", t.fd) /\ Says(s, fd, "in", len, t)
<1>0. fd.inq \in Seq({0, 1}) BY DEF Descriptors
<1>1. CASE fd.reset
  <2>1. t = Failed(fd, WSAECONNRESET) BY <1>1 DEF Recv
  <2> QED BY <2>1, FailedOutcome DEF WSAECONNRESET
<1>2. CASE ~fd.reset /\ fd.conn # "est"
  <2>1. t = Failed(fd, WSAENOTCONN) BY <1>2 DEF Recv
  <2> QED BY <2>1, FailedOutcome DEF WSAENOTCONN
<1>3. CASE ~fd.reset /\ fd.conn = "est" /\ fd.inq # <<>>
  <2>1. t = [r |-> Head(fd.inq), again |-> FALSE, unit |-> Head(fd.inq),
             fd |-> [fd EXCEPT !.inq = Tail(@)]]
    BY <1>3 DEF Recv
  <2>2. /\ Tail(fd.inq) \in Seq({0, 1}) /\ Head(fd.inq) \in {0, 1}
        /\ Head(fd.inq) = fd.inq[1] /\ 1 \in 1..Len(fd.inq)
    BY <1>0, <1>3, Tail01
  <2>3. Leaves(fd, "in", t.fd) BY <1>3, <2>1, <2>2 DEF Descriptors, Leaves
  <2>4. Head(fd.inq) = 0 => Kind[s] = "UDP" BY <2>2 DEF Sane
  <2>5. t.r = Head(fd.inq) /\ t.unit = Head(fd.inq) /\ t.again = FALSE BY <2>1
  <2>6. Says(s, fd, "in", len, t) BY <2>2, <2>4, <2>5, UnitMoved
  <2> QED BY <2>3, <2>6
<1>4. CASE ~fd.reset /\ fd.conn = "est" /\ fd.inq = <<>> /\ fd.fin
  <2>1. Kind[s] = "TCP" BY <1>4 DEF Sane
  <2>2. t = [r |-> 0, again |-> FALSE, unit |-> -1, fd |-> fd] BY <1>4 DEF Recv
  <2>3. t.r = 0 /\ t.again = FALSE /\ t.unit = -1 /\ t.fd = fd BY <2>2
  <2>4. t.r \in Int /\ t.r <= 0 BY <2>3
  <2>5. t.again \in BOOLEAN BY ONLY <2>3
  <2>6. Says(s, fd, "in", len, t) BY <2>1, <2>3, <2>4, <2>5, NothingMoved
  <2> QED BY <2>3, <2>6, Unmoved
<1>5. CASE ~fd.reset /\ fd.conn = "est" /\ fd.inq = <<>> /\ ~fd.fin
  <2>1. t = WouldBlock(fd) BY <1>5 DEF Recv
  <2>2. ~Ready(fd, "in") BY <1>5 DEF Ready
  <2> QED BY <2>1, <2>2, WouldBlockOutcome
<1> QED BY <1>1, <1>2, <1>3, <1>4, <1>5

LEMMA SendOutcome ==
  ASSUME NEW s \in Socks, NEW fd \in Descriptors, NEW len \in {0, 1}, NEW t \in Send(fd, len)
  PROVE  Leaves(fd, "out", t.fd) /\ Says(s, fd, "out", len, t)
<1>1. CASE fd.reset
  <2>1. t = Failed(fd, WSAECONNRESET) BY <1>1 DEF Send
  <2> QED BY <2>1, FailedOutcome DEF WSAECONNRESET
<1>2. CASE ~fd.reset /\ fd.conn # "est"
  <2>1. t = Failed(fd, WSAENOTCONN) BY <1>2 DEF Send
  <2> QED BY <2>1, FailedOutcome DEF WSAENOTCONN
<1>3. CASE ~fd.reset /\ fd.conn = "est" /\ fd.room
  <2>1. \E more \in BOOLEAN : t = [r |-> len, again |-> FALSE, unit |-> len,
                                   fd |-> [fd EXCEPT !.room = more]]
    BY <1>3 DEF Send
  <2>2. Leaves(fd, "out", t.fd) BY <2>1 DEF Descriptors, Leaves
  <2>3. t.r = len /\ t.unit = len /\ t.again = FALSE BY <2>1
  <2>4. Says(s, fd, "out", len, t) BY <2>3, UnitMoved
  <2> QED BY <2>2, <2>4
<1>4. CASE ~fd.reset /\ fd.conn = "est" /\ ~fd.room
  <2>1. t = WouldBlock(fd) BY <1>4 DEF Send
  <2>2. ~Ready(fd, "out") BY <1>4 DEF Ready
  <2> QED BY <2>1, <2>2, WouldBlockOutcome
<1> QED BY <1>1, <1>2, <1>3, <1>4

LEMMA TryOutcome ==
  ASSUME TypesInv, KernelInv, NEW s \in Socks, NEW type \in Types, NEW len \in {0, 1},
         NEW t \in Try(s, type, len)
  PROVE  /\ Leaves(kernel[s], Dir(type), t.fd) /\ Says(s, kernel[s], Dir(type), len, t)
         /\ Sane(s, t.fd)
<1>1. kernel[s] \in Descriptors /\ Sane(s, kernel[s]) BY DEF TypesInv, KernelInv
<1>2. Dir(type) \in Dirs BY DEF Dir, Dirs
<1>3. Leaves(kernel[s], Dir(type), t.fd) /\ Says(s, kernel[s], Dir(type), len, t)
  <2>1. CASE Dir(type) = "in" BY <1>1, <2>1, RecvOutcome DEF Try
  <2>2. CASE Dir(type) = "out"
    <3>1. t \in Send(kernel[s], len) BY <2>2 DEF Try
    <3> QED BY <1>1, <2>2, <3>1, SendOutcome
  <2> QED BY <1>2, <2>1, <2>2 DEF Dirs
<1> QED BY <1>1, <1>3, LeavesSane
-----------------------------------------------------------------------------
(* What a step changes of the list.                                        *)

LEMMA ListTyped ==
  ASSUME LoopInv
  PROVE  /\ waitset \in Seq(CompletedEvents) /\ Len(waitset) \in Nat
         /\ \A i \in 1..Len(waitset) : waitset[i].cb \in Ops
         /\ Lo \in {1, 2} /\ (pc = "callback" => 1 \in 1..Len(waitset))
<1>1. waitset \in Seq(CompletedEvents) /\ Len(waitset) \in Nat
  BY LenProperties DEF LoopInv
<1>2. \A i \in 1..Len(waitset) : waitset[i] \in CompletedEvents BY <1>1, ElementOfSeq
<1>3. \A i \in 1..Len(waitset) : waitset[i].cb \in Ops BY <1>2 DEF CompletedEvents
<1>4. pc = "callback" => 1 \in 1..Len(waitset) BY <1>1, EmptySeq DEF LoopInv
<1> QED BY <1>1, <1>3, <1>4 DEF Lo

LEMMA ListedAppended ==
  ASSUME LoopInv, NEW ev \in Events, ev.cb \in Ops, waitset' = SubmitComplete(waitset, ev)
  PROVE  \A q \in Ops : Listed(q)' <=> (Listed(q) \/ q = ev.cb)
<1> DEFINE n == Len(waitset) + 1
<1>1. Len(waitset) \in Nat BY ListTyped
<1>2. /\ Len(waitset') = n
      /\ \A i \in 1..Len(waitset) : waitset'[i] = waitset[i]
      /\ waitset'[n].cb = ev.cb
  BY SubmitCompleteElements DEF LoopInv
<1>3. \A i \in 1..n : i \in 1..Len(waitset) \/ i = n BY <1>1
<1>4. n \in 1..n /\ \A i \in 1..Len(waitset) : i \in 1..n BY <1>1
<1> HIDE DEF n
<1> QED BY <1>2, <1>3, <1>4 DEF Listed

LEMMA QueueAppended ==
  ASSUME LoopInv, QueueInv, NEW ev \in Events, ev.cb \in Ops,
         ~Listed(ev.cb), runs[ev.cb] = 0, ev.cb \notin dropped,
         waitset' = SubmitComplete(waitset, ev), UNCHANGED <<pc, runs, dropped>>
  PROVE  QueueInv'
<1> DEFINE n == Len(waitset) + 1
<1>1. Len(waitset) \in Nat /\ Lo \in {1, 2} /\ (pc = "callback" => 1 \in 1..Len(waitset))
  BY ListTyped
<1>2. /\ Len(waitset') = n
      /\ \A i \in 1..Len(waitset) : waitset'[i] = waitset[i]
      /\ waitset'[n].cb = ev.cb
  BY SubmitCompleteElements DEF LoopInv
<1>3. \A i \in 1..n : i \in 1..Len(waitset) \/ i = n BY <1>1
<1>4. \A i \in Lo..n : i \in 1..n /\ (i \in Lo..Len(waitset) \/ i = n) BY <1>1
<1>5. \A i \in Lo..Len(waitset) : i \in 1..Len(waitset) BY <1>1
<1>6. Lo' = Lo BY DEF Lo
<1>7. \A i \in 1..Len(waitset) : waitset[i].cb # ev.cb BY DEF Listed
<1> HIDE DEF n
<1>8. \A i \in Lo..n : runs[waitset'[i].cb] = 0
  BY <1>2, <1>4, <1>5 DEF QueueInv
<1>9. \A i \in 1..n : waitset'[i].cb \notin dropped
  BY <1>2, <1>3 DEF QueueInv
<1>10. \A i, j \in Lo..n : waitset'[i].cb = waitset'[j].cb => i = j
  BY <1>2, <1>4, <1>5, <1>7 DEF QueueInv
<1>11. pc = "callback" => runs[waitset'[1].cb] > 0
  BY <1>1, <1>2 DEF QueueInv
<1> QED BY <1>2, <1>6, <1>8, <1>9, <1>10, <1>11 DEF QueueInv

(* Whom a step concerns. *)
LEMMA Traces ==
  ASSUME AwaitInv, NEW op \in Ops
  PROVE  Completed(op) \/ op \in dropped => Issued(op)
  BY DEF AwaitInv, Untouched

LEMMA AwaitKept ==
  ASSUME AwaitInv,
         \A q \in Ops : \/ Issued(q)' /\ Offered(await'[q])
                        \/ /\ await'[q] = await[q] /\ told'[q] = told[q]
                           /\ units'[q] = units[q] /\ empties'[q] = empties[q]
                           /\ Completed(q)' => Completed(q)
                           /\ q \in dropped' => q \in dropped \/ Issued(q)
  PROVE  AwaitInv'
  BY DEF AwaitInv, Untouched, Issued, Offered

LEMMA HoldsKept ==
  ASSUME NEW h, NEW d, NEW q, Holds(h, d, q), socks'[h][d] = socks[h][d],
         await'[q] = await[q], Completed(q)' => Completed(q),
         q \in dropped' => q \in dropped,
         handle'[await[q].sock] = handle[await[q].sock]
  PROVE  Holds(h, d, q)'
  BY DEF Holds, Key, Issued

-----------------------------------------------------------------------------
(* A Submit call: the operation op, w, waits in its slot, or is put in the *)
(* list.                                                                   *)
Posts(op) == \E ev \in Events : ev.cb = op /\ waitset' = SubmitComplete(waitset, ev)

Begins(op, w) ==
  /\ pc \in {"setup", "callback"} /\ await[op] = Unissued
  /\ w \in Awaits /\ w # Unissued /\ Offered(w) /\ Usable(w.sock)
  /\ await' = [await EXCEPT ![op] = w]
  /\ UNCHANGED <<it, canContinue, pc, rs, ws, told, runs, dropped, vanished>>
  /\ w.target # NoSock =>
       /\ handle[w.target] = "none"
       /\ \A p \in Ops : Running(p) => await[p].target # w.target
  /\ \A s \in Socks : s # w.target => handle'[s] = handle[s]
  /\ \A q \in Ops : q # op => units'[q] = units[q] /\ empties'[q] = empties[q]
  /\ waitset' = waitset \/ Posts(op)
  /\ \A h \in Keys, d \in Dirs :
       \/ (h # Key(w.sock) \/ d # Dir(w.type)) /\ socks'[h][d] = socks[h][d]
       \/ /\ h = Key(w.sock) /\ d = Dir(w.type) /\ waitset' = waitset
          /\ socks'[h][d].active
          /\ socks'[h][d].op = op /\ socks'[h][d].type = w.type
          /\ socks'[h][d].data = w.target
       \/ /\ h = Key(w.sock) /\ d = Dir(w.type) /\ Posts(op)
          /\ ~socks'[h][d].active \/ socks'[h][d] = socks[h][d]

LEMMA BeginsList ==
  ASSUME CoreInv, NEW op \in Ops, NEW w, Begins(op, w)
  PROVE  /\ ~Completed(op) /\ runs[op] = 0 /\ op \notin dropped /\ ~Issued(op)
         /\ \A q \in Ops : q # op => (Completed(q)' <=> Completed(q))
         /\ waitset' = waitset => ~Completed(op)'
         /\ LoopInv' /\ QueueInv'
<1>1. LoopInv /\ QueueInv /\ AwaitInv /\ runs \in [Ops -> 0..2] BY DEF CoreInv, TypesInv
<1>2. ~Issued(op) /\ ~Completed(op) /\ op \notin dropped
  BY <1>1, Traces DEF Begins, Issued
<1>3. ~(runs[op] > 0) /\ ~Listed(op) /\ runs[op] = 0 BY <1>1, <1>2 DEF Completed
<1>4. UNCHANGED <<it, canContinue, pc, runs, dropped>> /\ pc \in {"setup", "callback"}
  BY DEF Begins
<1>5. CASE waitset' = waitset
  <2>1. LoopInv' BY <1>1, <1>4, <1>5 DEF LoopInv, NothingDueInWait
  <2>2. QueueInv' BY <1>1, <1>4, <1>5 DEF QueueInv, Lo
  <2>3. \A q \in Ops : Completed(q)' <=> Completed(q) BY <1>4, <1>5 DEF Completed, Listed
  <2> QED BY <1>2, <1>3, <2>1, <2>2, <2>3
<1>6. ASSUME NEW ev \in Events, ev.cb = op, waitset' = SubmitComplete(waitset, ev)
      PROVE  /\ LoopInv' /\ QueueInv' /\ waitset' # waitset
             /\ \A q \in Ops : q # op => (Completed(q)' <=> Completed(q))
  <2>1. LoopInv' BY <1>1, <1>4, <1>6, CompletionInv DEF LoopInv
  <2>2. QueueInv' BY <1>1, <1>2, <1>3, <1>4, <1>6, QueueAppended
  <2>3. \A q \in Ops : Listed(q)' <=> (Listed(q) \/ q = op)
    BY <1>1, <1>6, ListedAppended
  <2>4. waitset' # waitset BY <1>3, <2>3 DEF Listed
  <2> QED BY <1>4, <2>1, <2>2, <2>3, <2>4 DEF Completed
<1> QED BY <1>2, <1>3, <1>5, <1>6 DEF Begins, Posts

LEMMA BeginsAwait ==
  ASSUME CoreInv, NEW op \in Ops, NEW w, Begins(op, w)
  PROVE  AwaitInv'
<1>1. await \in [Ops -> Awaits] /\ AwaitInv BY DEF CoreInv, TypesInv
<1>2. /\ await'[op] = w /\ w # Unissued /\ Offered(w)
      /\ \A q \in Ops : q # op => await'[q] = await[q]
  BY <1>1 DEF Begins
<1>3. Issued(op)' /\ Offered(await'[op]) BY <1>2 DEF Issued
<1>4. dropped' = dropped /\ told' = told
      /\ \A q \in Ops : q # op => units'[q] = units[q] /\ empties'[q] = empties[q]
  BY DEF Begins
<1>5. \A q \in Ops : q # op => (Completed(q)' <=> Completed(q)) BY BeginsList
<1>6. ASSUME NEW q \in Ops
      PROVE  \/ Issued(q)' /\ Offered(await'[q])
             \/ /\ await'[q] = await[q] /\ told'[q] = told[q]
                /\ units'[q] = units[q] /\ empties'[q] = empties[q]
                /\ Completed(q)' => Completed(q)
                /\ q \in dropped' => q \in dropped \/ Issued(q)
  <2>1. CASE q = op BY <1>3, <2>1
  <2>2. CASE q # op BY <1>2, <1>4, <1>5, <2>2
  <2> QED BY <2>1, <2>2
<1> QED BY <1>1, <1>6, AwaitKept

LEMMA BeginsSlots ==
  ASSUME CoreInv, NEW op \in Ops, NEW w, Begins(op, w)
  PROVE  SlotInv'
<1>1. await \in [Ops -> Awaits] /\ SlotInv BY DEF CoreInv, TypesInv
<1>2. /\ await'[op] = w /\ w # Unissued
      /\ \A q \in Ops : q # op => await'[q] = await[q]
  BY <1>1 DEF Begins
<1>3. /\ ~Issued(op) /\ op \notin dropped /\ dropped' = dropped
      /\ \A q \in Ops : q # op => (Completed(q)' <=> Completed(q))
      /\ waitset' = waitset => ~Completed(op)'
  BY BeginsList DEF Begins
<1>4. ASSUME NEW h \in Keys, NEW d \in Dirs, socks'[h][d].active
      PROVE  socks'[h][d].op \in Ops
  BY <1>1, <1>4 DEF Begins, SlotInv
<1>5. ASSUME NEW h \in Keys, NEW d \in Dirs, NEW q \in Ops, Waits(h, d, q)',
             socks'[h][d] = socks[h][d]
      PROVE  Holds(h, d, q)'
  <2>1. Holds(h, d, q) BY <1>1, <1>5 DEF SlotInv, Waits
  <2>2. q # op /\ handle[await[q].sock] # "none" /\ Issued(q)
    BY <1>3, <2>1 DEF Holds
  <2>3. await[q].sock \in Socks BY <2>2 DEF CoreInv, AwaitInv, Offered
  <2>4. handle'[await[q].sock] = handle[await[q].sock]
    <3>1. w.target # NoSock => handle[w.target] = "none" BY DEF Begins
    <3>2. await[q].sock # w.target BY <2>2, <2>3, <3>1, Constants
    <3> QED BY <2>3, <3>2 DEF Begins
  <2>5. await'[q] = await[q] /\ (Completed(q)' <=> Completed(q)) BY <1>2, <1>3, <2>2
  <2> QED BY <1>3, <1>5, <2>1, <2>4, <2>5, HoldsKept
<1>6. ASSUME NEW h \in Keys, NEW d \in Dirs, NEW q \in Ops, Waits(h, d, q)',
             socks'[h][d] # socks[h][d]
      PROVE  Holds(h, d, q)'
  <2>1. /\ waitset' = waitset /\ h = Key(w.sock) /\ d = Dir(w.type)
        /\ q = op /\ socks'[h][d].type = w.type
        /\ socks'[h][d].data = w.target
    BY <1>6 DEF Begins, Waits
  <2>2. w.sock \in Socks /\ w.sock # w.target /\ handle[w.sock] # "none"
    <3>1. w.sock \in Socks /\ handle[w.sock] # "none" BY DEF Begins, Offered, Usable
    <3>2. w.target # NoSock => handle[w.target] = "none" BY DEF Begins
    <3> QED BY <3>1, <3>2, Constants
  <2>3. handle'[w.sock] = handle[w.sock] BY <2>2 DEF Begins
  <2>4. ~Completed(q)' BY <1>3, <2>1
  <2> QED BY <1>2, <1>3, <2>1, <2>2, <2>3, <2>4 DEF Holds, Issued, Key
<1>7. ASSUME NEW h \in Keys, NEW d \in Dirs, NEW q \in Ops, Waits(h, d, q)'
      PROVE  Holds(h, d, q)'
  BY <1>5, <1>6, <1>7
<1> QED BY <1>4, <1>7 DEF SlotInv

LEMMA BeginsTargets ==
  ASSUME CoreInv, NEW op \in Ops, NEW w, Begins(op, w)
  PROVE  TargetInv'
<1>1. await \in [Ops -> Awaits] /\ SlotInv /\ TargetInv /\ AwaitInv BY DEF CoreInv, TypesInv
<1>2. /\ await'[op] = w /\ runs' = runs
      /\ \A q \in Ops : q # op => await'[q] = await[q]
  BY <1>1 DEF Begins
<1>3. \A q \in Ops : q # op => (Running(q)' <=> Running(q)) BY <1>2 DEF Running
<1>4. /\ w.target # NoSock =>
           /\ handle[w.target] = "none"
           /\ \A p \in Ops : Running(p) => await[p].target # w.target
      /\ \A p \in Ops : Running(p) => await[p].target # w.sock
      /\ w.sock \in Socks /\ handle[w.sock] # "none"
  BY DEF Begins, Usable, Offered
<1>5. w.target # w.sock BY <1>4, Constants
<1>6. \A h \in Keys, d \in Dirs, q \in Ops : Waits(h, d, q)' => q = op \/ Waits(h, d, q)
  BY DEF Begins, Waits
<1>7. ~Issued(op) BY BeginsList
<1>8. \A h \in Keys, d \in Dirs, q \in Ops : Waits(h, d, q) =>
        q # op /\ handle[await[q].sock] # "none"
  BY <1>1, <1>7 DEF SlotInv, Holds
<1>9. ASSUME NEW p \in Ops, Running(p)', await'[p].target # NoSock,
             NEW q \in Ops, Running(q)', q # p
      PROVE  await'[q].target # await'[p].target
  <2>1. CASE p = op BY <1>2, <1>3, <1>4, <1>9, <2>1
  <2>2. CASE p # op /\ q = op
    <3>1. Running(p) /\ await'[p] = await[p] BY <1>2, <1>3, <1>9, <2>2
    <3> QED BY <1>2, <1>4, <1>9, <2>2, <3>1
  <2>3. CASE p # op /\ q # op BY <1>1, <1>2, <1>3, <1>9, <2>3 DEF TargetInv
  <2> QED BY <2>1, <2>2, <2>3
<1>10. ASSUME NEW p \in Ops, Running(p)', await'[p].target # NoSock,
              NEW h \in Keys, NEW d \in Dirs, NEW q \in Ops, Waits(h, d, q)'
       PROVE  await'[q].sock # await'[p].target
  <2>1. CASE q = op
    <3>1. await'[q].sock = w.sock BY <1>2, <2>1
    <3>2. CASE p = op BY <1>2, <1>5, <3>1, <3>2
    <3>3. CASE p # op BY <1>2, <1>3, <1>4, <1>10, <3>1, <3>3
    <3> QED BY <3>2, <3>3
  <2>2. CASE q # op
    <3>1. Waits(h, d, q) BY <1>6, <1>10, <2>2
    <3>2. handle[await[q].sock] # "none" BY <1>8, <3>1
    <3>3. await'[q] = await[q] BY <1>2, <2>2
    <3>4. CASE p = op BY <1>2, <1>4, <1>10, <3>2, <3>3, <3>4
    <3>5. CASE p # op BY <1>1, <1>2, <1>3, <1>10, <3>1, <3>3, <3>5 DEF TargetInv
    <3> QED BY <3>4, <3>5
  <2> QED BY <2>1, <2>2
<1> QED BY <1>9, <1>10 DEF TargetInv

LEMMA BeginsInv ==
  ASSUME CoreInv, NEW op \in Ops, NEW w, Begins(op, w), KernelInv',
         handle' \in Handles, kernel' \in [Socks -> Descriptors], socks' \in Tables,
         units' \in [Ops -> 0..2], empties' \in [Ops -> 0..2]
  PROVE  CoreInv'
<1>1. LoopInv' /\ QueueInv' BY BeginsList
<1>2. TypesInv' BY <1>1 DEF Begins, CoreInv, TypesInv
<1>3. BatchInv' BY DEF Begins, CoreInv, BatchInv
<1> QED BY <1>1, <1>2, <1>3, BeginsAwait, BeginsSlots, BeginsTargets DEF CoreInv
-----------------------------------------------------------------------------
(* Entries and sockets after an update.                                    *)

LEMMA EntryPut ==
  ASSUME NEW e \in Entries, NEW d \in Dirs, NEW slot \in Slots
  PROVE  /\ [e EXCEPT ![d] = slot] \in Entries
         /\ [e EXCEPT ![d] = slot][d] = slot
         /\ \A c \in Dirs : c # d => [e EXCEPT ![d] = slot][c] = e[c]
<1>1. CASE d = "in" BY <1>1 DEF Entries, Dirs
<1>2. CASE d = "out" BY <1>2 DEF Entries, Dirs
<1> QED BY <1>1, <1>2 DEF Dirs

LEMMA SlotOf ==
  ASSUME NEW e \in Entries, NEW d \in Dirs PROVE e[d] \in Slots
  BY DEF Entries, Dirs

LEMMA DirOf == ASSUME NEW type PROVE Dir(type) \in Dirs
  BY DEF Dir, Dirs

LEMMA AddEventEntry ==
  ASSUME NEW e \in Entries, NEW type \in Types, NEW op \in Ops, NEW t \in Socks \cup {NoSock},
         NEW new, new = AddEvent(e, type, op, t), NEW d, d = Dir(type)
  PROVE  /\ new \in Entries
         /\ new[d].type = type /\ new[d].op = op /\ new[d].data = t
         /\ new[d].active /\ new[d].processing = e[d].processing
         /\ \A c \in Dirs : c # d => new[c] = e[c]
<1> DEFINE slot == [e[d] EXCEPT !.type = type, !.op = op, !.data = t, !.active = TRUE]
<1>1. d \in Dirs BY DirOf
<1>2. e[d] \in Slots BY <1>1, SlotOf
<1>3. slot \in Slots BY <1>2 DEF Slots
<1>4. /\ slot.type = type /\ slot.op = op /\ slot.data = t
      /\ slot.active /\ slot.processing = e[d].processing
  BY <1>2 DEF Slots
<1>5. new = [e EXCEPT ![d] = slot] BY DEF AddEvent
<1> HIDE DEF slot
<1>6. /\ [e EXCEPT ![d] = slot] \in Entries /\ [e EXCEPT ![d] = slot][d] = slot
      /\ \A c \in Dirs : c # d => [e EXCEPT ![d] = slot][c] = e[c]
  BY <1>1, <1>3, EntryPut
<1> QED BY <1>4, <1>5, <1>6

LEMMA KernelPut ==
  ASSUME TypesInv, KernelInv, NEW s \in Socks, NEW fd \in Descriptors, Sane(s, fd),
         kernel' = [kernel EXCEPT ![s] = fd]
  PROVE  /\ kernel' \in [Socks -> Descriptors]
         /\ \A g \in Socks : kernel'[g] = IF g = s THEN fd ELSE kernel[g]
         /\ \A g \in Socks : Sane(g, kernel'[g])
  BY DEF TypesInv, KernelInv

LEMMA MovedEffect ==
  ASSUME TypesInv, NEW op \in Ops, NEW unit \in {-1, 0, 1}, Moved(op, unit)
  PROVE  /\ units' \in [Ops -> 0..2] /\ empties' \in [Ops -> 0..2]
         /\ \A q \in Ops : q # op => units'[q] = units[q] /\ empties'[q] = empties[q]
         /\ units'[op] = IF unit = 1 THEN More(units[op]) ELSE units[op]
         /\ empties'[op] = IF unit = 0 THEN More(empties[op]) ELSE empties[op]
<1>1. units \in [Ops -> 0..2] /\ empties \in [Ops -> 0..2] BY DEF TypesInv
<1>2. (unit = 1) \in BOOLEAN /\ (unit = 0) \in BOOLEAN OBVIOUS
<1>3. /\ units' = [units EXCEPT ![op] = IF unit = 1 THEN More(@) ELSE @]
      /\ empties' = [empties EXCEPT ![op] = IF unit = 0 THEN More(@) ELSE @]
  BY DEF Moved
<1>4. More(units[op]) \in 0..2 /\ More(empties[op]) \in 0..2 BY <1>1 DEF More
<1> QED BY <1>1, <1>3, <1>4

(* The event of a finished call. *)
LEMMA RecordTyped ==
  ASSUME NEW op \in Ops, NEW status \in Statuses, NEW error \in Int, NEW res \in Int, NEW ev,
         ev = [cb |-> op, status |-> status, error |-> error, res |-> res]
  PROVE  ev \in Events /\ ev.cb = op /\ ev.error = error /\ ev.res = res
  BY DEF Events

LEMMA FinishedTyped ==
  ASSUME NEW op \in Ops, NEW r \in Int
  PROVE  /\ Finished(op, r) \in Events /\ Finished(op, r).cb = op
         /\ r < 0 => Finished(op, r).error = -r
         /\ r >= 0 => Finished(op, r).error = 0 /\ Finished(op, r).res = r
<1>1. "ERR" \in Statuses /\ "COMPLETED" \in Statuses /\ -r \in Int /\ 0 \in Int
  BY DEF Statuses
<1>2. CASE r < 0
  <2>1. Finished(op, r) = [cb |-> op, status |-> "ERR", error |-> -r, res |-> 0]
    BY <1>2 DEF Finished, Event
  <2> QED BY <1>1, <1>2, <2>1, RecordTyped
<1>3. CASE ~(r < 0)
  <2>1. Finished(op, r) = [cb |-> op, status |-> "COMPLETED", error |-> 0, res |-> r]
    BY <1>3 DEF Finished, Event
  <2> QED BY <1>1, <1>3, <2>1, RecordTyped
<1> QED BY <1>2, <1>3

LEMMA AtOnceTyped ==
  ASSUME NEW op \in Ops, NEW r \in Int
  PROVE  /\ AtOnce(op, r) \in Events /\ AtOnce(op, r).cb = op
         /\ r < 0 => AtOnce(op, r).error = -r
         /\ r >= 0 => AtOnce(op, r).error = 0 /\ AtOnce(op, r).res = r
<1>1. CASE r < 0 BY <1>1, FinishedTyped DEF AtOnce
<1>2. CASE ~(r < 0)
  <2>1. AtOnce(op, r) = [cb |-> op, status |-> "WAITING", error |-> 0, res |-> r]
    BY <1>2 DEF AtOnce, Event
  <2> QED BY <1>2, <2>1, RecordTyped DEF Statuses
<1> QED BY <1>1, <1>2
-----------------------------------------------------------------------------
(* The Submit calls.                                                       *)

LEMMA KeyTyped ==
  ASSUME NEW s \in Socks
  PROVE  Key(s) \in Keys /\ (handle[s] # "invalid" => Key(s) = s)
  BY Constants DEF Key

(* What a Submit call leaves, and what it says of its transfer. *)
TransferWaits(op) ==
  waitset' = waitset /\ units'[op] = 0

Reports(op, ev) ==
  /\ ev \in Events /\ ev.cb = op
  /\ waitset' = SubmitComplete(waitset, ev)
  /\ ev.error # 0 => units'[op] = units[op]
  /\ (ev.error = 0 /\ ev.res # 0) => units'[op] = More(units[op])
  /\ (ev.error = 0 /\ ev.res = 0) => units'[op] = units[op]

StartedTyped ==
  /\ handle' \in Handles /\ kernel' \in [Socks -> Descriptors] /\ socks' \in Tables
  /\ units' \in [Ops -> 0..2] /\ empties' \in [Ops -> 0..2]
  /\ KernelInv'

Wait(type, s, t, len) == [type |-> type, sock |-> s, target |-> t, len |-> len]

LEMMA WaitTyped ==
  ASSUME NEW s \in Socks, NEW type \in Offers(Kind[s]), NEW len \in {0, 1},
         NEW t \in Socks \cup {NoSock}, NEW w, w = Wait(type, s, t, len),
         type = "ACCEPT" <=> t # NoSock, t # NoSock => Kind[t] = "TCP",
         len = 0 => type = "SENDTO"
  PROVE  /\ w \in Awaits /\ w # Unissued /\ Offered(w)
         /\ w.type = type /\ w.sock = s /\ w.target = t /\ w.len = len
<1>1. type \in Types /\ type # "unset" BY OfferedTypes, Constants
<1>2. w.type = type /\ w.sock = s /\ w.target = t /\ w.len = len BY DEF Wait
<1>3. w \in Awaits BY <1>1 DEF Wait, Awaits
<1>4. Unissued.type = "unset" BY DEF Unissued
<1>5. Offered(w) BY <1>2 DEF Offered
<1> QED BY <1>1, <1>2, <1>3, <1>4, <1>5

LEMMA SubmitTransferWaits ==
  ASSUME CoreInv, NEW op \in Ops, NEW type \in Types, NEW s \in Socks, NEW len \in {0, 1},
         SubmitTransfer(op, type, s, len), ~socks[Key(s)][Dir(type)].processing,
         NEW w, w = Wait(type, s, NoSock, len)
  PROVE  /\ Begins(op, w) /\ StartedTyped
         /\ TransferWaits(op) /\ empties' = empties /\ kernel' = kernel /\ handle' = handle
<1> DEFINE h == Key(s)
           d == Dir(type)
           e == AddEvent(socks[h], type, op, NoSock)
<1>1. TypesInv /\ KernelInv /\ AwaitInv /\ h \in Keys /\ d \in Dirs
  BY KeyTyped, DirOf DEF CoreInv
<1>2. /\ type \notin {"ACCEPT", "CONNECT"} /\ MayStart(op, type, s)
      /\ len = 0 => type = "SENDTO"
      /\ await' = [await EXCEPT ![op] = w]
      /\ UNCHANGED <<it, canContinue, pc, handle, rs, ws, told, runs, dropped, vanished>>
  BY DEF SubmitTransfer, Started, Wait
<1>3. /\ socks[h] \in Entries /\ NoSock \in Socks \cup {NoSock}
      /\ e = AddEvent(socks[h], type, op, NoSock) /\ d = Dir(type)
  BY <1>1 DEF TypesInv, Tables
<1> HIDE DEF h, d, e
<1>4. /\ e \in Entries
      /\ e[d].type = type /\ e[d].op = op /\ e[d].data = NoSock
      /\ e[d].active /\ e[d].processing = socks[h][d].processing
      /\ \A c \in Dirs : c # d => e[c] = socks[h][c]
  BY <1>3, AddEventEntry
<1>5. /\ socks' = [socks EXCEPT ![h] = e]
      /\ UNCHANGED <<waitset, kernel, units, empties>>
  BY <1>4 DEF SubmitTransfer, h, d, e
<1>6. /\ w \in Awaits /\ w # Unissued /\ Offered(w)
      /\ w.type = type /\ w.sock = s /\ w.target = NoSock
  BY <1>2, WaitTyped DEF MayStart
<1>7. socks' \in Tables /\ \A g \in Keys : socks'[g] = IF g = h THEN e ELSE socks[g]
  BY <1>1, <1>4, <1>5 DEF TypesInv, Tables
<1>8. \A g \in Keys, c \in Dirs :
        \/ (g # h \/ c # d) /\ socks'[g][c] = socks[g][c]
        \/ /\ g = h /\ c = d /\ socks'[g][c].active
           /\ socks'[g][c].op = op /\ socks'[g][c].type = type
           /\ socks'[g][c].data = NoSock
  BY <1>4, <1>7
<1>9. Begins(op, w)
  <2>1. pc \in {"setup", "callback"} /\ await[op] = Unissued /\ Usable(s)
    BY <1>2 DEF MayStart
  <2>2. Key(w.sock) = h /\ Dir(w.type) = d BY <1>6 DEF h, d
  <2> QED BY <1>2, <1>5, <1>6, <1>8, <2>1, <2>2 DEF Begins
<1>10. units[op] = 0 BY <1>1, <1>2 DEF MayStart, AwaitInv, Untouched, Issued
<1> QED BY <1>1, <1>2, <1>5, <1>7, <1>9, <1>10
    DEF StartedTyped, TransferWaits, KernelInv, TypesInv

LEMMA SubmitTransferTries ==
  ASSUME CoreInv, NEW op \in Ops, NEW type \in Types, NEW s \in Socks, NEW len \in {0, 1},
         SubmitTransfer(op, type, s, len), socks[Key(s)][Dir(type)].processing,
         NEW w, w = Wait(type, s, NoSock, len)
  PROVE  /\ Begins(op, w) /\ StartedTyped
         /\ TransferWaits(op) \/ \E ev \in Events : Reports(op, ev) /\ (ev.error # 0 \/ ev.res # 0)
         /\ empties'[op] > 0 => Kind[s] = "UDP"
         /\ handle' = handle
<1> DEFINE h == Key(s)
           d == Dir(type)
           e == AddEvent(socks[h], type, op, NoSock)
<1>1. TypesInv /\ KernelInv /\ AwaitInv /\ h \in Keys /\ d \in Dirs
  BY KeyTyped, DirOf DEF CoreInv
<1>2. /\ type \notin {"ACCEPT", "CONNECT"} /\ MayStart(op, type, s)
      /\ len = 0 => type = "SENDTO"
      /\ await' = [await EXCEPT ![op] = w]
      /\ UNCHANGED <<it, canContinue, pc, handle, rs, ws, told, runs, dropped, vanished>>
  BY DEF SubmitTransfer, Started, Wait
<1>3. /\ socks[h] \in Entries /\ NoSock \in Socks \cup {NoSock}
      /\ e = AddEvent(socks[h], type, op, NoSock) /\ d = Dir(type)
  BY <1>1 DEF TypesInv, Tables
<1> HIDE DEF h, d, e
<1>4. /\ e \in Entries
      /\ e[d].type = type /\ e[d].op = op /\ e[d].data = NoSock
      /\ e[d].processing = socks[h][d].processing
      /\ \A c \in Dirs : c # d => e[c] = socks[h][c]
  BY <1>3, AddEventEntry
<1>5. PICK t \in Try(s, type, len) :
        /\ socks' = [socks EXCEPT ![h] = [e EXCEPT ![d].active = ~DoneAtOnce(t.r),
                                                   ![d].processing = ~t.again]]
        /\ kernel' = [kernel EXCEPT ![s] = t.fd]
        /\ Moved(op, t.unit)
        /\ waitset' = IF DoneAtOnce(t.r)
                      THEN SubmitComplete(waitset, AtOnce(op, t.r)) ELSE waitset
  <2>1. e[d].processing BY <1>4 DEF h, d
  <2> QED BY <2>1 DEF SubmitTransfer, h, d, e
<1>6. Leaves(kernel[s], d, t.fd) /\ Says(s, kernel[s], d, len, t) /\ Sane(s, t.fd)
  BY <1>1, TryOutcome DEF d
<1>7. /\ t.r \in Int /\ t.unit \in {-1, 0, 1} /\ t.again \in BOOLEAN
      /\ t.r < 0 => t.unit = -1
      /\ t.r > 0 => t.unit = 1
      /\ t.r = 0 => t.unit # 1
      /\ t.unit = 0 => Kind[s] = "UDP" \/ len = 0
      /\ t.fd \in Descriptors
  BY <1>6 DEF Says, Leaves
<1> HIDE DEF h, d, e
<1>8. /\ w \in Awaits /\ w # Unissued /\ Offered(w)
      /\ w.type = type /\ w.sock = s /\ w.target = NoSock
  BY <1>2, WaitTyped DEF MayStart
<1> DEFINE new == [e EXCEPT ![d].active = ~DoneAtOnce(t.r), ![d].processing = ~t.again]
<1>9. /\ new \in Entries
      /\ new[d].type = type /\ new[d].op = op /\ new[d].data = NoSock
      /\ new[d].active <=> ~DoneAtOnce(t.r)
      /\ \A c \in Dirs : c # d => new[c] = socks[h][c]
  <2> DEFINE s1 == [e[d] EXCEPT !.active = ~DoneAtOnce(t.r)]
             one == [e EXCEPT ![d] = s1]
             s2 == [one[d] EXCEPT !.processing = ~t.again]
  <2>1. new = [one EXCEPT ![d] = s2] OBVIOUS
  <2>2. e[d] \in Slots BY <1>1, <1>4, SlotOf
  <2>3. /\ s1 \in Slots /\ s1.type = type /\ s1.op = op /\ s1.data = NoSock
        /\ s1.active <=> ~DoneAtOnce(t.r)
    BY <1>4, <2>2 DEF Slots
  <2> HIDE DEF s1
  <2>4. one \in Entries /\ one[d] = s1 /\ \A c \in Dirs : c # d => one[c] = e[c]
    BY <1>1, <1>4, <2>3, EntryPut
  <2>5. /\ s2 \in Slots /\ s2.type = type /\ s2.op = op /\ s2.data = NoSock
        /\ s2.active <=> ~DoneAtOnce(t.r)
    BY <1>7, <2>3, <2>4 DEF Slots
  <2> HIDE DEF one, s2, new
  <2>6. /\ new \in Entries /\ new[d] = s2 /\ \A c \in Dirs : c # d => new[c] = one[c]
    <3>1. one \in Entries /\ d \in Dirs /\ s2 \in Slots BY <1>1, <2>4, <2>5
    <3>2. /\ [one EXCEPT ![d] = s2] \in Entries /\ [one EXCEPT ![d] = s2][d] = s2
          /\ \A c \in Dirs : c # d => [one EXCEPT ![d] = s2][c] = one[c]
      BY ONLY <3>1, EntryPut
    <3> QED BY <2>1, <3>2
  <2> QED BY <1>4, <2>4, <2>5, <2>6
<1>10. socks' = [socks EXCEPT ![h] = new] BY <1>5
<1> HIDE DEF new
<1>11. socks' \in Tables /\ \A g \in Keys : socks'[g] = IF g = h THEN new ELSE socks[g]
  BY <1>1, <1>9, <1>10 DEF TypesInv, Tables
<1>12. units[op] = 0 /\ empties[op] = 0
  BY <1>1, <1>2 DEF MayStart, AwaitInv, Untouched, Issued
<1>13. /\ units' \in [Ops -> 0..2] /\ empties' \in [Ops -> 0..2]
       /\ \A q \in Ops : q # op => units'[q] = units[q] /\ empties'[q] = empties[q]
       /\ units'[op] = IF t.unit = 1 THEN More(units[op]) ELSE units[op]
       /\ empties'[op] = IF t.unit = 0 THEN More(empties[op]) ELSE empties[op]
  BY <1>1, <1>5, <1>7, MovedEffect
<1>14. /\ kernel' \in [Socks -> Descriptors] /\ \A g \in Socks : Sane(g, kernel'[g])
  BY <1>1, <1>5, <1>6, <1>7, KernelPut
<1>15. StartedTyped
  BY <1>1, <1>2, <1>11, <1>13, <1>14 DEF StartedTyped, KernelInv, TypesInv
<1>16. /\ AtOnce(op, t.r) \in Events /\ AtOnce(op, t.r).cb = op
       /\ t.r < 0 => AtOnce(op, t.r).error = -t.r
       /\ t.r >= 0 => AtOnce(op, t.r).error = 0 /\ AtOnce(op, t.r).res = t.r
  BY <1>7, AtOnceTyped
<1>17. CASE DoneAtOnce(t.r)
  <2>1. t.r # 0 BY <1>17 DEF DoneAtOnce
  <2>2. waitset' = SubmitComplete(waitset, AtOnce(op, t.r)) BY <1>5, <1>17
  <2>3. Posts(op) BY <1>16, <2>2 DEF Posts
  <2>4. ~new[d].active BY <1>9, <1>17
  <2>5. \A g \in Keys, c \in Dirs :
          \/ (g # h \/ c # d) /\ socks'[g][c] = socks[g][c]
          \/ g = h /\ c = d /\ ~socks'[g][c].active
    BY <1>9, <1>11, <2>4
  <2>6. Begins(op, w)
    <3>1. pc \in {"setup", "callback"} /\ await[op] = Unissued /\ Usable(s)
      BY <1>2 DEF MayStart
    <3>2. Key(w.sock) = h /\ Dir(w.type) = d BY <1>8 DEF h, d
    <3> QED BY <1>2, <1>8, <1>13, <2>3, <2>5, <3>1, <3>2 DEF Begins
  <2>7. Reports(op, AtOnce(op, t.r))
    BY <1>7, <1>13, <1>16, <2>1, <2>2 DEF Reports
  <2>8. AtOnce(op, t.r).error # 0 \/ AtOnce(op, t.r).res # 0 BY <1>7, <1>16, <2>1
  <2>9. empties'[op] > 0 => Kind[s] = "UDP" BY <1>7, <1>12, <1>13, <2>1
  <2> QED BY <1>2, <1>15, <1>16, <2>6, <2>7, <2>8, <2>9
<1>18. CASE ~DoneAtOnce(t.r)
  <2>1. t.r = 0 BY <1>18 DEF DoneAtOnce
  <2>2. waitset' = waitset BY <1>5, <1>18
  <2>4. new[d].active BY <1>9, <1>18
  <2>5. \A g \in Keys, c \in Dirs :
          \/ (g # h \/ c # d) /\ socks'[g][c] = socks[g][c]
          \/ /\ g = h /\ c = d /\ socks'[g][c].active
             /\ socks'[g][c].op = op /\ socks'[g][c].type = type
             /\ socks'[g][c].data = NoSock
    BY <1>9, <1>11, <2>4
  <2>6. Begins(op, w)
    <3>1. pc \in {"setup", "callback"} /\ await[op] = Unissued /\ Usable(s)
      BY <1>2 DEF MayStart
    <3>2. Key(w.sock) = h /\ Dir(w.type) = d BY <1>8 DEF h, d
    <3> QED BY <1>2, <1>8, <1>13, <2>2, <2>5, <3>1, <3>2 DEF Begins
  <2>7. TransferWaits(op) BY <1>7, <1>12, <1>13, <2>1, <2>2 DEF TransferWaits
  <2>9. empties'[op] > 0 => Kind[s] = "UDP"
    <3>1. len = 0 => Kind[s] = "UDP" BY <1>2, OfferedTypes DEF MayStart
    <3> QED BY <1>7, <1>12, <1>13, <3>1
  <2> QED BY <1>2, <1>15, <2>6, <2>7, <2>9
<1> QED BY <1>17, <1>18
LEMMA ConnectOutcome ==
  ASSUME NEW fd
  PROVE  /\ Connect(fd) \in {WSAECONNRESET, WSAEISCONN, WSAEALREADY, WSAEWOULDBLOCK}
         /\ Connect(fd) = WSAEWOULDBLOCK => ~fd.reset /\ fd.conn # "est"
         /\ (~fd.reset /\ fd.conn = "est") => Connect(fd) = WSAEISCONN
         /\ Connect(fd) = WSAEISCONN => ~fd.reset /\ fd.conn = "est"
<1>1. CASE fd.reset
  BY <1>1 DEF Connect, WSAECONNRESET, WSAEISCONN, WSAEALREADY, WSAEWOULDBLOCK
<1>2. CASE ~fd.reset
  BY <1>2 DEF Connect, WSAECONNRESET, WSAEISCONN, WSAEALREADY, WSAEWOULDBLOCK
<1> QED BY <1>1, <1>2

LEMMA SubmitConnectBegins ==
  ASSUME CoreInv, NEW op \in Ops, NEW s \in Socks, SubmitConnect(op, s),
         NEW w, w = Wait("CONNECT", s, NoSock, 1)
  PROVE  /\ Begins(op, w) /\ StartedTyped
         /\ UNCHANGED <<handle, units, empties>>
<1> DEFINE err == Connect(kernel[s])
           e == AddEvent(socks[s], "CONNECT", op, NoSock)
           d == "out"
<1>1. TypesInv /\ KernelInv /\ s \in Keys /\ d \in Dirs
  BY Constants DEF CoreInv, Dirs
<1>2. /\ MayStart(op, "CONNECT", s) /\ handle[s] = "open"
      /\ await' = [await EXCEPT ![op] = w]
      /\ UNCHANGED <<it, canContinue, pc, handle, rs, ws, told, runs, units, empties,
                     dropped, vanished>>
  BY DEF SubmitConnect, Started, Wait
<1>3. Key(s) = s /\ Dir("CONNECT") = d BY <1>2 DEF Key, Dir, InTypes
<1>4. /\ w \in Awaits /\ w # Unissued /\ Offered(w)
      /\ w.type = "CONNECT" /\ w.sock = s /\ w.target = NoSock
  BY <1>2, WaitTyped DEF MayStart
<1>5. pc \in {"setup", "callback"} /\ await[op] = Unissued /\ Usable(s)
  BY <1>2 DEF MayStart
<1>6. units \in [Ops -> 0..2] /\ empties \in [Ops -> 0..2] /\ handle \in Handles
  BY <1>1 DEF TypesInv
<1>7. CASE err = WSAEWOULDBLOCK
  <2> DEFINE fd == [kernel[s] EXCEPT !.conn = "connecting"]
  <2>1. /\ kernel' = [kernel EXCEPT ![s] = fd]
        /\ socks' = [socks EXCEPT ![s] = e] /\ waitset' = waitset
    BY <1>7 DEF SubmitConnect
  <2>2. /\ socks[s] \in Entries /\ NoSock \in Socks \cup {NoSock}
        /\ "CONNECT" \in Types
        /\ e = AddEvent(socks[s], "CONNECT", op, NoSock) /\ d = Dir("CONNECT")
    BY <1>1, <1>3 DEF TypesInv, Tables, Types, OutTypes
  <2> HIDE DEF e, d
  <2>3. /\ e \in Entries
        /\ e[d].type = "CONNECT" /\ e[d].op = op /\ e[d].data = NoSock
        /\ e[d].active
        /\ \A c \in Dirs : c # d => e[c] = socks[s][c]
    BY <2>2, AddEventEntry
  <2>4. socks' \in Tables /\ \A g \in Keys : socks'[g] = IF g = s THEN e ELSE socks[g]
    BY <1>1, <2>1, <2>3 DEF TypesInv, Tables
  <2>5. \A g \in Keys, c \in Dirs :
          \/ (g # s \/ c # d) /\ socks'[g][c] = socks[g][c]
          \/ /\ g = s /\ c = d /\ socks'[g][c].active
             /\ socks'[g][c].op = op /\ socks'[g][c].type = "CONNECT"
             /\ socks'[g][c].data = NoSock
    BY <2>3, <2>4
  <2>6. Begins(op, w)
    <3>1. Key(w.sock) = s /\ Dir(w.type) = d BY <1>3, <1>4 DEF d
    <3> QED BY <1>2, <1>4, <1>5, <2>1, <2>5, <3>1 DEF Begins
  <2>7. fd \in Descriptors /\ Sane(s, fd)
    <3>1. kernel[s] \in Descriptors /\ Sane(s, kernel[s]) BY <1>1 DEF TypesInv, KernelInv
    <3>2. ~kernel[s].reset BY <1>7, ConnectOutcome
    <3>3. fd \in Descriptors BY <3>1 DEF Descriptors
    <3>4. fd.reset = kernel[s].reset /\ fd.fin = kernel[s].fin /\ fd.inq = kernel[s].inq
      BY <3>1 DEF Descriptors
    <3> QED BY <3>1, <3>2, <3>3, <3>4 DEF Sane
  <2>8. kernel' \in [Socks -> Descriptors] /\ \A g \in Socks : Sane(g, kernel'[g])
    BY <1>1, <2>1, <2>7, KernelPut
  <2>9. StartedTyped BY <1>1, <1>2, <1>6, <2>4, <2>8 DEF StartedTyped, KernelInv
  <2> QED BY <1>2, <2>6, <2>9
<1>8. CASE err # WSAEWOULDBLOCK
  <2>1. /\ waitset' = SubmitComplete(waitset, Finished(op, -err))
        /\ UNCHANGED <<kernel, socks>>
    BY <1>8 DEF SubmitConnect
  <2>2. -err \in Int
    BY ConnectOutcome DEF WSAECONNRESET, WSAEISCONN, WSAEALREADY, WSAEWOULDBLOCK
  <2>3. Posts(op) BY <2>1, <2>2, FinishedTyped DEF Posts
  <2>4. Begins(op, w)
    <3>1. Key(w.sock) = s /\ Dir(w.type) = d BY <1>3, <1>4
    <3> QED BY <1>2, <1>4, <1>5, <2>1, <2>3, <3>1 DEF Begins
  <2>5. StartedTyped BY <1>1, <1>2, <1>6, <2>1 DEF StartedTyped, KernelInv, TypesInv
  <2> QED BY <1>2, <2>4, <2>5
<1> QED BY <1>7, <1>8

(* accept(), which stores whatever it returned in the target. *)
LEMMA AcceptOutcome ==
  ASSUME TypesInv, KernelInv, NEW op \in Ops, NEW s \in Socks, NEW t \in Socks,
         Kind[s] = "LISTEN", Kind[t] = "TCP", AcceptInto(s, t, op)
  PROVE  /\ handle' \in Handles /\ kernel' \in [Socks -> Descriptors] /\ KernelInv'
         /\ \A g \in Socks : g # t => handle'[g] = handle[g]
         /\ \A g \in Socks : g # s /\ g # t => kernel'[g] = kernel[g]
         /\ Leaves(kernel[s], "in", kernel'[s])
         /\ units' \in [Ops -> 0..2] /\ empties' \in [Ops -> 0..2] /\ empties' = empties
         /\ \A q \in Ops : q # op => units'[q] = units[q]
         /\ kernel[s].inq # <<>> =>
              handle'[t] = "open" /\ units'[op] = More(units[op])
         /\ kernel[s].inq = <<>> =>
              handle'[t] = "invalid" /\ units'[op] = units[op]
<1> DEFINE taken == kernel[s].inq # <<>>
           unit == IF taken THEN 1 ELSE -1
           new == IF taken THEN AcceptedFd ELSE ClosedFd
           fd == [kernel[s] EXCEPT !.inq = IF taken THEN Tail(@) ELSE @]
<1>1. /\ handle' = [handle EXCEPT ![t] = IF taken THEN "open" ELSE "invalid"]
      /\ kernel' = [[kernel EXCEPT ![s] = fd] EXCEPT ![t] = new]
      /\ Moved(op, unit)
  BY DEF AcceptInto
<1>2. s # t OBVIOUS
<1>3. handle \in Handles /\ kernel[s] \in Descriptors /\ Sane(s, kernel[s])
      /\ kernel \in [Socks -> Descriptors]
  BY DEF TypesInv, KernelInv
<1>4. /\ handle' \in Handles
      /\ \A g \in Socks : g # t => handle'[g] = handle[g]
      /\ taken => handle'[t] = "open"
      /\ ~taken => handle'[t] = "invalid"
  BY <1>1, <1>3 DEF Handles
<1>5. kernel[s].inq \in Seq({0, 1}) BY <1>3 DEF Descriptors
<1>6. Leaves(kernel[s], "in", fd)
  <2>1. CASE taken
    <3>1. Tail(kernel[s].inq) \in Seq({0, 1}) BY <1>5, <2>1, Tail01
    <3> QED BY <1>3, <2>1, <3>1 DEF Leaves, Descriptors
  <2>2. CASE ~taken BY <1>3, <2>2 DEF Leaves, Descriptors
  <2> QED BY <2>1, <2>2
<1>7. fd \in Descriptors /\ Sane(s, fd)
  BY <1>3, <1>6, LeavesSane, ZenonT(40) DEF Leaves
<1>8. new \in Descriptors /\ Sane(t, new) BY FreshDescriptors
<1>9. unit \in {-1, 0, 1} /\ (taken => unit = 1) /\ (~taken => unit = -1) OBVIOUS
<1> HIDE DEF fd, new, unit
<1>10. /\ kernel' \in [Socks -> Descriptors]
       /\ \A g \in Socks : kernel'[g] = IF g = t THEN new ELSE IF g = s THEN fd ELSE kernel[g]
  BY <1>1, <1>3, <1>7, <1>8
<1>11. \A g \in Socks : Sane(g, kernel'[g])
  BY <1>7, <1>8, <1>10 DEF KernelInv
<1>12. KernelInv' BY <1>4, <1>11 DEF KernelInv
<1>13. /\ units' \in [Ops -> 0..2] /\ empties' \in [Ops -> 0..2]
       /\ \A q \in Ops : q # op => units'[q] = units[q] /\ empties'[q] = empties[q]
       /\ units'[op] = IF unit = 1 THEN More(units[op]) ELSE units[op]
       /\ empties'[op] = IF unit = 0 THEN More(empties[op]) ELSE empties[op]
  BY <1>1, <1>9, MovedEffect
<1>14. empties' = empties
  <2>1. empties \in [Ops -> 0..2] BY DEF TypesInv
  <2>2. empties'[op] = empties[op] BY <1>9, <1>13
  <2> QED BY <1>13, <2>1, <2>2
<1>15. Leaves(kernel[s], "in", kernel'[s])
  <2>1. kernel'[s] = fd BY <1>2, <1>10
  <2> QED BY <1>6, <2>1
<1> QED BY <1>4, <1>9, <1>10, <1>12, <1>13, <1>14, <1>15
LEMMA SubmitAcceptBegins ==
  ASSUME CoreInv, NEW op \in Ops, NEW s \in Socks, NEW t \in Socks, SubmitAccept(op, s, t),
         NEW w, w = Wait("ACCEPT", s, t, 1)
  PROVE  /\ Begins(op, w) /\ StartedTyped
         /\ waitset' = waitset /\ Kind[s] = "LISTEN" /\ Kind[t] = "TCP"
         /\ IF socks[s].in.processing THEN AcceptInto(s, t, op)
                                      ELSE UNCHANGED <<handle, kernel, units, empties>>
         /\ \A g \in Keys : socks'[g].in.processing <=> socks[g].in.processing
<1> DEFINE e == AddEvent(socks[s], "ACCEPT", op, t)
           d == "in"
<1>1. TypesInv /\ KernelInv /\ s \in Keys /\ d \in Dirs
  BY Constants DEF CoreInv, Dirs
<1>2. /\ MayStart(op, "ACCEPT", s) /\ Kind[t] = "TCP" /\ handle[t] = "none"
      /\ \A p \in Ops : Running(p) => await[p].target # t
      /\ await' = [await EXCEPT ![op] = w]
      /\ socks' = [socks EXCEPT ![s] = e] /\ waitset' = waitset
      /\ IF socks[s].in.processing THEN AcceptInto(s, t, op)
                                   ELSE UNCHANGED <<handle, kernel, units, empties>>
      /\ UNCHANGED <<it, canContinue, pc, rs, ws, told, runs, dropped, vanished>>
  BY DEF SubmitAccept, Started, Wait, loopVars
<1>3. Kind[s] = "LISTEN" /\ t # NoSock BY <1>2, OfferedTypes, Constants DEF MayStart
<1>4. handle[s] # "invalid" BY <1>1, <1>3 DEF KernelInv
<1>5. Key(s) = s /\ Dir("ACCEPT") = d BY <1>4 DEF Key, Dir, InTypes
<1>6. /\ w \in Awaits /\ w # Unissued /\ Offered(w)
      /\ w.type = "ACCEPT" /\ w.sock = s /\ w.target = t
  BY <1>2, <1>3, WaitTyped DEF MayStart
<1>7. pc \in {"setup", "callback"} /\ await[op] = Unissued /\ Usable(s)
  BY <1>2 DEF MayStart
<1>8. /\ socks[s] \in Entries /\ t \in Socks \cup {NoSock}
      /\ "ACCEPT" \in Types
      /\ e = AddEvent(socks[s], "ACCEPT", op, t) /\ d = Dir("ACCEPT")
  BY <1>1, <1>5 DEF TypesInv, Tables, Types, InTypes
<1> HIDE DEF e, d
<1>9. /\ e \in Entries
      /\ e[d].type = "ACCEPT" /\ e[d].op = op /\ e[d].data = t
      /\ e[d].active /\ e[d].processing = socks[s][d].processing
      /\ \A c \in Dirs : c # d => e[c] = socks[s][c]
  BY <1>8, AddEventEntry
<1>10. socks' \in Tables /\ \A g \in Keys : socks'[g] = IF g = s THEN e ELSE socks[g]
  BY <1>1, <1>2, <1>9 DEF TypesInv, Tables
<1>11. \A g \in Keys, c \in Dirs :
          \/ (g # s \/ c # d) /\ socks'[g][c] = socks[g][c]
          \/ /\ g = s /\ c = d /\ socks'[g][c].active
             /\ socks'[g][c].op = op /\ socks'[g][c].type = "ACCEPT"
             /\ socks'[g][c].data = t
  BY <1>9, <1>10
<1>12. /\ handle' \in Handles /\ kernel' \in [Socks -> Descriptors] /\ KernelInv'
       /\ \A g \in Socks : g # t => handle'[g] = handle[g]
       /\ units' \in [Ops -> 0..2] /\ empties' \in [Ops -> 0..2] /\ empties' = empties
       /\ \A q \in Ops : q # op => units'[q] = units[q]
  <2>1. CASE socks[s].in.processing
    BY <1>1, <1>2, <1>3, <2>1, AcceptOutcome
  <2>2. CASE ~socks[s].in.processing
    <3>1. UNCHANGED <<handle, kernel, units, empties>> BY <1>2, <2>2
    <3> QED BY <1>1, <3>1 DEF TypesInv, KernelInv
  <2> QED BY <2>1, <2>2
<1>13. Begins(op, w)
  <2>1. Key(w.sock) = s /\ Dir(w.type) = d BY <1>5, <1>6, <1>8
  <2> QED BY <1>2, <1>6, <1>7, <1>11, <1>12, <2>1 DEF Begins
<1>14. \A g \in Keys : socks'[g].in.processing <=> socks[g].in.processing
  BY <1>9, <1>10 DEF d
<1> QED BY <1>2, <1>3, <1>10, <1>12, <1>13, <1>14 DEF StartedTyped

LEMMA SubmitInv ==
  ASSUME CoreInv, NEW op \in Ops, NEW s \in Socks,
         \/ \E type \in Types, len \in {0, 1} : SubmitTransfer(op, type, s, len)
         \/ SubmitConnect(op, s)
         \/ \E t \in Socks : SubmitAccept(op, s, t)
  PROVE  CoreInv'
<1>1. ASSUME NEW type \in Types, NEW len \in {0, 1}, SubmitTransfer(op, type, s, len)
      PROVE  CoreInv'
  <2> DEFINE w == Wait(type, s, NoSock, len)
  <2> HIDE DEF w
  <2>1. Begins(op, w) /\ StartedTyped
    BY <1>1, SubmitTransferWaits, SubmitTransferTries DEF w
  <2> QED BY <2>1, BeginsInv DEF StartedTyped
<1>2. CASE SubmitConnect(op, s)
  <2> DEFINE w == Wait("CONNECT", s, NoSock, 1)
  <2> HIDE DEF w
  <2>1. Begins(op, w) /\ StartedTyped BY <1>2, SubmitConnectBegins DEF w
  <2> QED BY <2>1, BeginsInv DEF StartedTyped
<1>3. ASSUME NEW t \in Socks, SubmitAccept(op, s, t) PROVE CoreInv'
  <2> DEFINE w == Wait("ACCEPT", s, t, 1)
  <2> HIDE DEF w
  <2>1. Begins(op, w) /\ StartedTyped BY <1>3, SubmitAcceptBegins DEF w
  <2> QED BY <2>1, BeginsInv DEF StartedTyped
<1> QED BY <1>1, <1>2, <1>3

-----------------------------------------------------------------------------
(* An operation that waits in a slot is completed by Wait.                 *)

Ends(h, d, op) ==
  /\ pc = "dispatch" /\ Waits(h, d, op)
  /\ UNCHANGED <<it, canContinue, pc, await, told, runs, dropped, vanished>>
  /\ Posts(op)
  /\ \A g \in Socks : g # await[op].target => handle'[g] = handle[g]
  /\ \A q \in Ops : q # op => units'[q] = units[q] /\ empties'[q] = empties[q]
  /\ \A g \in Keys, c \in Dirs :
       \/ (g # h \/ c # d) /\ socks'[g][c] = socks[g][c]
       \/ g = h /\ c = d /\ ~socks'[g][c].active

(* Each operation waits in one slot. *)
LEMMA OneSlot ==
  ASSUME SlotInv, NEW h \in Keys, NEW d \in Dirs, NEW g \in Keys, NEW c \in Dirs,
         NEW q \in Ops, Waits(h, d, q), Waits(g, c, q)
  PROVE  g = h /\ c = d
  BY DEF SlotInv, Holds

LEMMA EndsInv ==
  ASSUME CoreInv, NEW h \in Keys, NEW d \in Dirs, NEW op \in Ops, Ends(h, d, op),
         handle' \in Handles, kernel' \in [Socks -> Descriptors], socks' \in Tables,
         units' \in [Ops -> 0..2], empties' \in [Ops -> 0..2], KernelInv', BatchInv',
         rs' \subseteq Socks, ws' \subseteq Socks
  PROVE  CoreInv' /\ \A q \in Ops : Completed(q)' <=> (Completed(q) \/ q = op)
<1>1. LoopInv /\ QueueInv /\ SlotInv /\ AwaitInv /\ TargetInv /\ runs \in [Ops -> 0..2]
      /\ await \in [Ops -> Awaits]
  BY DEF CoreInv, TypesInv
<1>2. /\ Issued(op) /\ ~Completed(op) /\ op \notin dropped /\ Key(await[op].sock) = h
      /\ Dir(await[op].type) = d
  BY <1>1 DEF Ends, SlotInv, Holds
<1>3. UNCHANGED <<it, canContinue, pc, await, told, runs, dropped, vanished>> /\ pc = "dispatch"
  BY DEF Ends
<1>4. ~(runs[op] > 0) /\ ~Listed(op) /\ runs[op] = 0 BY <1>1, <1>2 DEF Completed
<1>5. Running(op) BY <1>2, <1>4 DEF Running, Issued
<1>6. /\ LoopInv' /\ QueueInv'
      /\ \A q \in Ops : Completed(q)' <=> (Completed(q) \/ q = op)
  <2>1. PICK ev \in Events : ev.cb = op /\ waitset' = SubmitComplete(waitset, ev)
    BY DEF Ends, Posts
  <2>2. LoopInv' BY <1>1, <1>3, <2>1, CompletionInv DEF LoopInv
  <2>3. QueueInv' BY <1>1, <1>2, <1>3, <1>4, <2>1, QueueAppended
  <2>4. \A q \in Ops : Listed(q)' <=> (Listed(q) \/ q = op)
    BY <1>1, <2>1, ListedAppended
  <2> QED BY <1>3, <2>2, <2>3, <2>4 DEF Completed
<1>7. AwaitInv'
  <2>1. Issued(op)' /\ Offered(await'[op]) BY <1>1, <1>2, <1>3 DEF AwaitInv, Issued
  <2>2. ASSUME NEW q \in Ops
        PROVE  \/ Issued(q)' /\ Offered(await'[q])
               \/ /\ await'[q] = await[q] /\ told'[q] = told[q]
                  /\ units'[q] = units[q] /\ empties'[q] = empties[q]
                  /\ Completed(q)' => Completed(q)
                  /\ q \in dropped' => q \in dropped \/ Issued(q)
    <3>1. CASE q = op BY <2>1, <3>1
    <3>2. CASE q # op
      <4>1. units'[q] = units[q] /\ empties'[q] = empties[q] BY <3>2 DEF Ends
      <4> QED BY <1>3, <1>6, <3>2, <4>1
    <3> QED BY <3>1, <3>2
  <2> QED BY <1>1, <2>2, AwaitKept
<1>8. \A g \in Keys, c \in Dirs, q \in Ops :
        Waits(g, c, q)' => Waits(g, c, q) /\ socks'[g][c] = socks[g][c] /\ q # op
  <2> SUFFICES ASSUME NEW g \in Keys, NEW c \in Dirs, NEW q \in Ops, Waits(g, c, q)'
               PROVE  Waits(g, c, q) /\ socks'[g][c] = socks[g][c] /\ q # op
    OBVIOUS
  <2>1. (g # h \/ c # d) /\ socks'[g][c] = socks[g][c] BY DEF Ends, Waits
  <2>2. Waits(g, c, q) BY <2>1 DEF Waits
  <2>3. Waits(h, d, op) BY DEF Ends
  <2> QED BY <1>1, <2>1, <2>2, <2>3, OneSlot
<1>9. SlotInv'
  <2>1. ASSUME NEW g \in Keys, NEW c \in Dirs, socks'[g][c].active
        PROVE  socks'[g][c].op \in Ops
    BY <1>1, <2>1 DEF Ends, SlotInv
  <2>2. ASSUME NEW g \in Keys, NEW c \in Dirs, NEW q \in Ops, Waits(g, c, q)'
        PROVE  Holds(g, c, q)'
    <3>1. Waits(g, c, q) /\ socks'[g][c] = socks[g][c] /\ q # op BY <1>8, <2>2
    <3>2. Holds(g, c, q) BY <1>1, <3>1 DEF SlotInv
    <3>3. await[q].sock \in Socks BY <1>1, <3>2 DEF Holds, AwaitInv, Offered
    <3>4. await[q].sock # await[op].target
      BY <1>1, <1>5, <3>1, <3>3, Constants DEF TargetInv
    <3>5. handle'[await[q].sock] = handle[await[q].sock] BY <3>3, <3>4 DEF Ends
    <3>6. Completed(q)' => Completed(q) BY <1>6, <3>1
    <3> QED BY <1>3, <3>1, <3>2, <3>5, <3>6, HoldsKept
  <2> QED BY <2>1, <2>2 DEF SlotInv
<1>10. TargetInv' BY <1>1, <1>3, <1>8 DEF TargetInv, Running
<1>11. TypesInv' BY <1>3, <1>6 DEF CoreInv, TypesInv
<1> QED BY <1>6, <1>7, <1>9, <1>10, <1>11 DEF CoreInv
LEMMA SlotPut ==
  ASSUME NEW table \in Tables, NEW h \in Keys, NEW d \in Dirs, NEW slot \in Slots
  PROVE  /\ [table EXCEPT ![h][d] = slot] \in Tables
         /\ [table EXCEPT ![h][d] = slot][h][d] = slot
         /\ \A g \in Keys, c \in Dirs : (g # h \/ c # d) =>
              [table EXCEPT ![h][d] = slot][g][c] = table[g][c]
<1> DEFINE e == [table[h] EXCEPT ![d] = slot]
           new == [table EXCEPT ![h][d] = slot]
<1>1. table[h] \in Entries BY DEF Tables
<1>2. e \in Entries /\ e[d] = slot /\ \A c \in Dirs : c # d => e[c] = table[h][c]
  BY <1>1, EntryPut
<1>3. new = [table EXCEPT ![h] = e] OBVIOUS
<1> HIDE DEF e, new
<1>4. new \in Tables /\ \A g \in Keys : new[g] = IF g = h THEN e ELSE table[g]
  BY <1>2, <1>3 DEF Tables
<1>5. /\ new \in Tables /\ new[h][d] = slot
      /\ \A g \in Keys, c \in Dirs : (g # h \/ c # d) => new[g][c] = table[g][c]
  BY <1>2, <1>4
<1> QED BY <1>5 DEF new

(* Who waits in the slot that is served. *)
LEMMA Waiter ==
  ASSUME CoreInv, NEW h \in Socks, NEW d \in Dirs, Dispatching(h, d)
  PROVE  LET op == socks[h][d].op
         IN /\ h \in Keys /\ pc = "dispatch" /\ Reported(h, d)
            /\ op \in Ops /\ Waits(h, d, op) /\ socks[h][d] \in Slots
            /\ Issued(op) /\ ~Completed(op) /\ op \notin dropped
            /\ await[op].sock = h /\ Offered(await[op]) /\ await[op] \in Awaits
            /\ socks[h][d].type = await[op].type /\ socks[h][d].data = await[op].target
            /\ Dir(await[op].type) = d
            /\ handle[h] # "none" /\ handle[h] # "invalid"
            /\ Running(op)
<1> DEFINE op == socks[h][d].op
<1>1. h \in Keys /\ h # INVALID_SOCKET BY Constants
<1>2. pc = "dispatch" /\ Reported(h, d)
  <2>1. CASE d = "in" BY <2>1 DEF Dispatching, CoreInv, BatchInv
  <2>2. CASE d = "out" BY <2>2 DEF Dispatching, CoreInv, BatchInv
  <2> QED BY <2>1, <2>2 DEF Dirs
<1>3. socks[h][d] \in Slots BY <1>1, SlotOf DEF CoreInv, TypesInv, Tables
<1>4. op \in Ops /\ Waits(h, d, op)
  BY <1>1, <1>2 DEF Reported, CoreInv, SlotInv, Waits
<1> HIDE DEF op
<1>5. Holds(h, d, op) BY <1>1, <1>4 DEF CoreInv, SlotInv
<1>6. /\ Issued(op) /\ ~Completed(op) /\ op \notin dropped
      /\ Key(await[op].sock) = h /\ Dir(await[op].type) = d
      /\ handle[await[op].sock] # "none"
      /\ socks[h][d].type = await[op].type /\ socks[h][d].data = await[op].target
  BY <1>5 DEF Holds
<1>7. await[op].sock = h /\ handle[h] # "invalid" BY <1>1, <1>6 DEF Key
<1>8. Offered(await[op]) /\ await[op] \in Awaits
  BY <1>4, <1>6 DEF CoreInv, AwaitInv, TypesInv
<1>9. Running(op)
  <2>1. runs[op] \in 0..2 /\ ~(runs[op] > 0)
    BY <1>4, <1>6 DEF CoreInv, TypesInv, Completed
  <2> QED BY <1>6, <2>1 DEF Running, Issued
<1> QED BY <1>1, <1>2, <1>3, <1>4, <1>6, <1>7, <1>8, <1>9 DEF op

LEMMA BatchShrinks ==
  ASSUME NEW h, NEW d \in Dirs, Dispatching(h, d), CoreInv
  PROVE  /\ rs' \subseteq rs /\ ws' \subseteq ws
         /\ rs' \subseteq Socks /\ ws' \subseteq Socks
         /\ d = "in" => h \notin rs'
         /\ d = "out" => h \notin ws'
  BY DEF Dispatching, CoreInv, TypesInv, Dirs

LEMMA DispatchTransferEnds ==
  ASSUME CoreInv, NEW h \in Socks, NEW d \in Dirs, DispatchTransfer(h, d)
  PROVE  \E op \in Ops :
           /\ Ends(h, d, op) /\ StartedTyped /\ BatchInv'
           /\ rs' \subseteq Socks /\ ws' \subseteq Socks
           /\ handle' = handle /\ Kind[h] # "LISTEN" /\ await[op].sock = h
           /\ \A g \in Keys : g # h => socks'[g] = socks[g]
           /\ empties'[op] > 0 => empties[op] > 0 \/ Kind[h] = "UDP"
           /\ \E ev \in Events :
                /\ Reports(op, ev)
                /\ (ev.error = 0 /\ ev.res = 0) => await[op].type = "READ" \/ empties'[op] > 0
<1> DEFINE slot == socks[h][d]
           op == slot.op
           type == await[op].type
           len == await[op].len
<1>1. Dispatching(h, d) /\ slot.type \notin {"ACCEPT", "CONNECT"}
      /\ UNCHANGED <<it, canContinue, pc, handle, await, told, runs, dropped, vanished>>
  BY DEF DispatchTransfer
<1>2. /\ h \in Keys /\ pc = "dispatch" /\ Reported(h, d)
      /\ op \in Ops /\ Waits(h, d, op) /\ slot \in Slots
      /\ await[op].sock = h /\ Offered(await[op]) /\ await[op] \in Awaits
      /\ slot.type = type /\ Dir(type) = d
  BY <1>1, Waiter
<1>3. TypesInv /\ KernelInv /\ BatchInv BY DEF CoreInv
<1>4. type \in Offers(Kind[h]) /\ type \in Types /\ len \in {0, 1}
  BY <1>2, OfferedTypes, SMTT(40) DEF Offered, Awaits
<1>5. PICK t \in Try(h, type, len) :
        /\ socks' = [socks EXCEPT ![h][d] = Served(slot, t.again)]
        /\ kernel' = [kernel EXCEPT ![h] = t.fd]
        /\ Moved(op, t.unit)
        /\ waitset' = SubmitComplete(waitset, Finished(op, t.r))
  BY <1>2 DEF DispatchTransfer
<1> HIDE DEF slot, op, type, len
<1>6. Leaves(kernel[h], d, t.fd) /\ Says(h, kernel[h], d, len, t) /\ Sane(h, t.fd)
  BY <1>2, <1>3, <1>4, TryOutcome
<1>7. /\ t.r \in Int /\ t.unit \in {-1, 0, 1} /\ t.again \in BOOLEAN
      /\ t.r < 0 => t.unit = -1
      /\ t.r > 0 => t.unit = 1
      /\ t.r = 0 => t.unit # 1
      /\ t.unit = 0 => Kind[h] = "UDP" \/ len = 0
      /\ t.fd \in Descriptors
  BY <1>6 DEF Says, Leaves
<1>8. Kind[h] # "LISTEN" /\ Ready(kernel[h], d)
  BY <1>1, <1>2, <1>4, OfferedTypes DEF Reported
<1>9. (t.r = 0 /\ t.unit = -1) => type = "READ"
  <2>1. (t.r = 0 /\ t.unit = -1) => d = "in" /\ Kind[h] = "TCP" BY <1>6, <1>8 DEF Says
  <2>2. d = "in" /\ Kind[h] = "TCP" => type = "READ"
    BY <1>2, <1>4 DEF Offers, Dir, InTypes
  <2> QED BY <2>1, <2>2
<1>10. /\ units' \in [Ops -> 0..2] /\ empties' \in [Ops -> 0..2]
       /\ \A q \in Ops : q # op => units'[q] = units[q] /\ empties'[q] = empties[q]
       /\ units'[op] = IF t.unit = 1 THEN More(units[op]) ELSE units[op]
       /\ empties'[op] = IF t.unit = 0 THEN More(empties[op]) ELSE empties[op]
  BY <1>2, <1>3, <1>5, <1>7, MovedEffect
<1>11. kernel' \in [Socks -> Descriptors] /\ (\A g \in Socks : Sane(g, kernel'[g]))
       /\ \A g \in Socks : kernel'[g] = IF g = h THEN t.fd ELSE kernel[g]
  BY <1>3, <1>5, <1>6, <1>7, KernelPut
<1> DEFINE v == Served(slot, t.again)
<1>12. v \in Slots /\ ~v.active BY <1>2, <1>7 DEF Served, Slots
<1>13. socks' = [socks EXCEPT ![h][d] = v] BY <1>5
<1> HIDE DEF v
<1>14. /\ socks' \in Tables /\ socks'[h][d] = v
       /\ \A g \in Keys, c \in Dirs : (g # h \/ c # d) => socks'[g][c] = socks[g][c]
  <2>1. socks \in Tables /\ h \in Keys /\ d \in Dirs /\ v \in Slots
    BY <1>2, <1>3, <1>12 DEF TypesInv
  <2> DEFINE new == [socks EXCEPT ![h][d] = v]
  <2>2. /\ new \in Tables /\ new[h][d] = v
        /\ \A g \in Keys, c \in Dirs : (g # h \/ c # d) => new[g][c] = socks[g][c]
    BY ONLY <2>1, SlotPut
  <2> HIDE DEF new
  <2> QED BY <1>13, <2>2 DEF new
<1>15. \A g \in Keys : g # h => socks'[g] = socks[g] BY <1>3, <1>13 DEF TypesInv, Tables
<1>16. StartedTyped BY <1>1, <1>3, <1>10, <1>11, <1>14 DEF StartedTyped, KernelInv, TypesInv
<1>17. /\ Finished(op, t.r) \in Events /\ Finished(op, t.r).cb = op
       /\ t.r < 0 => Finished(op, t.r).error = -t.r
       /\ t.r >= 0 => Finished(op, t.r).error = 0 /\ Finished(op, t.r).res = t.r
  BY <1>2, <1>7, FinishedTyped
<1>18. Posts(op) BY <1>5, <1>17 DEF Posts
<1>19. Ends(h, d, op)
  <2>1. \A g \in Keys, c \in Dirs :
          \/ (g # h \/ c # d) /\ socks'[g][c] = socks[g][c]
          \/ g = h /\ c = d /\ ~socks'[g][c].active
    BY <1>12, <1>14
  <2> QED BY <1>1, <1>2, <1>10, <1>18, <2>1 DEF Ends
<1>20. BatchInv'
  <2>1. /\ rs' \subseteq rs /\ ws' \subseteq ws /\ rs \subseteq Socks /\ ws \subseteq Socks
        /\ d = "in" => h \notin rs'
        /\ d = "out" => h \notin ws'
    BY <1>1, <1>3, BatchShrinks DEF TypesInv
  <2>2. ASSUME NEW g \in Socks, NEW c \in Dirs, g # h \/ c # d, Reported(g, c)
        PROVE  Reported(g, c)'
    <3>1. socks'[g][c] = socks[g][c] BY <1>14, <2>2, Constants
    <3>2. kernel'[g].conn = kernel[g].conn /\ (Ready(kernel[g], c) => Ready(kernel'[g], c))
      <4>1. CASE g # h BY <1>11, <4>1
      <4>2. CASE g = h
        <5>1. kernel'[g] = t.fd /\ c # d BY <1>11, <2>2, <4>2
        <5> QED BY <1>2, <1>6, <4>2, <5>1 DEF Leaves, Ready, Dirs
      <4> QED BY <4>1, <4>2
    <3> QED BY <1>1, <2>2, <3>1, <3>2 DEF Reported
  <2>3. \A g \in rs' : Reported(g, "in")' BY <1>3, <2>1, <2>2 DEF BatchInv, Dirs
  <2>4. \A g \in ws' : Reported(g, "out")' BY <1>3, <2>1, <2>2 DEF BatchInv, Dirs
  <2> QED BY <1>1, <1>2, <2>3, <2>4 DEF BatchInv
<1>21. empties'[op] > 0 => empties[op] > 0 \/ Kind[h] = "UDP"
  <2>1. len = 0 => Kind[h] = "UDP"
    BY <1>2, <1>4, OfferedTypes DEF Offered, len, type
  <2> QED BY <1>7, <1>10, <2>1
<1>22. Reports(op, Finished(op, t.r)) BY <1>5, <1>7, <1>10, <1>17 DEF Reports
<1>23. ASSUME Finished(op, t.r).error = 0, Finished(op, t.r).res = 0
       PROVE  type = "READ" \/ empties'[op] > 0
  <2>1. t.r = 0 BY <1>7, <1>17, <1>23
  <2>2. CASE t.unit = -1 BY <1>9, <2>1, <2>2
  <2>3. CASE t.unit = 0
    <3>1. empties[op] \in 0..2 BY <1>2, <1>3 DEF TypesInv
    <3> QED BY <1>10, <2>3, <3>1 DEF More
  <2> QED BY <1>7, <2>1, <2>2, <2>3
<1>24. rs' \subseteq Socks /\ ws' \subseteq Socks BY <1>1, BatchShrinks
<1> QED BY <1>1, <1>2, <1>8, <1>15, <1>16, <1>17, <1>19, <1>20, <1>21, <1>22, <1>23, <1>24
        DEF type
LEMMA DispatchAcceptEnds ==
  ASSUME CoreInv, NEW h \in Socks, DispatchAccept(h)
  PROVE  \E op \in Ops, t \in Socks :
           /\ Ends(h, "in", op) /\ StartedTyped /\ BatchInv'
           /\ rs' \subseteq Socks /\ ws' \subseteq Socks
           /\ await[op].type = "ACCEPT" /\ await[op].sock = h /\ await[op].target = t
           /\ waitset' = SubmitComplete(waitset, Finished(op, 0))
           /\ \A g \in Keys : g # h => socks'[g] = socks[g]
           /\ \A g \in Socks : g # t => handle'[g] = handle[g]
           /\ empties' = empties
           /\ \/ handle'[t] = "open" /\ units'[op] = More(units[op])
              \/ handle'[t] = "invalid" /\ vanished /\ units'[op] = units[op]
<1> DEFINE slot == socks[h]["in"]
           op == slot.op
           t == slot.data
           v == Served(slot, FALSE)
           d == "in"
<1>1. /\ Dispatching(h, d) /\ slot.type = "ACCEPT" /\ AcceptInto(h, t, op)
      /\ waitset' = SubmitComplete(waitset, Finished(op, 0))
      /\ UNCHANGED <<it, canContinue, pc, await, told, runs, dropped, vanished>>
  BY DEF DispatchAccept
<1>2. socks' = [socks EXCEPT ![h][d] = v] BY DEF DispatchAccept
<1>3. d \in Dirs BY DEF Dirs
<1>4. /\ h \in Keys /\ pc = "dispatch" /\ Reported(h, d)
      /\ op \in Ops /\ Waits(h, d, op) /\ slot \in Slots
      /\ await[op].sock = h /\ Offered(await[op]) /\ await[op] \in Awaits
      /\ slot.type = await[op].type /\ slot.data = await[op].target
      /\ Running(op)
  BY <1>1, <1>3, Waiter
<1>5. TypesInv /\ KernelInv /\ BatchInv /\ SlotInv /\ TargetInv BY SMTT(40) DEF CoreInv
<1>6. /\ t = await[op].target /\ t # NoSock /\ t \in Socks /\ Kind[t] = "TCP"
      /\ Kind[h] = "LISTEN" /\ await[op].type = "ACCEPT"
  BY <1>1, <1>4, OfferedTypes DEF Offered, Awaits
<1> HIDE DEF slot, op, t, d, v
<1>7. /\ handle' \in Handles /\ kernel' \in [Socks -> Descriptors] /\ KernelInv'
      /\ \A g \in Socks : g # t => handle'[g] = handle[g]
      /\ \A g \in Socks : g # h /\ g # t => kernel'[g] = kernel[g]
      /\ Leaves(kernel[h], "in", kernel'[h])
      /\ units' \in [Ops -> 0..2] /\ empties' \in [Ops -> 0..2] /\ empties' = empties
      /\ \A q \in Ops : q # op => units'[q] = units[q]
      /\ kernel[h].inq # <<>> =>
              handle'[t] = "open" /\ units'[op] = More(units[op])
      /\ kernel[h].inq = <<>> =>
              handle'[t] = "invalid" /\ units'[op] = units[op]
  BY <1>1, <1>4, <1>5, <1>6, AcceptOutcome
<1>8. v \in Slots /\ ~v.active BY <1>4 DEF Served, Slots, v
<1>9. /\ socks' \in Tables /\ socks'[h][d] = v
      /\ \A g \in Keys, c \in Dirs : (g # h \/ c # d) => socks'[g][c] = socks[g][c]
  <2>1. socks \in Tables /\ h \in Keys /\ d \in Dirs /\ v \in Slots
    BY <1>3, <1>4, <1>5, <1>8 DEF TypesInv
  <2> DEFINE new == [socks EXCEPT ![h][d] = v]
  <2>2. /\ new \in Tables /\ new[h][d] = v
        /\ \A g \in Keys, c \in Dirs : (g # h \/ c # d) => new[g][c] = socks[g][c]
    BY ONLY <2>1, SlotPut
  <2> HIDE DEF new
  <2> QED BY <1>2, <2>2 DEF new
<1>10. \A g \in Keys : g # h => socks'[g] = socks[g] BY <1>2, <1>5 DEF TypesInv, Tables
<1>11. StartedTyped BY <1>7, <1>9 DEF StartedTyped
<1>12. Posts(op)
  <2>1. 0 \in Int OBVIOUS
  <2> QED BY <1>1, <1>4, <2>1, FinishedTyped DEF Posts
<1>13. Ends(h, d, op)
  <2>1. \A g \in Keys, c \in Dirs :
          \/ (g # h \/ c # d) /\ socks'[g][c] = socks[g][c]
          \/ g = h /\ c = d /\ ~socks'[g][c].active
    BY <1>8, <1>9
  <2> QED BY <1>1, <1>4, <1>6, <1>7, <1>12, <2>1 DEF Ends
<1>14. BatchInv'
  <2>1. /\ rs' \subseteq rs /\ ws' \subseteq ws /\ rs \subseteq Socks /\ ws \subseteq Socks
        /\ h \notin rs'
    BY <1>1, <1>3, <1>5, BatchShrinks DEF TypesInv, d
  <2>2. ASSUME NEW g \in Socks, NEW c \in Dirs, g # h \/ c # d, Reported(g, c)
        PROVE  Reported(g, c)'
    <3>1. socks'[g][c] = socks[g][c] /\ g \in Keys BY <1>9, <2>2, Constants
    <3>2. g # t
      <4> DEFINE q == socks[g][c].op
      <4>1. q \in Ops /\ Waits(g, c, q) BY <1>5, <2>2, <3>1 DEF Reported, SlotInv, Waits
      <4> HIDE DEF q
      <4>2. await[q].sock # t BY <1>4, <1>5, <1>6, <3>1, <4>1 DEF TargetInv
      <4>3. Key(await[q].sock) = g BY <1>5, <3>1, <4>1 DEF SlotInv, Holds
      <4> QED BY <4>2, <4>3, Constants DEF Key
    <3>3. kernel'[g].conn = kernel[g].conn /\ (Ready(kernel[g], c) => Ready(kernel'[g], c))
      <4>1. CASE g # h BY <1>7, <3>2, <4>1
      <4>2. CASE g = h
        <5>1. c = "out" BY <2>2, <4>2 DEF Dirs, d
        <5> QED BY <1>7, <4>2, <5>1 DEF Leaves, Ready
      <4> QED BY <4>1, <4>2
    <3> QED BY <1>1, <2>2, <3>1, <3>3 DEF Reported
  <2>3. \A g \in rs' : Reported(g, "in")' BY <1>5, <2>1, <2>2 DEF BatchInv, Dirs
  <2>4. \A g \in ws' : Reported(g, "out")' BY <1>5, <2>1, <2>2 DEF BatchInv, Dirs, d
  <2> QED BY <1>1, <1>4, <2>3, <2>4 DEF BatchInv
<1>15. kernel[h].inq = <<>> => vanished
  <2>1. Sane(h, kernel[h]) BY <1>5 DEF KernelInv
  <2>2. ~kernel[h].reset /\ ~kernel[h].fin BY <1>6, <2>1 DEF Sane
  <2> QED BY <1>4, <2>2 DEF Reported, Ready, d
<1>16. rs' \subseteq Socks /\ ws' \subseteq Socks BY <1>1, <1>3, BatchShrinks
<1> QED BY <1>1, <1>4, <1>6, <1>7, <1>10, <1>11, <1>13, <1>14, <1>15, <1>16 DEF d

LEMMA DispatchConnectEnds ==
  ASSUME CoreInv, NEW h \in Socks, DispatchConnect(h)
  PROVE  \E op \in Ops :
           /\ Ends(h, "out", op) /\ StartedTyped /\ BatchInv'
           /\ rs' \subseteq Socks /\ ws' \subseteq Socks
           /\ await[op].type = "CONNECT" /\ await[op].sock = h /\ kernel[h].conn = "est"
           /\ UNCHANGED <<handle, kernel, units, empties>>
           /\ \A g \in Keys : g # h => socks'[g] = socks[g]
<1> DEFINE slot == socks[h]["out"]
           op == slot.op
           err == Connect(kernel[h])
           r == IF err = WSAEISCONN THEN 0 ELSE -err
           v == [slot EXCEPT !.active = FALSE]
           d == "out"
<1>1. /\ Dispatching(h, d) /\ slot.type = "CONNECT"
      /\ waitset' = SubmitComplete(waitset, Finished(op, r))
      /\ UNCHANGED <<it, canContinue, pc, handle, kernel, await, told, runs, units, empties,
                     dropped, vanished>>
  BY DEF DispatchConnect, calls
<1>2. socks' = [socks EXCEPT ![h][d] = v] BY DEF DispatchConnect
<1>3. d \in Dirs BY DEF Dirs
<1>4. /\ h \in Keys /\ pc = "dispatch" /\ Reported(h, d)
      /\ op \in Ops /\ Waits(h, d, op) /\ slot \in Slots
      /\ await[op].sock = h /\ slot.type = await[op].type
  BY <1>1, <1>3, Waiter
<1>5. TypesInv /\ KernelInv /\ BatchInv BY DEF CoreInv
<1>6. r \in Int
  BY ConnectOutcome DEF WSAECONNRESET, WSAEISCONN, WSAEALREADY, WSAEWOULDBLOCK
<1> HIDE DEF slot, op, r, d, v
<1>7. v \in Slots /\ ~v.active BY <1>4 DEF Slots, v
<1>8. /\ socks' \in Tables /\ socks'[h][d] = v
      /\ \A g \in Keys, c \in Dirs : (g # h \/ c # d) => socks'[g][c] = socks[g][c]
  <2>1. socks \in Tables /\ h \in Keys /\ d \in Dirs /\ v \in Slots
    BY <1>3, <1>4, <1>5, <1>7 DEF TypesInv
  <2> DEFINE new == [socks EXCEPT ![h][d] = v]
  <2>2. /\ new \in Tables /\ new[h][d] = v
        /\ \A g \in Keys, c \in Dirs : (g # h \/ c # d) => new[g][c] = socks[g][c]
    BY ONLY <2>1, SlotPut
  <2> HIDE DEF new
  <2> QED BY <1>2, <2>2 DEF new
<1>9. \A g \in Keys : g # h => socks'[g] = socks[g] BY <1>2, <1>5 DEF TypesInv, Tables
<1>10. StartedTyped BY <1>1, <1>5, <1>8 DEF StartedTyped, TypesInv, KernelInv
<1>11. Posts(op) BY <1>1, <1>4, <1>6, FinishedTyped DEF Posts
<1>12. Ends(h, d, op)
  <2>1. \A g \in Keys, c \in Dirs :
          \/ (g # h \/ c # d) /\ socks'[g][c] = socks[g][c]
          \/ g = h /\ c = d /\ ~socks'[g][c].active
    BY <1>7, <1>8
  <2> QED BY <1>1, <1>4, <1>11, <2>1 DEF Ends
<1>13. BatchInv'
  <2>1. /\ rs' \subseteq rs /\ ws' \subseteq ws /\ rs \subseteq Socks /\ ws \subseteq Socks
        /\ h \notin ws'
    BY <1>1, <1>3, <1>5, BatchShrinks DEF TypesInv, d
  <2>2. ASSUME NEW g \in Socks, NEW c \in Dirs, g # h \/ c # d, Reported(g, c)
        PROVE  Reported(g, c)'
    <3>1. socks'[g][c] = socks[g][c] BY <1>8, <2>2, Constants
    <3> QED BY <1>1, <2>2, <3>1 DEF Reported
  <2>3. \A g \in rs' : Reported(g, "in")' BY <1>5, <2>1, <2>2 DEF BatchInv, Dirs, d
  <2>4. \A g \in ws' : Reported(g, "out")' BY <1>5, <2>1, <2>2 DEF BatchInv, Dirs
  <2> QED BY <1>1, <1>4, <2>3, <2>4 DEF BatchInv
<1>14. rs' \subseteq Socks /\ ws' \subseteq Socks BY <1>1, <1>3, BatchShrinks
<1>15. kernel[h].conn = "est" BY <1>4 DEF Reported
<1> QED BY <1>1, <1>4, <1>9, <1>10, <1>12, <1>13, <1>14, <1>15 DEF d

LEMMA DispatchInv == ASSUME CoreInv, Dispatch PROVE CoreInv'
<1>1. PICK h \in Socks : \/ DispatchTransfer(h, "in") \/ DispatchTransfer(h, "out")
                         \/ DispatchAccept(h) \/ DispatchConnect(h)
  BY DEF Dispatch
<1>2. h \in Keys BY Constants
<1>3. CASE DispatchTransfer(h, "in")
  <2>1. "in" \in Dirs BY DEF Dirs
  <2> QED BY <1>2, <1>3, <2>1, DispatchTransferEnds, EndsInv DEF StartedTyped
<1>4. CASE DispatchTransfer(h, "out")
  <2>1. "out" \in Dirs BY DEF Dirs
  <2> QED BY <1>2, <1>4, <2>1, DispatchTransferEnds, EndsInv DEF StartedTyped
<1>5. CASE DispatchAccept(h)
  <2>1. "in" \in Dirs BY DEF Dirs
  <2> QED BY <1>2, <1>5, <2>1, DispatchAcceptEnds, EndsInv DEF StartedTyped
<1>6. CASE DispatchConnect(h)
  <2>1. "out" \in Dirs BY DEF Dirs
  <2> QED BY <1>2, <1>6, <2>1, DispatchConnectEnds, EndsInv DEF StartedTyped
<1> QED BY <1>1, <1>3, <1>4, <1>5, <1>6
-----------------------------------------------------------------------------
(* The other steps.                                                        *)

LEMMA InitCore == Init => CoreInv
<1> SUFFICES ASSUME Init PROVE CoreInv OBVIOUS
<1>1. LoopInv /\ waitset = <<>> /\ Len(waitset) = 0 /\ pc = "setup"
  BY LoopInitInv, EmptySeq DEF Init, LoopInit
<1>2. PICK bare \in SUBSET Fresh :
        /\ handle = [s \in Socks |-> IF s \in bare THEN "none" ELSE "open"]
        /\ kernel = [s \in Socks |-> IF s \in bare THEN ClosedFd ELSE NewFd(Kind[s])]
  BY DEF Init
<1>3. handle \in Handles /\ \A s \in Socks : handle[s] # "invalid" BY <1>2 DEF Handles
<1>4. kernel \in [Socks -> Descriptors] /\ \A s \in Socks : Sane(s, kernel[s])
  BY <1>2, FreshDescriptors
<1>5. NewSlot \in Slots /\ ~NewSlot.active
  BY DEF NewSlot, Slots
<1>6. SockEvent \in Entries /\ \A d \in Dirs : ~SockEvent[d].active
  BY <1>5 DEF SockEvent, Entries, Dirs
<1>7. /\ socks = [h \in Keys |-> SockEvent] /\ rs = {} /\ ws = {}
      /\ await = [op \in Ops |-> Unissued] /\ told = [op \in Ops |-> "nothing"]
      /\ runs = [op \in Ops |-> 0] /\ units = [op \in Ops |-> 0]
      /\ empties = [op \in Ops |-> 0] /\ dropped = {} /\ vanished = FALSE
  BY DEF Init
<1>8. Unissued \in Awaits BY DEF Unissued, Awaits
<1>9. TypesInv
  <2>1. socks \in Tables BY <1>6, <1>7 DEF Tables
  <2>2. await \in [Ops -> Awaits] BY <1>7, <1>8
  <2>3. /\ runs \in [Ops -> 0..2] /\ units \in [Ops -> 0..2] /\ empties \in [Ops -> 0..2]
        /\ told \in [Ops -> {"nothing", "ok", "zero", "error", "invalid"}]
        /\ rs \subseteq Socks /\ ws \subseteq Socks /\ dropped \subseteq Ops
    BY <1>7
  <2>4. vanished \in BOOLEAN BY <1>7
  <2> QED BY <1>1, <1>3, <1>4, <2>1, <2>2, <2>3, <2>4 DEF TypesInv
<1>10. AwaitInv
  BY <1>1, <1>7 DEF AwaitInv, Untouched, Issued, Completed, Listed
<1>11. \A h \in Keys, d \in Dirs : ~socks[h][d].active BY <1>6, <1>7
<1>12. SlotInv BY <1>11 DEF SlotInv, Waits
<1>13. TargetInv BY <1>7 DEF TargetInv, Running
<1>14. QueueInv BY <1>1, <1>7 DEF QueueInv, Lo
<1>15. BatchInv BY <1>7 DEF BatchInv
<1>16. KernelInv BY <1>3, <1>4 DEF KernelInv
<1> QED BY <1>9, <1>10, <1>12, <1>13, <1>14, <1>15, <1>16 DEF CoreInv

(* Steps of the loop and of Wait that serve nothing. *)
Quiet ==
  /\ UNCHANGED <<waitset, handle, kernel, socks, await, told, runs, units, empties, dropped,
                 vanished>>
  /\ pc' = "callback" <=> pc = "callback"
  /\ rs' \subseteq Socks /\ ws' \subseteq Socks

LEMMA QuietInv ==
  ASSUME CoreInv, Quiet, LoopInv', BatchInv'
  PROVE  CoreInv' /\ \A q \in Ops : Completed(q)' <=> Completed(q)
<1>1. UNCHANGED <<waitset, handle, kernel, socks, await, told, runs, units, empties, dropped,
                  vanished>> /\ Lo' = Lo
  BY DEF Quiet, Lo
<1>2. \A q \in Ops : Completed(q)' <=> Completed(q) BY <1>1 DEF Completed, Listed
<1>3. TypesInv' BY <1>1 DEF CoreInv, TypesInv, Quiet
<1>4. AwaitInv'
  <2>1. ASSUME NEW q \in Ops
        PROVE  \/ Issued(q)' /\ Offered(await'[q])
               \/ /\ await'[q] = await[q] /\ told'[q] = told[q]
                  /\ units'[q] = units[q] /\ empties'[q] = empties[q]
                  /\ Completed(q)' => Completed(q)
                  /\ q \in dropped' => q \in dropped \/ Issued(q)
    BY <1>1, <1>2
  <2> QED BY <2>1, AwaitKept DEF CoreInv
<1>5. SlotInv'
  <2>1. ASSUME NEW h \in Keys, NEW d \in Dirs, NEW q \in Ops, Waits(h, d, q)'
        PROVE  Holds(h, d, q)'
    <3>1. Waits(h, d, q) BY <1>1, <2>1 DEF Waits
    <3>2. Holds(h, d, q) BY <3>1 DEF CoreInv, SlotInv
    <3>3. Completed(q)' => Completed(q) BY <1>2
    <3> QED BY <1>1, <3>2, <3>3, HoldsKept
  <2> QED BY <1>1, <2>1 DEF CoreInv, SlotInv
<1>6. TargetInv' BY <1>1 DEF CoreInv, TargetInv, Running, Waits
<1>7. QueueInv' BY <1>1 DEF CoreInv, QueueInv, Quiet
<1>8. KernelInv' BY <1>1 DEF CoreInv, KernelInv
<1> QED BY <1>2, <1>3, <1>4, <1>5, <1>6, <1>7, <1>8 DEF CoreInv

LEMMA QuietSteps ==
  ASSUME CoreInv,
         \/ StartRun \/ LoopTest \/ StartWait \/ UserEnd \/ SelectFails \/ Select
         \/ WaitReturns \/ UNCHANGED vars
  PROVE  Quiet /\ LoopInv' /\ BatchInv'
<1>1. LoopInv /\ BatchInv /\ rs \subseteq Socks /\ ws \subseteq Socks
  BY DEF CoreInv, TypesInv
<1>2. CASE StartRun \/ LoopTest \/ StartWait \/ UserEnd \/ UNCHANGED vars
  <2>1. Quiet /\ UNCHANGED <<rs, ws>>
    BY <1>1, <1>2 DEF Quiet, StartRun, LoopTest, StartWait, UserEnd, Run, Enter, EnterWait, End,
                      selectVars, calls, vars
  <2>2. LoopInv'
    BY <1>1, <1>2, LoopStepInv DEF StartRun, LoopTest, StartWait, UserEnd, vars, loopVars
  <2>3. pc' # "dispatch" => pc # "dispatch" \/ pc' = pc
    BY <1>2 DEF StartRun, LoopTest, StartWait, UserEnd, Run, Enter, EnterWait, End, vars
  <2>4. BatchInv'
    <3>1. UNCHANGED <<rs, ws, socks, kernel, vanished>> BY <2>1 DEF Quiet
    <3>2. \A h \in Socks, d \in Dirs : Reported(h, d)' <=> Reported(h, d)
      BY <3>1 DEF Reported, Ready
    <3>3. \A h \in rs : Reported(h, "in")' BY <1>1, <3>2 DEF BatchInv, Dirs
    <3>4. \A h \in ws : Reported(h, "out")' BY <1>1, <3>2 DEF BatchInv, Dirs
    <3>5. pc' # "dispatch" => rs' = {} /\ ws' = {} BY <1>1, <2>3, <3>1 DEF BatchInv
    <3>6. rs' = rs /\ ws' = ws BY <3>1
    <3> QED BY <3>3, <3>4, <3>5, <3>6 DEF BatchInv
  <2> QED BY <2>1, <2>2, <2>4
<1>3. CASE SelectFails
  <2>1. /\ pc = "wait" /\ pc' = "top" /\ UNCHANGED <<rs, ws>> /\ Quiet
        /\ UNCHANGED <<waitset, it, canContinue>>
    BY <1>1, <1>3 DEF SelectFails, Quiet, calls
  <2>2. LoopInv' BY <1>1, <2>1 DEF LoopInv, NothingDueInWait, Places
  <2>3. BatchInv' BY <1>1, <2>1 DEF BatchInv
  <2> QED BY <2>1, <2>2, <2>3
<1>4. CASE WaitReturns
  <2>1. /\ pc = "dispatch" /\ pc' = "top" /\ UNCHANGED <<rs, ws>> /\ Quiet
        /\ rs \cup ws = {} /\ UNCHANGED <<waitset, it, canContinue>>
    BY <1>1, <1>4 DEF WaitReturns, Quiet, calls
  <2>2. LoopInv' BY <1>1, <2>1 DEF LoopInv, NothingDueInWait, Places
  <2>3. BatchInv' BY <1>1, <2>1 DEF BatchInv
  <2> QED BY <2>1, <2>2, <2>3
<1>5. CASE Select
  <2>1. /\ pc = "wait" /\ pc' = "dispatch"
        /\ INVALID_SOCKET \notin Watched("in") \cup Watched("out")
        /\ rs' = {h \in Watched("in") : Ready(kernel[h], "in")}
        /\ ws' = {h \in Watched("out") : Ready(kernel[h], "out")}
        /\ UNCHANGED <<waitset, it, canContinue, handle, kernel, socks, await, told, runs,
                       units, empties, dropped, vanished>>
    BY <1>5 DEF Select, Selected, calls
  <2>2. \A d \in Dirs : \A h \in Watched(d) : h \in Keys /\ socks[h][d].active
    BY DEF Watched, FirstKeys
  <2>3. \A d \in Dirs : \A h \in Watched(d) : h \in Socks
    BY <2>1, <2>2 DEF Keys, Dirs
  <2>4. Quiet BY <2>1, <2>3 DEF Quiet, Dirs
  <2>5. LoopInv' BY <1>1, <2>1 DEF LoopInv, NothingDueInWait, Places
  <2>6. \A h \in Socks, d \in Dirs : Ready(kernel[h], d) => kernel[h].conn = "est"
    BY DEF CoreInv, KernelInv, Sane, Ready
  <2>7. ASSUME NEW d \in Dirs, NEW h \in Watched(d), Ready(kernel[h], d)
        PROVE  Reported(h, d)'
    BY <2>1, <2>2, <2>3, <2>6, <2>7 DEF Reported
  <2>8. BatchInv' BY <2>1, <2>7 DEF BatchInv, Dirs
  <2> QED BY <2>4, <2>5, <2>8
<1> QED BY <1>2, <1>3, <1>4, <1>5

(* Only what Winsock knows of one socket changes. *)
External(s, fd) ==
  /\ fd \in Descriptors /\ Sane(s, fd)
  /\ kernel' = [kernel EXCEPT ![s] = fd]
  /\ UNCHANGED <<loopVars, handle, socks, rs, ws, calls>>
  /\ vanished' \in BOOLEAN /\ (vanished => vanished')
  /\ kernel[s].conn = "est" => fd.conn = "est"
  /\ \A d \in Dirs : Ready(kernel[s], d) => Ready(fd, d) \/ (Kind[s] = "LISTEN" /\ vanished')

LEMMA ExternalInv ==
  ASSUME CoreInv, NEW s \in Socks, NEW fd, External(s, fd)
  PROVE  CoreInv' /\ \A q \in Ops : Completed(q)' <=> Completed(q)
<1>1. TypesInv /\ KernelInv /\ BatchInv BY DEF CoreInv
<1>2. UNCHANGED <<waitset, it, canContinue, pc, handle, socks, rs, ws, await, told, runs,
                  units, empties, dropped>> /\ Lo' = Lo
  BY DEF External, loopVars, calls, Lo
<1>3. /\ kernel' \in [Socks -> Descriptors] /\ (\A g \in Socks : Sane(g, kernel'[g]))
      /\ \A g \in Socks : kernel'[g] = IF g = s THEN fd ELSE kernel[g]
  BY <1>1, KernelPut DEF External
<1>4. \A q \in Ops : Completed(q)' <=> Completed(q) BY <1>2 DEF Completed, Listed
<1>5. LoopInv' BY <1>1, <1>2 DEF TypesInv, LoopInv, NothingDueInWait
<1>6. TypesInv' BY <1>1, <1>2, <1>3, <1>5 DEF TypesInv, External
<1>7. AwaitInv'
  <2>1. ASSUME NEW q \in Ops
        PROVE  \/ Issued(q)' /\ Offered(await'[q])
               \/ /\ await'[q] = await[q] /\ told'[q] = told[q]
                  /\ units'[q] = units[q] /\ empties'[q] = empties[q]
                  /\ Completed(q)' => Completed(q)
                  /\ q \in dropped' => q \in dropped \/ Issued(q)
    BY <1>2, <1>4
  <2> QED BY <2>1, AwaitKept DEF CoreInv
<1>8. SlotInv'
  <2>1. ASSUME NEW h \in Keys, NEW d \in Dirs, NEW q \in Ops, Waits(h, d, q)'
        PROVE  Holds(h, d, q)'
    <3>1. Waits(h, d, q) BY <1>2, <2>1 DEF Waits
    <3>2. Holds(h, d, q) BY <3>1 DEF CoreInv, SlotInv
    <3>3. Completed(q)' => Completed(q) BY <1>4
    <3> QED BY <1>2, <3>2, <3>3, HoldsKept
  <2> QED BY <1>2, <2>1 DEF CoreInv, SlotInv
<1>9. TargetInv' BY <1>2 DEF CoreInv, TargetInv, Running, Waits
<1>10. QueueInv' BY <1>2 DEF CoreInv, QueueInv
<1>11. KernelInv' BY <1>1, <1>2, <1>3 DEF KernelInv
<1>12. BatchInv'
  <2>1. ASSUME NEW h \in Socks, NEW d \in Dirs, Reported(h, d) PROVE Reported(h, d)'
    <3>1. CASE h # s BY <1>2, <1>3, <2>1, <3>1 DEF Reported, External
    <3>2. CASE h = s
      <4>1. kernel'[h] = fd BY <1>3, <3>2
      <4> QED BY <1>2, <2>1, <3>2, <4>1 DEF Reported, External
    <3> QED BY <3>1, <3>2
  <2>2. rs \subseteq Socks /\ ws \subseteq Socks BY <1>1 DEF TypesInv
  <2> QED BY <1>1, <1>2, <2>1, <2>2 DEF BatchInv, Dirs
<1> QED BY <1>4, <1>6, <1>7, <1>8, <1>9, <1>10, <1>11, <1>12 DEF CoreInv
-----------------------------------------------------------------------------
(* The network.                                                            *)

NetworkStep(s) ==
  (\E len \in {0, 1} : Arrive(s, len)) \/ Vanish(s) \/ PeerFin(s) \/ PeerReset(s) \/ Answer(s)
    \/ Drain(s)

LEMMA Appended01 ==
  ASSUME NEW q \in Seq({0, 1}), NEW len \in {0, 1}
  PROVE  /\ Append(q, len) \in Seq({0, 1}) /\ Append(q, len) # <<>>
         /\ \A i \in 1..Len(Append(q, len)) :
              Append(q, len)[i] = len \/ \E j \in 1..Len(q) : Append(q, len)[i] = q[j]
<1>1. Len(q) \in Nat BY LenProperties
<1>2. /\ Append(q, len) \in Seq({0, 1}) /\ Len(Append(q, len)) = Len(q) + 1
      /\ Append(q, len)[Len(q) + 1] = len
      /\ \A i \in 1..Len(q) : Append(q, len)[i] = q[i]
  BY AppendProperties
<1>3. \A i \in 1..Len(q) + 1 : i \in 1..Len(q) \/ i = Len(q) + 1 BY <1>1
<1>4. Append(q, len) # <<>> BY <1>1, <1>2, EmptySeq
<1> QED BY <1>2, <1>3, <1>4

LEMMA NetworkExternal ==
  ASSUME CoreInv, NEW s \in Socks, NetworkStep(s)
  PROVE  \E fd : External(s, fd)
<1> DEFINE old == kernel[s]
<1>1. old \in Descriptors /\ Sane(s, old) /\ vanished \in BOOLEAN
  BY DEF CoreInv, TypesInv, KernelInv
<1>2. old.inq \in Seq({0, 1}) BY <1>1 DEF Descriptors
<1> HIDE DEF old
<1>3. ASSUME NEW len \in {0, 1}, Arrive(s, len) PROVE \E fd : External(s, fd)
  <2> DEFINE fd == [old EXCEPT !.inq = Append(old.inq, len)]
  <2>1. /\ kernel' = [kernel EXCEPT ![s] = fd] /\ vanished' = vanished
        /\ UNCHANGED <<loopVars, handle, socks, rs, ws, calls>>
        /\ len = 0 => Kind[s] = "UDP"
    BY <1>3 DEF Arrive, Network, old
  <2>2. /\ Append(old.inq, len) \in Seq({0, 1}) /\ Append(old.inq, len) # <<>>
        /\ \A i \in 1..Len(Append(old.inq, len)) :
             Append(old.inq, len)[i] = len
               \/ \E j \in 1..Len(old.inq) : Append(old.inq, len)[i] = old.inq[j]
    BY <1>2, Appended01
  <2>3. /\ fd \in Descriptors /\ fd.inq = Append(old.inq, len) /\ fd.conn = old.conn
        /\ fd.reset = old.reset /\ fd.fin = old.fin /\ fd.room = old.room
    BY <1>1, <2>2 DEF Descriptors
  <2> HIDE DEF fd
  <2>4. Sane(s, fd) BY <1>1, <2>1, <2>2, <2>3 DEF Sane
  <2>5. \A d \in Dirs : Ready(old, d) => Ready(fd, d) BY <2>2, <2>3 DEF Ready
  <2>6. External(s, fd) BY <1>1, <2>1, <2>3, <2>4, <2>5 DEF External, old
  <2> QED BY <2>6
<1>4. CASE Vanish(s)
  <2> DEFINE fd == [old EXCEPT !.inq = Tail(old.inq)]
  <2>1. /\ kernel' = [kernel EXCEPT ![s] = fd] /\ vanished' = TRUE /\ Kind[s] = "LISTEN"
        /\ UNCHANGED <<loopVars, handle, socks, rs, ws, calls>> /\ old.inq # <<>>
    BY <1>4 DEF Vanish, Network, old
  <2>2. /\ Tail(old.inq) \in Seq({0, 1})
        /\ \A i \in 1..Len(Tail(old.inq)) : \E j \in 1..Len(old.inq) : Tail(old.inq)[i] = old.inq[j]
    BY <1>2, <2>1, Tail01
  <2>3. /\ fd \in Descriptors /\ fd.inq = Tail(old.inq) /\ fd.conn = old.conn
        /\ fd.reset = old.reset /\ fd.fin = old.fin /\ fd.room = old.room
    BY <1>1, <2>2 DEF Descriptors
  <2> HIDE DEF fd
  <2>4. Sane(s, fd) BY <1>1, <2>1, <2>2, <2>3 DEF Sane
  <2>5. External(s, fd) BY <1>1, <2>1, <2>3, <2>4 DEF External, old
  <2> QED BY <2>5
<1>5. CASE PeerFin(s)
  <2> DEFINE fd == [old EXCEPT !.fin = TRUE]
  <2>1. /\ kernel' = [kernel EXCEPT ![s] = fd] /\ vanished' = vanished /\ Kind[s] = "TCP"
        /\ UNCHANGED <<loopVars, handle, socks, rs, ws, calls>>
    BY <1>5 DEF PeerFin, Network, old
  <2>2. /\ fd \in Descriptors /\ fd.inq = old.inq /\ fd.conn = old.conn
        /\ fd.reset = old.reset /\ fd.fin /\ fd.room = old.room
    BY <1>1 DEF Descriptors
  <2> HIDE DEF fd
  <2>3. Sane(s, fd) BY <1>1, <2>1, <2>2 DEF Sane
  <2>4. \A d \in Dirs : Ready(old, d) => Ready(fd, d) BY <2>2 DEF Ready
  <2>5. External(s, fd) BY <1>1, <2>1, <2>2, <2>3, <2>4 DEF External, old
  <2> QED BY <2>5
<1>6. CASE PeerReset(s)
  <2> DEFINE fd == [old EXCEPT !.reset = TRUE, !.inq = <<>>, !.fin = FALSE, !.room = FALSE]
  <2>1. /\ kernel' = [kernel EXCEPT ![s] = fd] /\ vanished' = vanished /\ Kind[s] = "TCP"
        /\ UNCHANGED <<loopVars, handle, socks, rs, ws, calls>> /\ old.conn = "est"
    BY <1>6 DEF PeerReset, Network, old
  <2>2. <<>> \in Seq({0, 1}) /\ Len(<<>>) = 0 BY EmptySeq
  <2>3. /\ fd \in Descriptors /\ fd.inq = <<>> /\ fd.conn = old.conn /\ fd.reset
    BY <1>1, <2>2 DEF Descriptors
  <2> HIDE DEF fd
  <2>4. Sane(s, fd) BY <2>1, <2>2, <2>3 DEF Sane
  <2>5. \A d \in Dirs : Ready(fd, d) BY <2>3 DEF Ready
  <2>6. External(s, fd) BY <1>1, <2>1, <2>3, <2>4, <2>5 DEF External, old
  <2> QED BY <2>6
<1>7. CASE Answer(s)
  <2> DEFINE fd == [old EXCEPT !.conn = "refused"]
  <2>1. /\ kernel' = [kernel EXCEPT ![s] = AcceptedFd] \/ kernel' = [kernel EXCEPT ![s] = fd]
        /\ vanished' = vanished /\ old.conn = "connecting"
        /\ UNCHANGED <<loopVars, handle, socks, rs, ws, calls>>
    BY <1>7 DEF Answer, Network, old
  <2>2. fd \in Descriptors /\ fd.inq = old.inq /\ fd.reset = old.reset /\ fd.fin = old.fin
    BY <1>1 DEF Descriptors
  <2> HIDE DEF fd
  <2>3. ~old.reset BY <1>1, <2>1 DEF Sane
  <2>4. Sane(s, fd) BY <1>1, <2>2, <2>3 DEF Sane
  <2>5. \A d \in Dirs : ~Ready(old, d) BY <2>1, <2>3 DEF Ready
  <2>6. CASE kernel' = [kernel EXCEPT ![s] = fd]
    <3>1. External(s, fd) BY <1>1, <2>1, <2>2, <2>4, <2>5, <2>6 DEF External, old
    <3> QED BY <3>1
  <2>7. CASE kernel' = [kernel EXCEPT ![s] = AcceptedFd]
    <3>1. AcceptedFd \in Descriptors /\ Sane(s, AcceptedFd) BY FreshDescriptors
    <3>2. External(s, AcceptedFd) BY <1>1, <2>1, <2>5, <2>7, <3>1 DEF External, old
    <3> QED BY <3>2
  <2> QED BY <2>1, <2>6, <2>7
<1>8. CASE Drain(s)
  <2> DEFINE fd == [old EXCEPT !.room = TRUE]
  <2>1. /\ kernel' = [kernel EXCEPT ![s] = fd] /\ vanished' = vanished
        /\ UNCHANGED <<loopVars, handle, socks, rs, ws, calls>>
    BY <1>8 DEF Drain, Network, old
  <2>2. /\ fd \in Descriptors /\ fd.inq = old.inq /\ fd.conn = old.conn
        /\ fd.reset = old.reset /\ fd.fin = old.fin /\ fd.room
    BY <1>1 DEF Descriptors
  <2> HIDE DEF fd
  <2>3. Sane(s, fd) BY <1>1, <2>2 DEF Sane
  <2>4. \A d \in Dirs : Ready(old, d) => Ready(fd, d) BY <2>2 DEF Ready
  <2>5. External(s, fd) BY <1>1, <2>1, <2>2, <2>3, <2>4 DEF External, old
  <2> QED BY <2>5
<1> QED BY <1>3, <1>4, <1>5, <1>6, <1>7, <1>8 DEF NetworkStep
-----------------------------------------------------------------------------
(* Callbacks.                                                              *)

LEMMA Erased ==
  ASSUME LoopInv, QueueInv, Return, UNCHANGED <<runs, dropped>>
  PROVE  /\ waitset' = Tail(waitset) /\ Len(waitset) \in Nat /\ Len(waitset') = Len(waitset) - 1
         /\ \A i \in 1..Len(waitset') : i + 1 \in 2..Len(waitset) /\ waitset'[i] = waitset[i + 1]
         /\ \A i \in 2..Len(waitset) : i - 1 \in 1..Len(waitset') /\ waitset'[i - 1] = waitset[i]
         /\ pc = "callback" /\ pc' = "scan" /\ Lo = 2 /\ Lo' = 1
         /\ 1 \in 1..Len(waitset)
<1>1. /\ pc = "callback" /\ pc' = "scan" /\ it = 1 /\ waitset # <<>>
      /\ waitset' = RemoveAt(waitset, it) /\ waitset \in Seq(CompletedEvents)
  BY DEF Return, LoopInv
<1>2. waitset' = Tail(waitset) BY <1>1, EraseFirst
<1>3. Len(waitset) \in Nat \ {0} BY <1>1, EmptySeq
<1>4. /\ Len(waitset') = Len(waitset) - 1
      /\ \A i \in 1..Len(waitset') : waitset'[i] = waitset[i + 1]
  BY <1>1, <1>2, HeadTailProperties
<1>5. \A i \in 1..Len(waitset') : i + 1 \in 2..Len(waitset) BY <1>3, <1>4
<1>6. \A i \in 2..Len(waitset) : i - 1 \in 1..Len(waitset') /\ (i - 1) + 1 = i BY <1>3, <1>4
<1>7. \A i \in 2..Len(waitset) : waitset'[i - 1] = waitset[i] BY <1>4, <1>6
<1>8. Lo = 2 /\ Lo' = 1 BY <1>1 DEF Lo
<1> QED BY <1>1, <1>2, <1>3, <1>4, <1>5, <1>6, <1>7, <1>8

LEMMA EndCallbackInv ==
  ASSUME CoreInv, EndCallback
  PROVE  CoreInv' /\ \A q \in Ops : Completed(q)' <=> Completed(q)
<1>1. LoopInv /\ QueueInv /\ runs \in [Ops -> 0..2] BY DEF CoreInv, TypesInv
<1>2. /\ UNCHANGED <<handle, kernel, socks, rs, ws, await, told, runs, units, empties,
                     dropped, vanished>> /\ Return
  BY DEF EndCallback, selectVars, calls
<1>3. /\ waitset' = Tail(waitset) /\ Len(waitset) \in Nat /\ Len(waitset') = Len(waitset) - 1
      /\ \A i \in 1..Len(waitset') : i + 1 \in 2..Len(waitset) /\ waitset'[i] = waitset[i + 1]
      /\ \A i \in 2..Len(waitset) : i - 1 \in 1..Len(waitset') /\ waitset'[i - 1] = waitset[i]
      /\ pc = "callback" /\ pc' = "scan" /\ Lo = 2 /\ Lo' = 1
      /\ 1 \in 1..Len(waitset)
  BY <1>1, <1>2, Erased
<1>4. LoopInv' BY <1>1, <1>2, LoopStepInv
<1>5. \A i \in 1..Len(waitset) : i = 1 \/ i \in 2..Len(waitset) BY <1>3
<1>6. \A i \in 2..Len(waitset) : i \in 1..Len(waitset) BY <1>3
<1>7. runs[waitset[1].cb] > 0 BY <1>1, <1>3 DEF QueueInv
<1>8. ASSUME NEW q \in Ops PROVE Completed(q)' <=> Completed(q)
  <2>1. ASSUME Listed(q)' PROVE Listed(q) BY <1>3, <1>6, <2>1 DEF Listed
  <2>2. ASSUME Listed(q), ~(runs[q] > 0) PROVE Listed(q)'
    <3>1. PICK i \in 1..Len(waitset) : waitset[i].cb = q BY <2>2 DEF Listed
    <3>2. i \in 2..Len(waitset) BY <1>5, <1>7, <2>2, <3>1
    <3> QED BY <1>3, <3>1, <3>2 DEF Listed
  <2> QED BY <1>2, <2>1, <2>2 DEF Completed
<1>9. TypesInv' BY <1>2, <1>4 DEF CoreInv, TypesInv
<1>10. AwaitInv'
  <2>1. ASSUME NEW q \in Ops
        PROVE  \/ Issued(q)' /\ Offered(await'[q])
               \/ /\ await'[q] = await[q] /\ told'[q] = told[q]
                  /\ units'[q] = units[q] /\ empties'[q] = empties[q]
                  /\ Completed(q)' => Completed(q)
                  /\ q \in dropped' => q \in dropped \/ Issued(q)
    BY <1>2, <1>8
  <2> QED BY <2>1, AwaitKept DEF CoreInv
<1>11. SlotInv'
  <2>1. ASSUME NEW h \in Keys, NEW d \in Dirs, NEW q \in Ops, Waits(h, d, q)'
        PROVE  Holds(h, d, q)'
    <3>1. Waits(h, d, q) BY <1>2, <2>1 DEF Waits
    <3>2. Holds(h, d, q) BY <3>1 DEF CoreInv, SlotInv
    <3>3. Completed(q)' => Completed(q) BY <1>8
    <3> QED BY <1>2, <3>2, <3>3, HoldsKept
  <2> QED BY <1>2, <2>1 DEF CoreInv, SlotInv
<1>12. TargetInv' BY <1>2 DEF CoreInv, TargetInv, Running, Waits
<1>13. QueueInv'
  <2>1. \A i \in Lo'..Len(waitset') : i \in 1..Len(waitset') BY <1>3
  <2>2. \A i \in 1..Len(waitset') : i + 1 \in Lo..Len(waitset) /\ i + 1 \in 1..Len(waitset)
    BY <1>3, <1>6
  <2>3. \A i \in Lo'..Len(waitset') : runs'[waitset'[i].cb] = 0
    BY <1>1, <1>2, <1>3, <2>1, <2>2 DEF QueueInv
  <2>4. \A i \in 1..Len(waitset') : waitset'[i].cb \notin dropped'
    BY <1>1, <1>2, <1>3, <2>2 DEF QueueInv
  <2>5. ASSUME NEW i \in Lo'..Len(waitset'), NEW j \in Lo'..Len(waitset'),
               waitset'[i].cb = waitset'[j].cb
        PROVE  i = j
    <3>1. /\ i + 1 \in Lo..Len(waitset) /\ waitset'[i] = waitset[i + 1]
          /\ j + 1 \in Lo..Len(waitset) /\ waitset'[j] = waitset[j + 1]
      BY <1>3, <2>1, <2>2
    <3>2. i + 1 = j + 1 BY <1>1, <2>5, <3>1 DEF QueueInv
    <3> QED BY <3>2, <2>1, <1>3
  <2>6. pc' # "callback" /\ dropped' = dropped /\ runs' = runs BY <1>2, <1>3
  <2> QED BY <1>1, <2>3, <2>4, <2>5, <2>6 DEF QueueInv
<1>14. BatchInv'
  <2>1. rs = {} /\ ws = {} BY <1>3 DEF CoreInv, BatchInv
  <2>2. rs' = {} /\ ws' = {} BY <1>2, <2>1
  <2> QED BY <2>2 DEF BatchInv
<1>15. KernelInv' BY <1>2 DEF CoreInv, KernelInv
<1> QED BY <1>8, <1>9, <1>10, <1>11, <1>12, <1>13, <1>14, <1>15 DEF CoreInv

(* The call of the first event; an accept that succeeded replaces the      *)
(* entry of its target.                                                    *)
Calls(op) ==
  /\ pc = "scan" /\ pc' = "callback" /\ 1 \in 1..Len(waitset) /\ waitset[1].cb = op
  /\ op \in Ops /\ Issued(op) /\ runs[op] = 0 /\ op \notin dropped
  /\ runs' = [runs EXCEPT ![op] = More(@)]
  /\ told' = [told EXCEPT ![op] = Tells(waitset[1])]
  /\ UNCHANGED <<waitset, it, canContinue, handle, kernel, rs, ws, await, units, empties,
                 vanished>>

Replaces(k) ==
  /\ k \in Keys
  /\ socks' = [socks EXCEPT ![k] = SockEvent]
  /\ dropped' = dropped \cup Waiting(k)

LEMMA StartCallbackCalls ==
  ASSUME CoreInv, StartCallback
  PROVE  \E op \in Ops :
           /\ Calls(op) /\ LoopInv'
           /\ IF await[op].type = "ACCEPT" /\ waitset[1].error = 0
              THEN await[op].target \in Socks /\ Replaces(Key(await[op].target))
              ELSE UNCHANGED <<socks, dropped>>
<1> DEFINE op == waitset[1].cb
           w == await[op]
<1>1. LoopInv /\ QueueInv /\ AwaitInv /\ await \in [Ops -> Awaits] BY DEF CoreInv, TypesInv
<1>2. Scan /\ it = 1 /\ Due(waitset[it]) /\ pc' = "callback" /\ LoopInv'
  BY <1>1, ScannedIsDue, LoopStepInv DEF StartCallback, LoopInv
<1>3. pc = "scan" /\ 1 <= Len(waitset) /\ UNCHANGED <<waitset, it, canContinue>>
  BY <1>2 DEF Scan
<1>4. Len(waitset) \in Nat /\ 1 \in 1..Len(waitset) BY <1>1, <1>3, ListTyped
<1>5. Lo = 1 BY <1>3 DEF Lo
<1>6. op \in Ops /\ runs[op] = 0 /\ op \notin dropped BY <1>1, <1>4, <1>5, ListTyped DEF QueueInv
<1>7. Listed(op) BY <1>4 DEF Listed
<1>8. Issued(op) BY <1>1, <1>6, <1>7, Traces DEF Completed
<1>9. /\ runs' = [runs EXCEPT ![op] = More(@)]
      /\ told' = [told EXCEPT ![op] = Tells(waitset[1])]
      /\ IF w.type = "ACCEPT" /\ waitset[1].error = 0
         THEN /\ socks' = [socks EXCEPT ![Key(w.target)] = SockEvent]
              /\ dropped' = dropped \cup Waiting(Key(w.target))
         ELSE UNCHANGED <<socks, dropped>>
      /\ UNCHANGED <<handle, kernel, rs, ws, await, units, empties, vanished>>
  BY <1>2 DEF StartCallback
<1>10. Calls(op) BY <1>2, <1>3, <1>4, <1>6, <1>8, <1>9 DEF Calls
<1>11. w.type = "ACCEPT" => w.target \in Socks
  BY <1>1, <1>6, <1>8 DEF AwaitInv, Offered, Awaits
<1>12. w.type = "ACCEPT" => Key(w.target) \in Keys BY <1>11, KeyTyped
<1>13. IF w.type = "ACCEPT" /\ waitset[1].error = 0
       THEN w.target \in Socks /\ Replaces(Key(w.target))
       ELSE UNCHANGED <<socks, dropped>>
  BY <1>9, <1>11, <1>12 DEF Replaces
<1> HIDE DEF op, w
<1> QED BY <1>2, <1>6, <1>10, <1>13 DEF w
(* What is replaced was waiting, and what waits was not replaced. *)
DropsOnly(k) ==
  /\ socks' \in Tables /\ dropped' \subseteq Ops
  /\ \A h \in Keys, d \in Dirs : socks'[h][d].active => h # k /\ socks'[h][d] = socks[h][d]
  /\ \A q \in dropped' : q \in dropped \/ (Issued(q) /\ ~Completed(q))
  /\ \A h \in Keys, d \in Dirs, q \in Ops : Waits(h, d, q)' =>
       Waits(h, d, q) /\ h # k /\ (q \in dropped' => q \in dropped)

LEMMA ReplacesDrops ==
  ASSUME CoreInv, NEW k, Replaces(k) PROVE DropsOnly(k)
<1>1. socks \in Tables /\ dropped \subseteq Ops /\ SlotInv BY DEF CoreInv, TypesInv
<1>2. /\ k \in Keys /\ dropped' = dropped \cup Waiting(k)
      /\ socks' = [socks EXCEPT ![k] = SockEvent]
  BY DEF Replaces
<1>3. NewSlot \in Slots /\ ~NewSlot.active BY DEF NewSlot, Slots
<1>4. /\ SockEvent \in Entries
      /\ \A d \in Dirs : ~SockEvent[d].active
  BY <1>3 DEF SockEvent, Entries, Dirs
<1>5. socks' \in Tables /\ \A h \in Keys : socks'[h] = IF h = k THEN SockEvent ELSE socks[h]
  BY <1>1, <1>2, <1>4 DEF Tables
<1>6. \A q \in Waiting(k) : q \in Ops /\ \E d \in Dirs : Waits(k, d, q)
  BY DEF Waiting, Waits, Dirs
<1>7. \A q \in Waiting(k) : Issued(q) /\ ~Completed(q)
  BY <1>1, <1>2, <1>6 DEF SlotInv, Holds
<1>8. \A h \in Keys, d \in Dirs : socks'[h][d].active => h # k /\ socks'[h][d] = socks[h][d]
  BY <1>4, <1>5
<1>9. ASSUME NEW h \in Keys, NEW d \in Dirs, NEW q \in Ops, Waits(h, d, q)'
      PROVE  Waits(h, d, q) /\ h # k /\ (q \in dropped' => q \in dropped)
  <2>1. Waits(h, d, q) /\ h # k BY <1>8, <1>9 DEF Waits
  <2>2. q \notin Waiting(k) BY <1>1, <1>2, <1>6, <2>1, OneSlot
  <2> QED BY <1>2, <2>1, <2>2
<1>10. dropped' \subseteq Ops BY <1>1, <1>2, <1>6
<1>11. \A q \in dropped' : q \in dropped \/ (Issued(q) /\ ~Completed(q)) BY <1>2, <1>7
<1> QED BY <1>5, <1>8, <1>9, <1>10, <1>11 DEF DropsOnly

(* The same of a step that replaces no entry. *)
NoKey == -1

LEMMA NothingDropped ==
  ASSUME CoreInv, UNCHANGED <<socks, dropped>> PROVE DropsOnly(NoKey)
<1>1. NoKey \notin Keys BY SelectAssumption DEF NoKey, Keys
<1>2. socks \in Tables /\ dropped \subseteq Ops BY DEF CoreInv, TypesInv
<1> QED BY <1>1, <1>2 DEF DropsOnly, Waits

LEMMA CallsQueue ==
  ASSUME CoreInv, NEW op, Calls(op), NEW k, DropsOnly(k)
  PROVE  /\ QueueInv' /\ runs'[op] > 0 /\ runs' \in [Ops -> 0..2] /\ Lo' = 2
         /\ \A q \in Ops : q # op => runs'[q] = runs[q]
         /\ \A q \in Ops : Completed(q)' <=> Completed(q)
<1>1. LoopInv /\ QueueInv /\ runs \in [Ops -> 0..2] BY DEF CoreInv, TypesInv
<1>2. Len(waitset) \in Nat /\ \A i \in 1..Len(waitset) : waitset[i].cb \in Ops BY <1>1, ListTyped
<1>3. /\ waitset' = waitset /\ pc' = "callback" /\ 1 \in 1..Len(waitset) /\ waitset[1].cb = op
      /\ op \in Ops /\ runs' = [runs EXCEPT ![op] = More(@)] /\ Lo = 1 /\ Lo' = 2
  BY DEF Calls, Lo
<1>4. More(runs[op]) \in 1..2 BY <1>1, <1>3 DEF More
<1>5. /\ runs' \in [Ops -> 0..2] /\ runs'[op] > 0
      /\ \A q \in Ops : q # op => runs'[q] = runs[q]
  BY <1>1, <1>3, <1>4
<1>6. Listed(op) /\ \A q \in Ops : Listed(q)' <=> Listed(q) BY <1>3 DEF Listed
<1>7. ASSUME NEW q \in Ops PROVE Completed(q)' <=> Completed(q)
  <2>1. CASE q = op BY <1>6, <2>1 DEF Completed
  <2>2. CASE q # op BY <1>5, <1>6, <2>2 DEF Completed
  <2> QED BY <2>1, <2>2
<1>8. \A i \in 2..Len(waitset) : i \in 1..Len(waitset) /\ i # 1 BY <1>2
<1>9. \A i \in 2..Len(waitset) : waitset[i].cb # op BY <1>1, <1>3, <1>8 DEF QueueInv
<1>10. \A i \in Lo'..Len(waitset') : runs'[waitset'[i].cb] = 0
  BY <1>1, <1>2, <1>3, <1>5, <1>8, <1>9 DEF QueueInv
<1>11. \A i \in 1..Len(waitset') : waitset'[i].cb \notin dropped'
  BY <1>1, <1>2, <1>3 DEF QueueInv, DropsOnly, Completed, Listed
<1>12. \A i, j \in Lo'..Len(waitset') : waitset'[i].cb = waitset'[j].cb => i = j
  BY <1>1, <1>3, <1>8 DEF QueueInv
<1>13. ASSUME NEW q \in dropped' PROVE runs'[q] = 0
  <2>1. q \in Ops BY DEF DropsOnly
  <2>2. runs[q] = 0
    <3>1. q \in dropped \/ ~Completed(q) BY DEF DropsOnly
    <3>2. q \in dropped => runs[q] = 0 BY <1>1 DEF QueueInv
    <3>3. ~Completed(q) => ~(runs[q] > 0) BY DEF Completed
    <3> QED BY <1>1, <2>1, <3>1, <3>2, <3>3
  <2>3. q # op
    <3>1. op \notin dropped /\ Completed(op) BY <1>6 DEF Calls, Completed
    <3> QED BY <3>1 DEF DropsOnly
  <2> QED BY <1>5, <2>1, <2>2, <2>3
<1>14. QueueInv' BY <1>3, <1>5, <1>10, <1>11, <1>12, <1>13 DEF QueueInv
<1> QED BY <1>3, <1>5, <1>7, <1>14

LEMMA CallsInv ==
  ASSUME CoreInv, NEW op, Calls(op), LoopInv', NEW k, DropsOnly(k)
  PROVE  CoreInv' /\ \A q \in Ops : Completed(q)' <=> Completed(q)
<1>1. TypesInv /\ SlotInv /\ TargetInv /\ AwaitInv /\ KernelInv BY DEF CoreInv
<1>2. /\ pc = "scan" /\ pc' = "callback" /\ op \in Ops /\ Issued(op)
      /\ UNCHANGED <<waitset, it, canContinue, handle, kernel, rs, ws, await, units, empties,
                     vanished>>
      /\ told' = [told EXCEPT ![op] = Tells(waitset[1])]
  BY DEF Calls
<1>3. /\ QueueInv' /\ runs'[op] > 0 /\ runs' \in [Ops -> 0..2]
      /\ \A q \in Ops : q # op => runs'[q] = runs[q]
      /\ \A q \in Ops : Completed(q)' <=> Completed(q)
  BY CallsQueue
<1>4. Tells(waitset[1]) \in {"nothing", "ok", "zero", "error", "invalid"} BY DEF Tells
<1>5. /\ told' \in [Ops -> {"nothing", "ok", "zero", "error", "invalid"}]
      /\ \A q \in Ops : q # op => told'[q] = told[q]
  BY <1>1, <1>2, <1>4 DEF TypesInv
<1>6. TypesInv' BY <1>1, <1>2, <1>3, <1>5 DEF TypesInv, DropsOnly
<1>7. AwaitInv'
  <2>1. ASSUME NEW q \in Ops
        PROVE  \/ Issued(q)' /\ Offered(await'[q])
               \/ /\ await'[q] = await[q] /\ told'[q] = told[q]
                  /\ units'[q] = units[q] /\ empties'[q] = empties[q]
                  /\ Completed(q)' => Completed(q)
                  /\ q \in dropped' => q \in dropped \/ Issued(q)
    <3>1. CASE q = op BY <1>1, <1>2, <3>1 DEF AwaitInv, Issued
    <3>2. CASE q # op BY <1>2, <1>3, <1>5, <3>2 DEF DropsOnly
    <3> QED BY <3>1, <3>2
  <2> QED BY <1>1, <2>1, AwaitKept
<1>8. SlotInv'
  <2>1. ASSUME NEW h \in Keys, NEW d \in Dirs, NEW q \in Ops, Waits(h, d, q)'
        PROVE  Holds(h, d, q)'
    <3>1. Waits(h, d, q) /\ (q \in dropped' => q \in dropped) BY <2>1 DEF DropsOnly
    <3>2. Holds(h, d, q) BY <1>1, <3>1 DEF SlotInv
    <3>3. Completed(q)' => Completed(q) BY <1>3
    <3>4. socks'[h][d] = socks[h][d] BY <2>1 DEF DropsOnly, Waits
    <3> QED BY <1>2, <3>1, <3>2, <3>3, <3>4, HoldsKept
  <2>2. ASSUME NEW h \in Keys, NEW d \in Dirs, socks'[h][d].active
        PROVE  socks'[h][d].op \in Ops
    BY <1>1, <2>2 DEF DropsOnly, SlotInv
  <2> QED BY <2>1, <2>2 DEF SlotInv
<1>9. TargetInv'
  <2>1. \A q \in Ops : Running(q)' => Running(q) BY <1>2, <1>3 DEF Running
  <2>2. \A h \in Keys, d \in Dirs, q \in Ops : Waits(h, d, q)' => Waits(h, d, q)
    BY DEF DropsOnly
  <2>3. await' = await BY <1>2
  <2> QED BY <1>1, <2>1, <2>2, <2>3 DEF TargetInv
<1>10. BatchInv'
  <2>1. rs = {} /\ ws = {} BY <1>2 DEF CoreInv, BatchInv
  <2>2. rs' = {} /\ ws' = {} BY <1>2, <2>1
  <2> QED BY <2>2 DEF BatchInv
<1>11. KernelInv' BY <1>1, <1>2 DEF KernelInv
<1> QED BY <1>3, <1>6, <1>7, <1>8, <1>9, <1>10, <1>11 DEF CoreInv

LEMMA StartCallbackInv ==
  ASSUME CoreInv, StartCallback
  PROVE  CoreInv' /\ \A q \in Ops : Completed(q)' <=> Completed(q)
<1>1. PICK op \in Ops :
        /\ Calls(op) /\ LoopInv'
        /\ IF await[op].type = "ACCEPT" /\ waitset[1].error = 0
           THEN await[op].target \in Socks /\ Replaces(Key(await[op].target))
           ELSE UNCHANGED <<socks, dropped>>
  BY StartCallbackCalls
<1>2. \E k : DropsOnly(k) BY <1>1, ReplacesDrops, NothingDropped
<1> QED BY <1>1, <1>2, CallsInv

(* Closing a socket replaces its entry. *)
LEMMA CloseSockInv ==
  ASSUME CoreInv, NEW s \in Socks, CloseSock(s)
  PROVE  CoreInv' /\ \A q \in Ops : Completed(q)' <=> Completed(q)
<1>1. TypesInv /\ SlotInv /\ TargetInv /\ AwaitInv /\ KernelInv /\ QueueInv BY DEF CoreInv
<1> DEFINE k == Key(s)
<1>2. /\ pc \in {"setup", "callback"} /\ handle[s] # "none"
      /\ handle' = [handle EXCEPT ![s] = "none"]
      /\ kernel' = [kernel EXCEPT ![s] = ClosedFd]
      /\ socks' = [socks EXCEPT ![k] = SockEvent] /\ dropped' = dropped \cup Waiting(k)
      /\ UNCHANGED <<waitset, it, canContinue, pc, rs, ws, await, told, runs, units, empties,
                     vanished>>
  BY DEF CloseSock, Usable, loopVars
<1>3. k \in Keys BY KeyTyped
<1>4. Replaces(k) BY <1>2, <1>3 DEF Replaces
<1>5. DropsOnly(k) BY <1>4, ReplacesDrops
<1>6. handle \in Handles BY <1>1 DEF TypesInv
<1>7. handle' \in Handles /\ handle'[s] = "none" /\ \A g \in Socks : g # s => handle'[g] = handle[g]
  BY <1>2, <1>6 DEF Handles
<1>8. ClosedFd \in Descriptors /\ Sane(s, ClosedFd) BY FreshDescriptors
<1>9. kernel' \in [Socks -> Descriptors] /\ \A g \in Socks : Sane(g, kernel'[g])
  BY <1>1, <1>2, <1>8, KernelPut
<1>10. KernelInv' BY <1>1, <1>7, <1>9 DEF KernelInv
<1>11. \A q \in Ops : Completed(q)' <=> Completed(q) BY <1>2 DEF Completed, Listed
<1>12. LoopInv' BY <1>1, <1>2 DEF TypesInv, LoopInv, NothingDueInWait
<1>13. TypesInv' BY <1>1, <1>2, <1>5, <1>7, <1>9, <1>12 DEF TypesInv, DropsOnly
<1>14. AwaitInv'
  <2>1. ASSUME NEW q \in Ops
        PROVE  \/ Issued(q)' /\ Offered(await'[q])
               \/ /\ await'[q] = await[q] /\ told'[q] = told[q]
                  /\ units'[q] = units[q] /\ empties'[q] = empties[q]
                  /\ Completed(q)' => Completed(q)
                  /\ q \in dropped' => q \in dropped \/ Issued(q)
    BY <1>2, <1>5, <1>11 DEF DropsOnly
  <2> QED BY <1>1, <2>1, AwaitKept
<1>15. SlotInv'
  <2>1. ASSUME NEW h \in Keys, NEW d \in Dirs, NEW q \in Ops, Waits(h, d, q)'
        PROVE  Holds(h, d, q)'
    <3>1. Waits(h, d, q) /\ h # k /\ (q \in dropped' => q \in dropped) BY <1>5, <2>1 DEF DropsOnly
    <3>2. Holds(h, d, q) BY <1>1, <3>1 DEF SlotInv
    <3>3. Completed(q)' => Completed(q) BY <1>11
    <3>4. socks'[h][d] = socks[h][d] BY <1>5, <2>1 DEF DropsOnly, Waits
    <3>5. Key(await[q].sock) = h /\ Issued(q) BY <3>2 DEF Holds
    <3>6. await[q].sock \in Socks /\ await[q].sock # s
      BY <1>1, <3>1, <3>5 DEF AwaitInv, Offered
    <3>7. handle'[await[q].sock] = handle[await[q].sock] BY <1>7, <3>6
    <3> QED BY <1>2, <3>1, <3>2, <3>3, <3>4, <3>7, HoldsKept
  <2>2. ASSUME NEW h \in Keys, NEW d \in Dirs, socks'[h][d].active
        PROVE  socks'[h][d].op \in Ops
    BY <1>1, <1>5, <2>2 DEF DropsOnly, SlotInv
  <2> QED BY <2>1, <2>2 DEF SlotInv
<1>16. TargetInv'
  <2>1. \A q \in Ops : Running(q)' => Running(q) BY <1>2 DEF Running
  <2>2. \A h \in Keys, d \in Dirs, q \in Ops : Waits(h, d, q)' => Waits(h, d, q)
    BY <1>5 DEF DropsOnly
  <2>3. await' = await BY <1>2
  <2> QED BY <1>1, <2>1, <2>2, <2>3 DEF TargetInv
<1>17. QueueInv'
  <2>1. waitset' = waitset /\ runs' = runs /\ pc' = pc /\ Lo' = Lo BY <1>2 DEF Lo
  <2>2. \A i \in 1..Len(waitset) : waitset[i].cb \notin dropped'
    BY <1>1, <1>5 DEF QueueInv, DropsOnly, Completed, Listed
  <2>3. ASSUME NEW q \in dropped' PROVE runs[q] = 0
    <3>1. q \in Ops /\ runs \in [Ops -> 0..2] BY <1>1, <1>5 DEF DropsOnly, TypesInv
    <3>2. q \in dropped \/ ~Completed(q) BY <1>5 DEF DropsOnly
    <3>3. q \in dropped => runs[q] = 0 BY <1>1 DEF QueueInv
    <3>4. ~Completed(q) => ~(runs[q] > 0) BY DEF Completed
    <3> QED BY <3>1, <3>2, <3>3, <3>4
  <2> QED BY <1>1, <2>1, <2>2, <2>3 DEF QueueInv
<1>18. BatchInv'
  <2>1. rs = {} /\ ws = {} BY <1>2 DEF CoreInv, BatchInv
  <2>2. rs' = {} /\ ws' = {} BY <1>2, <2>1
  <2> QED BY <2>2 DEF BatchInv
<1> QED BY <1>10, <1>11, <1>13, <1>14, <1>15, <1>16, <1>17, <1>18 DEF CoreInv

-----------------------------------------------------------------------------
LEMMA NextCore ==
  ASSUME CoreInv, [Next]_vars PROVE CoreInv'
<1>1. ASSUME NEW op \in Ops, NEW s \in Socks,
             \/ \E type \in Types, len \in {0, 1} : SubmitTransfer(op, type, s, len)
             \/ SubmitConnect(op, s)
             \/ \E t \in Socks : SubmitAccept(op, s, t)
      PROVE  CoreInv'
  BY <1>1, SubmitInv
<1>2. ASSUME NEW s \in Socks, CloseSock(s) PROVE CoreInv' BY <1>2, CloseSockInv
<1>3. ASSUME NEW s \in Socks, NetworkStep(s) PROVE CoreInv'
  BY <1>3, NetworkExternal, ExternalInv
<1>4. CASE \/ StartRun \/ LoopTest \/ StartWait \/ UserEnd \/ SelectFails \/ Select
           \/ WaitReturns \/ UNCHANGED vars
  BY <1>4, QuietSteps, QuietInv
<1>5. CASE EndCallback BY <1>5, EndCallbackInv
<1>6. CASE StartCallback BY <1>6, StartCallbackInv
<1>7. CASE Dispatch BY <1>7, DispatchInv
<1> QED BY <1>1, <1>2, <1>3, <1>4, <1>5, <1>6, <1>7 DEF Next, LoopStep, NetworkStep

(* What waits in the socket table waits there alone, on the socket and in  *)
(* the direction of its entry, and has neither completed nor been dropped; *)
(* what select() reported is served as reported (winevent.h:81-96,         *)
(* wineventimpl.h:20-36, 204-315).                                         *)
THEOREM AlwaysCore == Spec => []CoreInv
<1>1. CoreInv /\ [Next]_vars => CoreInv' BY NextCore
<1> QED BY <1>1, InitCore, PTL DEF Spec
-----------------------------------------------------------------------------
(* What the calls of a transfer moved is what its event says, and what its *)
(* callback was told; one that has not completed moved nothing.            *)
TransferTypes == {"READ", "WRITE", "RECVFROM", "SENDTO"}

Tallied(type, unit, empty, error, res) ==
  type \in TransferTypes =>
    /\ error # 0 => unit = 0
    /\ (error = 0 /\ res # 0) => unit = 1
    /\ (error = 0 /\ res = 0) => unit = 0 /\ (type = "READ" \/ empty > 0)

Tally(q) ==
  await[q].type \in TransferTypes =>
    /\ ~Completed(q) => units[q] = 0
    /\ told[q] = "ok" => units[q] = 1
    /\ told[q] \in {"zero", "error"} => units[q] = 0
    /\ told[q] = "zero" => await[q].type = "READ" \/ empties[q] > 0
    /\ empties[q] > 0 => Kind[await[q].sock] = "UDP"

ListTallied ==
  \A i \in 1..Len(waitset), q \in Ops :
    waitset[i].cb = q =>
      Tallied(await[q].type, units[q], empties[q], waitset[i].error, waitset[i].res)

TransferInv ==
  /\ \A q \in Ops : runs[q] = 0 => told[q] = "nothing"
  /\ \A q \in Ops : Tally(q)
  /\ ListTallied

SameOf(q) ==
  /\ await'[q] = await[q] /\ told'[q] = told[q] /\ runs'[q] = runs[q]
  /\ units'[q] = units[q] /\ empties'[q] = empties[q]
  /\ Completed(q)' <=> Completed(q)

LEMMA TallySame ==
  ASSUME NEW q \in Ops, SameOf(q)
  PROVE  /\ Tally(q) => Tally(q)'
         /\ (runs[q] = 0 => told[q] = "nothing") => (runs'[q] = 0 => told'[q] = "nothing")
<1>1. Tally(q) => Tally(q)' BY DEF SameOf, Tally
<1>2. (runs[q] = 0 => told[q] = "nothing") => (runs'[q] = 0 => told'[q] = "nothing")
  BY DEF SameOf
<1> QED BY <1>1, <1>2

(* A step that posts nothing. *)
LEMMA TransferKept ==
  ASSUME TransferInv,
         \A q \in Ops : \/ SameOf(q)
                        \/ /\ Tally(q)' /\ (runs'[q] = 0 => told'[q] = "nothing")
                           /\ Listed(q)' => /\ await'[q] = await[q] /\ units'[q] = units[q]
                                            /\ empties'[q] = empties[q],
         \A j \in 1..Len(waitset') : \E i \in 1..Len(waitset) : waitset'[j] = waitset[i]
  PROVE  TransferInv'
<1>1. \A q \in Ops : Tally(q)' BY TallySame DEF TransferInv
<1>2. \A q \in Ops : runs'[q] = 0 => told'[q] = "nothing" BY TallySame DEF TransferInv
<1>3. ASSUME NEW j \in 1..Len(waitset'), NEW q \in Ops, waitset'[j].cb = q
      PROVE  Tallied(await'[q].type, units'[q], empties'[q], waitset'[j].error, waitset'[j].res)
  <2>1. PICK i \in 1..Len(waitset) : waitset'[j] = waitset[i] OBVIOUS
  <2>2. waitset[i].cb = q BY <1>3, <2>1
  <2>3. Tallied(await[q].type, units[q], empties[q], waitset[i].error, waitset[i].res)
    BY <2>2 DEF TransferInv, ListTallied
  <2>4. Listed(q)' BY <1>3 DEF Listed
  <2>5. await'[q].type = await[q].type /\ units'[q] = units[q] /\ empties'[q] = empties[q]
    BY <2>4 DEF SameOf
  <2> QED BY <2>1, <2>3, <2>5
<1> QED BY <1>1, <1>2, <1>3 DEF TransferInv, ListTallied

(* One that posts an event. *)
LEMMA TransferPosted ==
  ASSUME TransferInv, LoopInv, NEW op \in Ops, ~Completed(op),
         \A q \in Ops : q # op => SameOf(q),
         Tally(op)', runs'[op] = 0 => told'[op] = "nothing",
         NEW ev \in Events, ev.cb = op, waitset' = SubmitComplete(waitset, ev),
         Tallied(await'[op].type, units'[op], empties'[op], ev.error, ev.res)
  PROVE  TransferInv'
<1> DEFINE n == Len(waitset) + 1
<1>1. /\ Len(waitset') = n
      /\ \A i \in 1..Len(waitset) : waitset'[i] = waitset[i]
      /\ waitset'[n].cb = op /\ waitset'[n].error = ev.error /\ waitset'[n].res = ev.res
  BY SubmitCompleteElements DEF LoopInv
<1>2. Len(waitset) \in Nat BY ListTyped
<1>3. \A j \in 1..n : j \in 1..Len(waitset) \/ j = n BY <1>2
<1> HIDE DEF n
<1>4. \A q \in Ops : Tally(q)' BY TallySame DEF TransferInv
<1>5. \A q \in Ops : runs'[q] = 0 => told'[q] = "nothing" BY TallySame DEF TransferInv
<1>6. ASSUME NEW j \in 1..Len(waitset'), NEW q \in Ops, waitset'[j].cb = q
      PROVE  Tallied(await'[q].type, units'[q], empties'[q], waitset'[j].error, waitset'[j].res)
  <2>1. CASE j \in 1..Len(waitset)
    <3>1. waitset'[j] = waitset[j] /\ waitset[j].cb = q BY <1>1, <1>6, <2>1
    <3>2. q # op BY <2>1, <3>1 DEF Completed, Listed
    <3>3. Tallied(await[q].type, units[q], empties[q], waitset[j].error, waitset[j].res)
      BY <2>1, <3>1 DEF TransferInv, ListTallied
    <3>4. await'[q].type = await[q].type /\ units'[q] = units[q] /\ empties'[q] = empties[q]
      BY <3>2 DEF SameOf
    <3> QED BY <3>1, <3>3, <3>4
  <2>2. CASE j = n
    <3>1. q = op BY <1>1, <1>6, <2>2
    <3> QED BY <1>1, <2>2, <3>1
  <2> QED BY <1>1, <1>3, <1>6, <2>1, <2>2
<1> QED BY <1>4, <1>5, <1>6 DEF TransferInv, ListTallied
LEMMA BeginsOthers ==
  ASSUME CoreInv, NEW op \in Ops, NEW w, Begins(op, w)
  PROVE  /\ \A q \in Ops : q # op => SameOf(q)
         /\ await'[op] = w /\ told'[op] = "nothing" /\ units[op] = 0 /\ empties[op] = 0
<1>1. await \in [Ops -> Awaits] /\ AwaitInv BY DEF CoreInv, TypesInv
<1>2. /\ ~Issued(op) /\ \A q \in Ops : q # op => (Completed(q)' <=> Completed(q))
  BY BeginsList
<1>3. await' = [await EXCEPT ![op] = w] /\ told' = told /\ runs' = runs
      /\ \A q \in Ops : q # op => units'[q] = units[q] /\ empties'[q] = empties[q]
  BY DEF Begins
<1>4. await'[op] = w /\ \A q \in Ops : q # op => await'[q] = await[q] BY <1>1, <1>3
<1>5. told[op] = "nothing" /\ units[op] = 0 /\ empties[op] = 0
  BY <1>1, <1>2 DEF AwaitInv, Untouched
<1> QED BY <1>2, <1>3, <1>4, <1>5 DEF SameOf

LEMMA BeginsTransfer ==
  ASSUME CoreInv, TransferInv, NEW op \in Ops, NEW w, Begins(op, w),
         w.type \in TransferTypes =>
           /\ \/ TransferWaits(op)
              \/ \E ev \in Events : Reports(op, ev) /\ (ev.error # 0 \/ ev.res # 0)
           /\ empties'[op] > 0 => Kind[w.sock] = "UDP"
  PROVE  TransferInv'
<1>1. /\ \A q \in Ops : q # op => SameOf(q)
      /\ await'[op] = w /\ told'[op] = "nothing" /\ units[op] = 0
  BY BeginsOthers
<1>2. LoopInv /\ ~Completed(op) /\ (waitset' = waitset => ~Completed(op)')
  BY BeginsList DEF CoreInv, TypesInv
<1>3. CASE waitset' = waitset /\ (w.type \in TransferTypes => units'[op] = 0)
  <2>1. ~Listed(op)' BY <1>2, <1>3 DEF Completed
  <2>2. Tally(op)'
    <3>1. w.type \in TransferTypes => units'[op] = 0 /\ (empties'[op] > 0 => Kind[w.sock] = "UDP")
      BY <1>3
    <3> QED BY <1>1, <3>1 DEF Tally
  <2>3. ASSUME NEW q \in Ops
        PROVE  \/ SameOf(q)
               \/ /\ Tally(q)' /\ (runs'[q] = 0 => told'[q] = "nothing")
                  /\ Listed(q)' => /\ await'[q] = await[q] /\ units'[q] = units[q]
                                   /\ empties'[q] = empties[q]
    <3>1. CASE q = op BY <1>1, <2>1, <2>2, <3>1
    <3>2. CASE q # op BY <1>1, <3>2
    <3> QED BY <3>1, <3>2
  <2>4. \A j \in 1..Len(waitset') : \E i \in 1..Len(waitset) : waitset'[j] = waitset[i] BY <1>3
  <2> QED BY <2>3, <2>4, TransferKept
<1>4. ASSUME NEW ev \in Events, w.type \in TransferTypes, Reports(op, ev),
             ev.error # 0 \/ ev.res # 0
      PROVE  TransferInv'
  <2>1. ev.cb = op /\ waitset' = SubmitComplete(waitset, ev) BY <1>4 DEF Reports
  <2>2. units'[op] = IF ev.error # 0 THEN 0 ELSE 1 BY <1>1, <1>4 DEF Reports, More
  <2>3. Completed(op)' BY <1>2, <2>1, ListedAppended DEF Completed
  <2>4. Tally(op)' BY <1>1, <1>4, <2>3 DEF Tally
  <2>5. Tallied(await'[op].type, units'[op], empties'[op], ev.error, ev.res)
    BY <1>4, <2>2 DEF Tallied
  <2> QED BY <1>1, <1>2, <2>1, <2>4, <2>5, TransferPosted
<1>5. ASSUME NEW ev \in Events, ev.cb = op, waitset' = SubmitComplete(waitset, ev),
             w.type \notin TransferTypes
      PROVE  TransferInv'
  <2>1. Tally(op)' BY <1>1, <1>5 DEF Tally
  <2>2. Tallied(await'[op].type, units'[op], empties'[op], ev.error, ev.res)
    BY <1>1, <1>5 DEF Tallied
  <2> QED BY <1>1, <1>2, <1>5, <2>1, <2>2, TransferPosted
<1>6. CASE w.type \in TransferTypes BY <1>3, <1>4, <1>6 DEF TransferWaits
<1>7. CASE w.type \notin TransferTypes
  <2>1. waitset' = waitset \/ Posts(op) BY DEF Begins
  <2> QED BY <1>3, <1>5, <1>7, <2>1 DEF Posts
<1> QED BY <1>6, <1>7

LEMMA SubmitTransferInv ==
  ASSUME CoreInv, TransferInv, NEW op \in Ops, NEW s \in Socks,
         \/ \E type \in Types, len \in {0, 1} : SubmitTransfer(op, type, s, len)
         \/ SubmitConnect(op, s)
         \/ \E t \in Socks : SubmitAccept(op, s, t)
  PROVE  TransferInv'
<1>1. ASSUME NEW type \in Types, NEW len \in {0, 1}, SubmitTransfer(op, type, s, len)
      PROVE  TransferInv'
  <2> DEFINE w == Wait(type, s, NoSock, len)
  <2>1. w.type = type /\ w.sock = s BY DEF Wait
  <2> HIDE DEF w
  <2>2. CASE ~socks[Key(s)][Dir(type)].processing
    <3>1. Begins(op, w) /\ TransferWaits(op) /\ empties' = empties
      BY <1>1, <2>2, SubmitTransferWaits DEF w
    <3>2. empties[op] = 0 BY <3>1, BeginsOthers
    <3> QED BY <3>1, <3>2, BeginsTransfer
  <2>3. CASE socks[Key(s)][Dir(type)].processing
    <3>1. /\ Begins(op, w)
          /\ TransferWaits(op) \/ \E ev \in Events : Reports(op, ev) /\ (ev.error # 0 \/ ev.res # 0)
          /\ empties'[op] > 0 => Kind[s] = "UDP"
      BY <1>1, <2>3, SubmitTransferTries DEF w
    <3> QED BY <2>1, <3>1, BeginsTransfer
  <2> QED BY <2>2, <2>3
<1>2. CASE SubmitConnect(op, s)
  <2> DEFINE w == Wait("CONNECT", s, NoSock, 1)
  <2>1. w.type = "CONNECT" BY DEF Wait
  <2> HIDE DEF w
  <2>2. Begins(op, w) BY <1>2, SubmitConnectBegins DEF w
  <2> QED BY <2>1, <2>2, BeginsTransfer DEF TransferTypes
<1>3. ASSUME NEW t \in Socks, SubmitAccept(op, s, t) PROVE TransferInv'
  <2> DEFINE w == Wait("ACCEPT", s, t, 1)
  <2>1. w.type = "ACCEPT" BY DEF Wait
  <2> HIDE DEF w
  <2>2. Begins(op, w) BY <1>3, SubmitAcceptBegins DEF w
  <2> QED BY <2>1, <2>2, BeginsTransfer DEF TransferTypes
<1> QED BY <1>1, <1>2, <1>3
LEMMA EndsOthers ==
  ASSUME CoreInv, NEW h \in Keys, NEW d \in Dirs, NEW op \in Ops, Ends(h, d, op),
         \A q \in Ops : Completed(q)' <=> (Completed(q) \/ q = op)
  PROVE  /\ \A q \in Ops : q # op => SameOf(q)
         /\ ~Completed(op) /\ runs[op] = 0 /\ Completed(op)'
         /\ await' = await /\ told' = told /\ runs' = runs
<1>1. SlotInv /\ runs \in [Ops -> 0..2] BY DEF CoreInv, TypesInv
<1>2. ~Completed(op) BY <1>1 DEF Ends, SlotInv, Holds
<1>3. runs[op] = 0 BY <1>1, <1>2 DEF Completed
<1> QED BY <1>2, <1>3 DEF SameOf, Ends

LEMMA DispatchTransferInv ==
  ASSUME CoreInv, TransferInv, Dispatch PROVE TransferInv'
<1>1. LoopInv /\ AwaitInv BY DEF CoreInv, TypesInv
<1>2. ASSUME NEW h \in Socks, NEW d \in Dirs, DispatchTransfer(h, d) PROVE TransferInv'
  <2>1. PICK op \in Ops :
          /\ Ends(h, d, op) /\ StartedTyped /\ BatchInv'
          /\ rs' \subseteq Socks /\ ws' \subseteq Socks
          /\ Kind[h] # "LISTEN" /\ await[op].sock = h
          /\ empties'[op] > 0 => empties[op] > 0 \/ Kind[h] = "UDP"
          /\ \E ev \in Events :
               /\ Reports(op, ev)
               /\ (ev.error = 0 /\ ev.res = 0) => await[op].type = "READ" \/ empties'[op] > 0
    BY <1>2, DispatchTransferEnds
  <2>2. PICK ev \in Events :
          /\ Reports(op, ev)
          /\ (ev.error = 0 /\ ev.res = 0) => await[op].type = "READ" \/ empties'[op] > 0
    BY <2>1
  <2>3. h \in Keys BY Constants
  <2>4. \A q \in Ops : Completed(q)' <=> (Completed(q) \/ q = op)
    BY <2>1, <2>3, EndsInv DEF StartedTyped
  <2>5. /\ \A q \in Ops : q # op => SameOf(q)
        /\ ~Completed(op) /\ runs[op] = 0 /\ Completed(op)'
        /\ await' = await /\ told' = told /\ runs' = runs
    BY <2>1, <2>3, <2>4, EndsOthers
  <2>6. Tally(op) /\ told[op] = "nothing" BY <2>5 DEF TransferInv
  <2>7. ev.cb = op /\ waitset' = SubmitComplete(waitset, ev) BY <2>2 DEF Reports
  <2>8. await[op].type \in TransferTypes =>
          /\ units[op] = 0 /\ (empties'[op] > 0 => Kind[h] = "UDP")
          /\ ev.error # 0 => units'[op] = 0
          /\ (ev.error = 0 /\ ev.res # 0) => units'[op] = 1
          /\ (ev.error = 0 /\ ev.res = 0) => units'[op] = 0
    BY <2>1, <2>2, <2>5, <2>6 DEF Tally, Reports, More
  <2>9. Tally(op)' BY <2>1, <2>5, <2>6, <2>8 DEF Tally
  <2>10. Tallied(await'[op].type, units'[op], empties'[op], ev.error, ev.res)
    BY <2>2, <2>5, <2>8 DEF Tallied
  <2>11. runs'[op] = 0 => told'[op] = "nothing" BY <2>5, <2>6
  <2> QED BY <1>1, <2>5, <2>7, <2>9, <2>10, <2>11, TransferPosted
<1>3. ASSUME NEW h \in Keys, NEW d \in Dirs, NEW op \in Ops, Ends(h, d, op),
             \A q \in Ops : Completed(q)' <=> (Completed(q) \/ q = op),
             await[op].type \notin TransferTypes
      PROVE  TransferInv'
  <2>1. /\ \A q \in Ops : q # op => SameOf(q)
        /\ ~Completed(op) /\ runs[op] = 0
        /\ await' = await /\ told' = told /\ runs' = runs
    BY <1>3, EndsOthers
  <2>2. PICK ev \in Events : ev.cb = op /\ waitset' = SubmitComplete(waitset, ev)
    BY <1>3 DEF Ends, Posts
  <2>3. Tally(op)' BY <1>3, <2>1 DEF Tally
  <2>4. Tallied(await'[op].type, units'[op], empties'[op], ev.error, ev.res)
    BY <1>3, <2>1 DEF Tallied
  <2>5. runs'[op] = 0 => told'[op] = "nothing" BY <2>1 DEF TransferInv
  <2> QED BY <1>1, <2>1, <2>2, <2>3, <2>4, <2>5, TransferPosted
<1>4. ASSUME NEW h \in Socks, DispatchAccept(h) PROVE TransferInv'
  <2>1. PICK op \in Ops :
          /\ Ends(h, "in", op) /\ StartedTyped /\ BatchInv'
          /\ rs' \subseteq Socks /\ ws' \subseteq Socks /\ await[op].type = "ACCEPT"
    BY <1>4, DispatchAcceptEnds
  <2>2. h \in Keys /\ "in" \in Dirs BY Constants DEF Dirs
  <2>3. \A q \in Ops : Completed(q)' <=> (Completed(q) \/ q = op)
    BY <2>1, <2>2, EndsInv DEF StartedTyped
  <2>4. await[op].type \notin TransferTypes BY <2>1 DEF TransferTypes
  <2> QED BY <1>3, <2>1, <2>2, <2>3, <2>4
<1>5. ASSUME NEW h \in Socks, DispatchConnect(h) PROVE TransferInv'
  <2>1. PICK op \in Ops :
          /\ Ends(h, "out", op) /\ StartedTyped /\ BatchInv'
          /\ rs' \subseteq Socks /\ ws' \subseteq Socks /\ await[op].type = "CONNECT"
    BY <1>5, DispatchConnectEnds
  <2>2. h \in Keys /\ "out" \in Dirs BY Constants DEF Dirs
  <2>3. \A q \in Ops : Completed(q)' <=> (Completed(q) \/ q = op)
    BY <2>1, <2>2, EndsInv DEF StartedTyped
  <2>4. await[op].type \notin TransferTypes BY <2>1 DEF TransferTypes
  <2> QED BY <1>3, <2>1, <2>2, <2>3, <2>4
<1> QED BY <1>2, <1>4, <1>5 DEF Dispatch, Dirs

LEMMA CallsTransferInv ==
  ASSUME CoreInv, TransferInv, NEW op \in Ops, Calls(op),
         \A q \in Ops : Completed(q)' <=> Completed(q), runs'[op] > 0,
         \A q \in Ops : q # op => runs'[q] = runs[q]
  PROVE  TransferInv'
<1>1. /\ UNCHANGED <<waitset, handle, await, units, empties>>
      /\ told' = [told EXCEPT ![op] = Tells(waitset[1])]
      /\ 1 \in 1..Len(waitset) /\ waitset[1].cb = op
  BY DEF Calls
<1>2. told \in [Ops -> {"nothing", "ok", "zero", "error", "invalid"}] BY DEF CoreInv, TypesInv
<1>3. told'[op] = Tells(waitset[1]) /\ \A q \in Ops : q # op => told'[q] = told[q]
  BY <1>1, <1>2
<1>4. Tallied(await[op].type, units[op], empties[op], waitset[1].error, waitset[1].res)
  BY <1>1 DEF TransferInv, ListTallied
<1>5. ASSUME await[op].type \in TransferTypes
      PROVE  Tells(waitset[1]) = IF waitset[1].error # 0 THEN "error"
                                 ELSE IF waitset[1].res = 0 THEN "zero" ELSE "ok"
  BY <1>1, <1>5 DEF Tells, TransferTypes
<1>6. Tally(op)'
  <2>1. Tally(op) BY DEF TransferInv
  <2>2. ASSUME await[op].type \in TransferTypes
        PROVE  /\ told'[op] = "ok" => units[op] = 1
               /\ told'[op] \in {"zero", "error"} => units[op] = 0
               /\ told'[op] = "zero" => await[op].type = "READ" \/ empties[op] > 0
    BY <1>3, <1>4, <1>5, <2>2 DEF Tallied
  <2> QED BY <1>1, <2>1, <2>2 DEF Tally
<1>7. ASSUME NEW q \in Ops
      PROVE  \/ SameOf(q)
             \/ /\ Tally(q)' /\ (runs'[q] = 0 => told'[q] = "nothing")
                /\ Listed(q)' => /\ await'[q] = await[q] /\ units'[q] = units[q]
                                 /\ empties'[q] = empties[q]
  <2>1. CASE q = op BY <1>1, <1>6, <2>1
  <2>2. CASE q # op BY <1>1, <1>3, <2>2 DEF SameOf
  <2> QED BY <2>1, <2>2
<1>8. \A j \in 1..Len(waitset') : \E i \in 1..Len(waitset) : waitset'[j] = waitset[i] BY <1>1
<1> QED BY <1>7, <1>8, TransferKept

(* The other steps tell nobody. *)
LEMMA OtherTransferInv ==
  ASSUME TransferInv, UNCHANGED <<await, told, runs, units, empties>>,
         \A q \in Ops : Completed(q)' <=> Completed(q),
         \A j \in 1..Len(waitset') : \E i \in 1..Len(waitset) : waitset'[j] = waitset[i]
  PROVE  TransferInv'
<1>1. \A q \in Ops : SameOf(q) BY DEF SameOf
<1> QED BY <1>1, TransferKept

LEMMA NextTransfer ==
  ASSUME CoreInv, TransferInv, [Next]_vars PROVE TransferInv'
<1>1. ASSUME NEW op \in Ops, NEW s \in Socks,
             \/ \E type \in Types, len \in {0, 1} : SubmitTransfer(op, type, s, len)
             \/ SubmitConnect(op, s)
             \/ \E t \in Socks : SubmitAccept(op, s, t)
      PROVE  TransferInv'
  BY <1>1, SubmitTransferInv
<1>2. ASSUME UNCHANGED <<waitset, await, told, runs, units, empties>>,
             \A q \in Ops : Completed(q)' <=> Completed(q)
      PROVE  TransferInv'
  <2>1. \A j \in 1..Len(waitset') : \E i \in 1..Len(waitset) : waitset'[j] = waitset[i] BY <1>2
  <2> QED BY <1>2, <2>1, OtherTransferInv
<1>3. ASSUME NEW s \in Socks, CloseSock(s) PROVE TransferInv'
  BY <1>2, <1>3, CloseSockInv DEF CloseSock, loopVars
<1>4. ASSUME NEW s \in Socks, NetworkStep(s) PROVE TransferInv'
  <2>1. PICK fd : External(s, fd) BY <1>4, NetworkExternal
  <2>2. \A q \in Ops : Completed(q)' <=> Completed(q) BY <2>1, ExternalInv
  <2> QED BY <1>2, <2>1, <2>2 DEF External, loopVars, calls
<1>5. CASE \/ StartRun \/ LoopTest \/ StartWait \/ UserEnd \/ SelectFails \/ Select
           \/ WaitReturns \/ UNCHANGED vars
  <2>1. Quiet /\ LoopInv' /\ BatchInv' BY <1>5, QuietSteps
  <2>2. \A q \in Ops : Completed(q)' <=> Completed(q) BY <2>1, QuietInv
  <2> QED BY <1>2, <2>1, <2>2 DEF Quiet
<1>6. CASE EndCallback
  <2>1. \A q \in Ops : Completed(q)' <=> Completed(q) BY <1>6, EndCallbackInv
  <2>2. UNCHANGED <<await, told, runs, units, empties, dropped>> /\ Return
    BY <1>6 DEF EndCallback, selectVars, calls
  <2>3. LoopInv /\ QueueInv BY DEF CoreInv, TypesInv
  <2>4. /\ Len(waitset) \in Nat
        /\ \A i \in 1..Len(waitset') : i + 1 \in 2..Len(waitset) /\ waitset'[i] = waitset[i + 1]
    BY <2>2, <2>3, Erased
  <2>5. \A i \in 2..Len(waitset) : i \in 1..Len(waitset) BY <2>4
  <2>6. \A j \in 1..Len(waitset') : \E i \in 1..Len(waitset) : waitset'[j] = waitset[i]
    BY <2>4, <2>5
  <2> QED BY <2>1, <2>2, <2>6, OtherTransferInv
<1>7. CASE StartCallback
  <2>1. PICK op \in Ops :
          /\ Calls(op) /\ LoopInv'
          /\ IF await[op].type = "ACCEPT" /\ waitset[1].error = 0
             THEN await[op].target \in Socks /\ Replaces(Key(await[op].target))
             ELSE UNCHANGED <<socks, dropped>>
    BY <1>7, StartCallbackCalls
  <2>2. \E k : DropsOnly(k) BY <2>1, ReplacesDrops, NothingDropped
  <2>3. /\ runs'[op] > 0
        /\ \A q \in Ops : q # op => runs'[q] = runs[q]
        /\ \A q \in Ops : Completed(q)' <=> Completed(q)
    BY <2>1, <2>2, CallsQueue
  <2> QED BY <2>1, <2>3, CallsTransferInv
<1>8. CASE Dispatch BY <1>8, DispatchTransferInv
<1> QED BY <1>1, <1>3, <1>4, <1>5, <1>6, <1>7, <1>8 DEF Next, LoopStep, NetworkStep

LEMMA InitTransfer == Init => TransferInv
<1> SUFFICES ASSUME Init PROVE TransferInv OBVIOUS
<1>1. waitset = <<>> /\ Len(waitset) = 0 BY EmptySeq DEF Init, LoopInit
<1>2. /\ await = [op \in Ops |-> Unissued] /\ told = [op \in Ops |-> "nothing"]
  BY DEF Init
<1>3. \A q \in Ops : await[q].type \notin TransferTypes BY <1>2 DEF Unissued, TransferTypes
<1> QED BY <1>1, <1>2, <1>3 DEF TransferInv, Tally, ListTallied

(* Nothing but empty datagrams goes astray: what a transfer moved is what  *)
(* its callback was told, and a transfer that waits has moved nothing      *)
(* (wineventimpl.h:30, 62, 148, 182).                                      *)
THEOREM MovedIsTold == Spec => []OnlyEmptyDatagramsGoAstray
<1>1. CoreInv /\ TransferInv /\ [Next]_vars => TransferInv' BY NextTransfer
<1>2. CoreInv /\ TransferInv => OnlyEmptyDatagramsGoAstray
  <2> SUFFICES ASSUME CoreInv, TransferInv, NEW op \in Ops,
                      await[op].type \in {"READ", "WRITE", "RECVFROM", "SENDTO"}
               PROVE  /\ told[op] = "ok" => units[op] = 1
                      /\ told[op] \in {"zero", "error"} => units[op] = 0
                      /\ told[op] = "zero" => (await[op].type = "READ" \/ empties[op] > 0)
                      /\ \A h \in Keys : op \in Waiting(h) => units[op] = 0
                      /\ empties[op] > 0 => Kind[await[op].sock] = "UDP"
    BY DEF OnlyEmptyDatagramsGoAstray
  <2>1. Tally(op) BY DEF TransferInv
  <2>2. ASSUME NEW h \in Keys, op \in Waiting(h) PROVE units[op] = 0
    <3>1. \E d \in Dirs : Waits(h, d, op) BY <2>2 DEF Waiting, Waits, Dirs
    <3>2. ~Completed(op) BY <3>1 DEF CoreInv, SlotInv, Holds
    <3> QED BY <2>1, <3>2 DEF Tally, TransferTypes
  <2> QED BY <2>1, <2>2 DEF Tally, TransferTypes
<1> QED BY <1>1, <1>2, AlwaysCore, InitTransfer, PTL DEF Spec
-----------------------------------------------------------------------------
(* What a step completes.                                                  *)

LEMMA DispatchEnds ==
  ASSUME CoreInv, Dispatch
  PROVE  \E h \in Socks, d \in Dirs, op \in Ops :
           /\ Ends(h, d, op) /\ Reported(h, d) /\ h \in Keys
           /\ \A q \in Ops : Completed(q)' <=> (Completed(q) \/ q = op)
<1>1. ASSUME NEW h \in Socks, NEW d \in Dirs, NEW op \in Ops, Ends(h, d, op), StartedTyped,
             BatchInv', rs' \subseteq Socks, ws' \subseteq Socks, Dispatching(h, d)
      PROVE  /\ Ends(h, d, op) /\ Reported(h, d) /\ h \in Keys
             /\ \A q \in Ops : Completed(q)' <=> (Completed(q) \/ q = op)
  <2>1. h \in Keys BY Constants
  <2>2. Reported(h, d) BY <1>1, Waiter
  <2> QED BY <1>1, <2>1, <2>2, EndsInv DEF StartedTyped
<1>2. ASSUME NEW h \in Socks, NEW d \in Dirs, DispatchTransfer(h, d)
      PROVE  \E op \in Ops :
               /\ Ends(h, d, op) /\ Reported(h, d) /\ h \in Keys
               /\ \A q \in Ops : Completed(q)' <=> (Completed(q) \/ q = op)
  <2>1. \E op \in Ops : /\ Ends(h, d, op) /\ StartedTyped /\ BatchInv'
                        /\ rs' \subseteq Socks /\ ws' \subseteq Socks
    BY <1>2, DispatchTransferEnds
  <2>2. Dispatching(h, d) /\ d \in Dirs BY <1>2 DEF DispatchTransfer, Dirs
  <2> QED BY <1>1, <2>1, <2>2
<1>3. ASSUME NEW h \in Socks, DispatchAccept(h)
      PROVE  \E op \in Ops :
               /\ Ends(h, "in", op) /\ Reported(h, "in") /\ h \in Keys
               /\ \A q \in Ops : Completed(q)' <=> (Completed(q) \/ q = op)
  <2>1. \E op \in Ops : /\ Ends(h, "in", op) /\ StartedTyped /\ BatchInv'
                        /\ rs' \subseteq Socks /\ ws' \subseteq Socks
    BY <1>3, DispatchAcceptEnds
  <2>2. Dispatching(h, "in") /\ "in" \in Dirs BY <1>3 DEF DispatchAccept, Dirs
  <2> QED BY <1>1, <2>1, <2>2
<1>4. ASSUME NEW h \in Socks, DispatchConnect(h)
      PROVE  \E op \in Ops :
               /\ Ends(h, "out", op) /\ Reported(h, "out") /\ h \in Keys
               /\ \A q \in Ops : Completed(q)' <=> (Completed(q) \/ q = op)
  <2>1. \E op \in Ops : /\ Ends(h, "out", op) /\ StartedTyped /\ BatchInv'
                        /\ rs' \subseteq Socks /\ ws' \subseteq Socks
    BY <1>4, DispatchConnectEnds
  <2>2. Dispatching(h, "out") /\ "out" \in Dirs BY <1>4 DEF DispatchConnect, Dirs
  <2> QED BY <1>1, <2>1, <2>2
<1> QED BY <1>2, <1>3, <1>4 DEF Dispatch, Dirs

LEMMA SubmitBegins ==
  ASSUME CoreInv, NEW op \in Ops, NEW s \in Socks,
         \/ \E type \in Types, len \in {0, 1} : SubmitTransfer(op, type, s, len)
         \/ SubmitConnect(op, s)
         \/ \E t \in Socks : SubmitAccept(op, s, t)
  PROVE  \E w : Begins(op, w)
<1>1. ASSUME NEW type \in Types, NEW len \in {0, 1}, SubmitTransfer(op, type, s, len)
      PROVE  Begins(op, Wait(type, s, NoSock, len))
  BY <1>1, SubmitTransferWaits, SubmitTransferTries
<1>2. CASE SubmitConnect(op, s) BY <1>2, SubmitConnectBegins
<1>3. ASSUME NEW t \in Socks, SubmitAccept(op, s, t)
      PROVE  Begins(op, Wait("ACCEPT", s, t, 1))
  BY <1>3, SubmitAcceptBegins
<1> QED BY <1>1, <1>2, <1>3

(* Steps that start nothing and serve nothing. *)
LEMMA OthersComplete ==
  ASSUME CoreInv,
         \/ \E s \in Socks : CloseSock(s) \/ NetworkStep(s)
         \/ StartRun \/ EndCallback \/ UserEnd \/ LoopTest \/ StartCallback \/ StartWait
         \/ SelectFails \/ Select \/ WaitReturns \/ UNCHANGED vars
  PROVE  \A q \in Ops : Completed(q)' <=> Completed(q)
<1>1. ASSUME NEW s \in Socks, CloseSock(s)
      PROVE  \A q \in Ops : Completed(q)' <=> Completed(q)
  BY <1>1, CloseSockInv
<1>2. ASSUME NEW s \in Socks, NetworkStep(s)
      PROVE  \A q \in Ops : Completed(q)' <=> Completed(q)
  BY <1>2, NetworkExternal, ExternalInv
<1>3. CASE \/ StartRun \/ LoopTest \/ StartWait \/ UserEnd \/ SelectFails \/ Select
           \/ WaitReturns \/ UNCHANGED vars
  BY <1>3, QuietSteps, QuietInv
<1>4. CASE EndCallback BY <1>4, EndCallbackInv
<1>5. CASE StartCallback BY <1>5, StartCallbackInv
<1> QED BY <1>1, <1>2, <1>3, <1>4, <1>5

(* No step completes a connect that waits and was refused.                 *)
LEMMA SilentStep ==
  ASSUME CoreInv, [Next]_vars, NEW q \in Ops, NEW s \in Socks, q \in Waiting(s),
         await[q].type = "CONNECT", kernel[s].conn = "refused"
  PROVE  \A i \in 1..Len(waitset') : waitset'[i].cb # q
<1>1. PICK c \in Dirs : Waits(s, c, q) BY DEF Waiting, Waits, Dirs
<1>2. s \in Keys BY Constants
<1>3. Issued(q) /\ ~Completed(q) BY <1>1, <1>2 DEF CoreInv, SlotInv, Holds
<1>4. SUFFICES ~Completed(q)' BY DEF Completed, Listed
<1>5. ASSUME NEW op \in Ops, NEW w, Begins(op, w) PROVE ~Completed(q)'
  <2>1. ~Issued(op) /\ \A p \in Ops : p # op => (Completed(p)' <=> Completed(p))
    BY <1>5, BeginsList
  <2> QED BY <1>3, <2>1
<1>6. CASE Dispatch
  <2>1. PICK h \in Socks, d \in Dirs, op \in Ops :
          /\ Ends(h, d, op) /\ Reported(h, d) /\ h \in Keys
          /\ \A p \in Ops : Completed(p)' <=> (Completed(p) \/ p = op)
    BY <1>6, DispatchEnds
  <2>2. kernel[h].conn = "est" BY <2>1 DEF Reported
  <2>3. Waits(h, d, op) BY <2>1 DEF Ends
  <2>4. q = op => h = s BY <1>1, <1>2, <2>1, <2>3, OneSlot DEF CoreInv
  <2>5. q # op BY <2>2, <2>4
  <2> QED BY <1>3, <2>1, <2>5
<1>7. CASE \/ \E g \in Socks : CloseSock(g) \/ NetworkStep(g)
           \/ StartRun \/ EndCallback \/ UserEnd \/ LoopTest \/ StartCallback \/ StartWait
           \/ SelectFails \/ Select \/ WaitReturns \/ UNCHANGED vars
  BY <1>3, <1>7, OthersComplete
<1>8. ASSUME NEW op \in Ops, NEW g \in Socks,
             \/ \E type \in Types, len \in {0, 1} : SubmitTransfer(op, type, g, len)
             \/ SubmitConnect(op, g)
             \/ \E t \in Socks : SubmitAccept(op, g, t)
      PROVE  ~Completed(q)'
  BY <1>5, <1>8, SubmitBegins
<1> QED BY <1>6, <1>7, <1>8 DEF Next, LoopStep, NetworkStep

(* A connect that was refused is never completed: select() reports it in   *)
(* the exception set, which Wait does not ask for (wineventimpl.h:206).    *)
THEOREM RefusedIsSilent == Spec => RefusedConnectIsSilent
<1> DEFINE Silent ==
      \A op \in Ops, s \in Socks :
        (op \in Waiting(s) /\ await[op].type = "CONNECT" /\ kernel[s].conn = "refused")
          => \A i \in 1..Len(waitset') : waitset'[i].cb # op
<1>1. CoreInv /\ [Next]_vars => [Silent]_vars BY SilentStep
<1> QED BY <1>1, AlwaysCore, PTL DEF Spec, RefusedConnectIsSilent
-----------------------------------------------------------------------------
(* Accepts.  The first of an acceptor finds its direction unprocessed, so  *)
(* that it takes a connection only when it is served.                      *)
AcceptOf(q) ==
  await[q].type = "ACCEPT" =>
    /\ (units[q] > 0 /\ ~Completed(q)) => NotFirst(q)
    /\ told[q] = "invalid" => vanished
    /\ told[q] = "ok" => units[q] = 1 \/ NotFirst(q)
    /\ (Completed(q) /\ runs[q] = 0) =>
         /\ handle[await[q].target] # "none"
         /\ handle[await[q].target] = "open" => units[q] = 1 \/ NotFirst(q)
         /\ handle[await[q].target] = "invalid" => vanished

AcceptsSucceed ==
  \A i \in 1..Len(waitset), q \in Ops :
    waitset[i].cb = q => (await[q].type = "ACCEPT" => waitset[i].error = 0)

Accepted(s) ==
  \E p \in Ops : await[p].sock = s /\ await[p].type = "ACCEPT" /\ Completed(p)

AcceptInv ==
  /\ \A q \in Ops : AcceptOf(q)
  /\ AcceptsSucceed
  /\ \A s \in Socks : (Kind[s] = "LISTEN" /\ socks[s].in.processing) => Accepted(s)

(* What was done stays done. *)
Later ==
  /\ \A p \in Ops : Issued(p) => await'[p] = await[p]
  /\ \A p \in Ops : Completed(p) => Completed(p)'
  /\ vanished => vanished'

LEMMA NotFirstStays ==
  ASSUME AwaitInv, Later, NEW q \in Ops, Issued(q), NotFirst(q)
  PROVE  NotFirst(q)'
<1>1. PICK p \in Ops \ {q} :
        await[p].sock = await[q].sock /\ await[p].type = await[q].type /\ Completed(p)
  BY DEF NotFirst, Completed, Listed
<1>2. Issued(p) BY <1>1, Traces
<1>3. await'[p] = await[p] /\ await'[q] = await[q] /\ Completed(p)' BY <1>1, <1>2 DEF Later
<1> QED BY <1>1, <1>3 DEF NotFirst, Completed, Listed

LEMMA AcceptedStays ==
  ASSUME AwaitInv, Later, NEW s, Accepted(s) PROVE Accepted(s)'
<1>1. PICK p \in Ops : await[p].sock = s /\ await[p].type = "ACCEPT" /\ Completed(p)
  BY DEF Accepted
<1>2. Issued(p) BY <1>1, Traces
<1>3. await'[p] = await[p] /\ Completed(p)' BY <1>1, <1>2 DEF Later
<1> QED BY <1>1, <1>3 DEF Accepted

LEMMA AcceptStays ==
  ASSUME AwaitInv, Later, NEW q \in Ops, AcceptOf(q), SameOf(q),
         await[q].type = "ACCEPT" /\ Running(q) =>
           handle'[await[q].target] = handle[await[q].target]
  PROVE  AcceptOf(q)'
<1> SUFFICES ASSUME await'[q].type = "ACCEPT" PROVE AcceptOf(q)' BY DEF AcceptOf
<1>1. await'[q] = await[q] /\ await[q].type = "ACCEPT" BY DEF SameOf
<1>2. Issued(q) BY <1>1 DEF Issued, Unissued
<1>3. NotFirst(q) => NotFirst(q)' BY <1>2, NotFirstStays
<1>4. vanished => vanished' BY DEF Later
<1>5. runs[q] = 0 => handle'[await[q].target] = handle[await[q].target]
  BY <1>1, <1>2 DEF Running, Issued
<1> QED BY <1>1, <1>3, <1>4, <1>5 DEF AcceptOf, SameOf

(* A step that posts nothing. *)
LEMMA AcceptKept ==
  ASSUME AwaitInv, AcceptInv, Later, \A q \in Ops : SameOf(q),
         \A q \in Ops : await[q].type = "ACCEPT" /\ Running(q) =>
           handle'[await[q].target] = handle[await[q].target],
         \A s \in Socks : socks'[s].in.processing => socks[s].in.processing,
         \A j \in 1..Len(waitset') : \E i \in 1..Len(waitset) : waitset'[j] = waitset[i]
  PROVE  AcceptInv'
<1>1. \A q \in Ops : AcceptOf(q)' BY AcceptStays DEF AcceptInv
<1>2. ASSUME NEW j \in 1..Len(waitset'), NEW q \in Ops, waitset'[j].cb = q,
             await'[q].type = "ACCEPT"
      PROVE  waitset'[j].error = 0
  <2>1. PICK i \in 1..Len(waitset) : waitset'[j] = waitset[i] OBVIOUS
  <2>2. await[q].type = "ACCEPT" BY <1>2 DEF SameOf
  <2> QED BY <1>2, <2>1, <2>2 DEF AcceptInv, AcceptsSucceed
<1>3. \A s \in Socks : (Kind[s] = "LISTEN" /\ socks'[s].in.processing) => Accepted(s)'
  BY AcceptedStays DEF AcceptInv
<1> QED BY <1>1, <1>2, <1>3 DEF AcceptInv, AcceptsSucceed

(* One that posts an event of op. *)
LEMMA AcceptPosted ==
  ASSUME LoopInv, AcceptInv, NEW op \in Ops, ~Listed(op),
         \A q \in Ops : q # op => SameOf(q),
         NEW ev \in Events, ev.cb = op, waitset' = SubmitComplete(waitset, ev),
         await'[op].type = "ACCEPT" => ev.error = 0
  PROVE  AcceptsSucceed'
<1> DEFINE n == Len(waitset) + 1
<1>1. /\ Len(waitset') = n
      /\ \A i \in 1..Len(waitset) : waitset'[i] = waitset[i]
      /\ waitset'[n].cb = op /\ waitset'[n].error = ev.error
  BY SubmitCompleteElements DEF LoopInv
<1>2. Len(waitset) \in Nat BY ListTyped
<1>3. \A j \in 1..n : j \in 1..Len(waitset) \/ j = n BY <1>2
<1> HIDE DEF n
<1>4. ASSUME NEW j \in 1..Len(waitset'), NEW q \in Ops, waitset'[j].cb = q,
             await'[q].type = "ACCEPT"
      PROVE  waitset'[j].error = 0
  <2>1. CASE j \in 1..Len(waitset)
    <3>1. waitset'[j] = waitset[j] /\ waitset[j].cb = q BY <1>1, <1>4, <2>1
    <3>2. q # op BY <2>1, <3>1 DEF Listed
    <3>3. await[q].type = "ACCEPT" BY <1>4, <3>2 DEF SameOf
    <3> QED BY <2>1, <3>1, <3>3 DEF AcceptInv, AcceptsSucceed
  <2>2. CASE j = n
    <3>1. q = op BY <1>1, <1>4, <2>2
    <3> QED BY <1>1, <1>4, <2>2, <3>1
  <2> QED BY <1>1, <1>3, <2>1, <2>2
<1> QED BY <1>4 DEF AcceptsSucceed

LEMMA BeginsLater ==
  ASSUME CoreInv, NEW op \in Ops, NEW w, Begins(op, w)
  PROVE  /\ Later
         /\ \A q \in Ops : await[q].type = "ACCEPT" /\ Running(q) =>
              handle'[await[q].target] = handle[await[q].target]
<1>1. await \in [Ops -> Awaits] /\ AwaitInv BY DEF CoreInv, TypesInv
<1>2. /\ ~Issued(op) /\ ~Completed(op)
      /\ \A q \in Ops : q # op => (Completed(q)' <=> Completed(q))
  BY BeginsList
<1>3. \A q \in Ops : q # op => await'[q] = await[q] BY BeginsOthers DEF SameOf
<1>4. Later BY <1>2, <1>3 DEF Later, Begins
<1>5. ASSUME NEW q \in Ops, await[q].type = "ACCEPT", Running(q)
      PROVE  handle'[await[q].target] = handle[await[q].target]
  <2>1. Issued(q) BY <1>5 DEF Running, Issued
  <2>2. await[q].target \in Socks BY <1>1, <1>5, <2>1 DEF AwaitInv, Offered, Awaits
  <2>3. await[q].target # w.target BY <1>5, <2>2, Constants DEF Begins
  <2> QED BY <2>2, <2>3 DEF Begins
<1> QED BY <1>4, <1>5

LEMMA BeginsAccept ==
  ASSUME CoreInv, AcceptInv, NEW op \in Ops, NEW w, Begins(op, w),
         \A s \in Socks : Kind[s] = "LISTEN" =>
           (socks'[s].in.processing => socks[s].in.processing),
         w.type = "ACCEPT" =>
           waitset' = waitset /\ (units'[op] > 0 => Accepted(w.sock))
  PROVE  AcceptInv'
<1>1. LoopInv /\ AwaitInv BY DEF CoreInv, TypesInv
<1>2. /\ \A q \in Ops : q # op => SameOf(q)
      /\ await'[op] = w /\ told'[op] = "nothing"
  BY BeginsOthers
<1>3. /\ Later
      /\ \A q \in Ops : await[q].type = "ACCEPT" /\ Running(q) =>
              handle'[await[q].target] = handle[await[q].target]
  BY BeginsLater
<1>4. ~Completed(op) /\ ~Issued(op) /\ (waitset' = waitset => ~Completed(op)') BY BeginsList
<1>5. AcceptOf(op)'
  <2> SUFFICES ASSUME w.type = "ACCEPT" PROVE AcceptOf(op)' BY <1>2 DEF AcceptOf
  <2>1. ~Completed(op)' BY <1>4
  <2>2. ASSUME units'[op] > 0 PROVE NotFirst(op)'
    <3>1. Accepted(w.sock)' BY <1>1, <1>3, <2>2, AcceptedStays
    <3>2. PICK p \in Ops : await'[p].sock = w.sock /\ await'[p].type = "ACCEPT" /\ Completed(p)'
      BY <3>1 DEF Accepted
    <3>3. p # op BY <2>1, <3>2
    <3> QED BY <1>2, <3>2, <3>3 DEF NotFirst, Completed, Listed
  <2> QED BY <1>2, <2>1, <2>2 DEF AcceptOf
<1>6. ASSUME NEW q \in Ops PROVE AcceptOf(q)'
  <2>1. CASE q = op BY <1>5, <2>1
  <2>2. CASE q # op
    <3>1. AcceptOf(q) /\ SameOf(q) BY <1>2, <2>2 DEF AcceptInv
    <3> QED BY <1>1, <1>3, <3>1, AcceptStays
  <2> QED BY <2>1, <2>2
<1>7. AcceptsSucceed'
  <2>1. CASE waitset' = waitset
    <3>1. \A i \in 1..Len(waitset) : waitset[i].cb # op BY <1>4 DEF Completed, Listed
    <3> QED BY <1>2, <2>1, <3>1 DEF AcceptInv, AcceptsSucceed, SameOf
  <2>2. ASSUME NEW ev \in Events, ev.cb = op, waitset' = SubmitComplete(waitset, ev)
        PROVE  AcceptsSucceed'
    <3>1. Completed(op)' BY <1>1, <2>2, ListedAppended DEF Completed
    <3>2. await'[op].type # "ACCEPT" BY <1>2, <1>4, <3>1
    <3>3. ~Listed(op) BY <1>4 DEF Completed
    <3> QED BY <1>1, <1>2, <2>2, <3>2, <3>3, AcceptPosted
  <2> QED BY <2>1, <2>2 DEF Begins, Posts
<1>8. \A s \in Socks : (Kind[s] = "LISTEN" /\ socks'[s].in.processing) => Accepted(s)'
  BY <1>1, <1>3, AcceptedStays DEF AcceptInv
<1> QED BY <1>6, <1>7, <1>8 DEF AcceptInv
(* A socket to connect or to transfer with is no acceptor. *)
LEMMA OtherEntries ==
  ASSUME CoreInv, NEW op \in Ops, NEW w, Begins(op, w), w.type # "ACCEPT",
         NEW s \in Socks, Kind[s] = "LISTEN"
  PROVE  socks'[s]["in"] = socks[s]["in"]
<1>1. w.sock \in Socks /\ w.type \in Offers(Kind[w.sock]) BY DEF Begins, Offered
<1>2. Kind[w.sock] # "LISTEN" BY <1>1, OfferedTypes
<1>3. s # Key(w.sock)
  <2>1. Key(w.sock) = w.sock \/ Key(w.sock) = INVALID_SOCKET BY DEF Key
  <2> QED BY <1>2, <2>1, Constants
<1>4. s \in Keys /\ "in" \in Dirs BY Constants DEF Dirs
<1> QED BY <1>3, <1>4 DEF Begins

LEMMA SubmitAcceptInv ==
  ASSUME CoreInv, AcceptInv, NEW op \in Ops, NEW s \in Socks,
         \/ \E type \in Types, len \in {0, 1} : SubmitTransfer(op, type, s, len)
         \/ SubmitConnect(op, s)
         \/ \E t \in Socks : SubmitAccept(op, s, t)
  PROVE  AcceptInv'
<1>1. ASSUME NEW w, Begins(op, w), w.type # "ACCEPT" PROVE AcceptInv'
  <2>1. \A g \in Socks : Kind[g] = "LISTEN" => socks'[g]["in"] = socks[g]["in"]
    BY <1>1, OtherEntries
  <2>2. \A g \in Socks : Kind[g] = "LISTEN" =>
          (socks'[g].in.processing => socks[g].in.processing)
    BY <2>1
  <2> QED BY <1>1, <2>2, BeginsAccept
<1>2. ASSUME NEW type \in Types, NEW len \in {0, 1}, SubmitTransfer(op, type, s, len)
      PROVE  AcceptInv'
  <2> DEFINE w == Wait(type, s, NoSock, len)
  <2>1. w.type # "ACCEPT" BY <1>2 DEF Wait, SubmitTransfer
  <2> HIDE DEF w
  <2>2. Begins(op, w) BY <1>2, SubmitTransferWaits, SubmitTransferTries DEF w
  <2> QED BY <1>1, <2>1, <2>2
<1>3. CASE SubmitConnect(op, s)
  <2> DEFINE w == Wait("CONNECT", s, NoSock, 1)
  <2>1. w.type # "ACCEPT" BY DEF Wait
  <2> HIDE DEF w
  <2>2. Begins(op, w) BY <1>3, SubmitConnectBegins DEF w
  <2> QED BY <1>1, <2>1, <2>2
<1>4. ASSUME NEW t \in Socks, SubmitAccept(op, s, t) PROVE AcceptInv'
  <2> DEFINE w == Wait("ACCEPT", s, t, 1)
  <2>1. w.type = "ACCEPT" /\ w.sock = s BY DEF Wait
  <2> HIDE DEF w
  <2>2. /\ Begins(op, w)
        /\ waitset' = waitset /\ Kind[s] = "LISTEN"
        /\ IF socks[s].in.processing THEN AcceptInto(s, t, op)
                                     ELSE UNCHANGED <<handle, kernel, units, empties>>
        /\ \A g \in Keys : socks'[g].in.processing <=> socks[g].in.processing
    BY <1>4, SubmitAcceptBegins DEF w
  <2>3. units[op] = 0 BY <2>2, BeginsOthers
  <2>4. units'[op] > 0 => Accepted(s) BY <2>2, <2>3 DEF AcceptInv
  <2>5. \A g \in Socks : socks'[g].in.processing => socks[g].in.processing
    BY <2>2, Constants
  <2> QED BY <2>1, <2>2, <2>4, <2>5, BeginsAccept
<1> QED BY <1>2, <1>3, <1>4

LEMMA EndsLater ==
  ASSUME CoreInv, NEW h \in Keys, NEW d \in Dirs, NEW op \in Ops, Ends(h, d, op),
         \A q \in Ops : Completed(q)' <=> (Completed(q) \/ q = op)
  PROVE  /\ Later /\ Issued(op)
         /\ \A q \in Ops : q # op /\ await[q].type = "ACCEPT" /\ Running(q) =>
              handle'[await[q].target] = handle[await[q].target]
<1>1. /\ await' = await /\ vanished' = vanished /\ Waits(h, d, op)
      /\ \A g \in Socks : g # await[op].target => handle'[g] = handle[g]
  BY DEF Ends
<1>2. Later BY <1>1 DEF Later
<1>3. Holds(h, d, op) BY <1>1 DEF CoreInv, SlotInv
<1>4. Issued(op) /\ Running(op)
  <2>1. runs[op] \in 0..2 /\ ~(runs[op] > 0) /\ Issued(op)
    BY <1>3 DEF CoreInv, TypesInv, Holds, Completed
  <2> QED BY <2>1 DEF Running, Issued
<1>5. ASSUME NEW q \in Ops, q # op, await[q].type = "ACCEPT", Running(q)
      PROVE  handle'[await[q].target] = handle[await[q].target]
  <2>1. Issued(q) BY <1>5 DEF Running, Issued
  <2>2. await[q].target \in Socks
    BY <1>5, <2>1 DEF CoreInv, TypesInv, AwaitInv, Offered, Awaits
  <2>3. await[q].target # await[op].target
    BY <1>4, <1>5, <2>2, Constants DEF CoreInv, TargetInv
  <2> QED BY <1>1, <2>2, <2>3
<1> QED BY <1>2, <1>4, <1>5

LEMMA EndsAccept ==
  ASSUME CoreInv, AcceptInv, NEW h \in Socks, NEW d \in Dirs, NEW op \in Ops, Ends(h, d, op),
         \A q \in Ops : Completed(q)' <=> (Completed(q) \/ q = op),
         \A g \in Keys : g # h => socks'[g] = socks[g],
         NEW ev \in Events, ev.cb = op, waitset' = SubmitComplete(waitset, ev),
         await[op].type = "ACCEPT" =>
           /\ ev.error = 0
           /\ \/ handle'[await[op].target] = "open" /\ units'[op] = More(units[op])
              \/ handle'[await[op].target] = "invalid" /\ vanished /\ units'[op] = units[op],
         Kind[h] = "LISTEN" => await[op].type = "ACCEPT" /\ await[op].sock = h
  PROVE  AcceptInv'
<1>1. LoopInv /\ AwaitInv /\ units \in [Ops -> 0..2] BY DEF CoreInv, TypesInv
<1>2. h \in Keys BY Constants
<1>3. /\ \A q \in Ops : q # op => SameOf(q)
      /\ ~Completed(op) /\ runs[op] = 0 /\ Completed(op)'
      /\ await' = await /\ told' = told /\ runs' = runs
  BY <1>2, EndsOthers
<1>4. /\ Later /\ Issued(op)
      /\ \A q \in Ops : q # op /\ await[q].type = "ACCEPT" /\ Running(q) =>
           handle'[await[q].target] = handle[await[q].target]
  BY <1>2, EndsLater
<1>5. ASSUME NEW q \in Ops PROVE AcceptOf(q)'
  <2>1. CASE q # op
    <3>1. AcceptOf(q) /\ SameOf(q) BY <1>3, <2>1 DEF AcceptInv
    <3> QED BY <1>1, <1>4, <2>1, <3>1, AcceptStays
  <2>2. ASSUME await[op].type = "ACCEPT" PROVE AcceptOf(op)'
    <3>1. AcceptOf(op) /\ vanished' = vanished BY DEF AcceptInv, Ends
    <3>2. NotFirst(op) => NotFirst(op)' BY <1>1, <1>4, NotFirstStays
    <3>3. units[op] > 0 => NotFirst(op)' BY <1>3, <2>2, <3>1, <3>2 DEF AcceptOf
    <3>4. units'[op] = More(units[op]) => units'[op] = 1 \/ NotFirst(op)'
      BY <1>1, <3>3 DEF More
    <3>5. /\ handle'[await[op].target] # "none"
          /\ handle'[await[op].target] = "open" => units'[op] = 1 \/ NotFirst(op)'
          /\ handle'[await[op].target] = "invalid" => vanished
      BY <2>2, <3>4
    <3>6. told[op] = "invalid" => vanished BY <2>2, <3>1 DEF AcceptOf
    <3>7. told[op] = "ok" => units'[op] = 1 \/ NotFirst(op)'
      BY <1>1, <2>2, <3>1, <3>2, <3>3, <3>4 DEF AcceptOf
    <3> QED BY <1>3, <3>1, <3>5, <3>6, <3>7 DEF AcceptOf
  <2>3. await[op].type # "ACCEPT" => AcceptOf(op)' BY <1>3 DEF AcceptOf
  <2> QED BY <2>1, <2>2, <2>3
<1>6. AcceptsSucceed'
  <2>1. ~Listed(op) BY <1>3 DEF Completed
  <2> QED BY <1>1, <1>3, <2>1, AcceptPosted
<1>7. ASSUME NEW s \in Socks, Kind[s] = "LISTEN", socks'[s].in.processing PROVE Accepted(s)'
  <2>1. CASE s = h BY <1>3, <1>7, <2>1 DEF Accepted
  <2>2. CASE s # h
    <3>1. s \in Keys /\ socks'[s] = socks[s] BY <2>2, Constants
    <3>2. Accepted(s) BY <1>7, <3>1 DEF AcceptInv
    <3> QED BY <1>1, <1>4, <3>2, AcceptedStays
  <2> QED BY <2>1, <2>2
<1> QED BY <1>5, <1>6, <1>7 DEF AcceptInv
LEMMA DispatchAcceptInv ==
  ASSUME CoreInv, AcceptInv, Dispatch PROVE AcceptInv'
<1>1. ASSUME NEW h \in Socks, NEW d \in Dirs, DispatchTransfer(h, d) PROVE AcceptInv'
  <2>1. PICK op \in Ops :
          /\ Ends(h, d, op) /\ StartedTyped /\ BatchInv'
          /\ rs' \subseteq Socks /\ ws' \subseteq Socks
          /\ Kind[h] # "LISTEN" /\ await[op].sock = h
          /\ \A g \in Keys : g # h => socks'[g] = socks[g]
          /\ \E ev \in Events : Reports(op, ev)
    BY <1>1, DispatchTransferEnds
  <2>2. PICK ev \in Events : ev.cb = op /\ waitset' = SubmitComplete(waitset, ev)
    BY <2>1 DEF Reports
  <2>3. h \in Keys BY Constants
  <2>4. \A q \in Ops : Completed(q)' <=> (Completed(q) \/ q = op)
    BY <2>1, <2>3, EndsInv DEF StartedTyped
  <2>5. Issued(op) BY <2>1, <2>3, <2>4, EndsLater
  <2>6. await[op].type \in Offers(Kind[h]) BY <2>1, <2>5 DEF CoreInv, AwaitInv, Offered
  <2>7. await[op].type # "ACCEPT" BY <2>1, <2>6, OfferedTypes
  <2> QED BY <2>1, <2>2, <2>4, <2>7, EndsAccept
<1>2. ASSUME NEW h \in Socks, DispatchAccept(h) PROVE AcceptInv'
  <2>1. PICK op \in Ops, t \in Socks :
          /\ Ends(h, "in", op) /\ StartedTyped /\ BatchInv'
          /\ rs' \subseteq Socks /\ ws' \subseteq Socks
          /\ await[op].type = "ACCEPT" /\ await[op].sock = h /\ await[op].target = t
          /\ waitset' = SubmitComplete(waitset, Finished(op, 0))
          /\ \A g \in Keys : g # h => socks'[g] = socks[g]
          /\ \/ handle'[t] = "open" /\ units'[op] = More(units[op])
             \/ handle'[t] = "invalid" /\ vanished /\ units'[op] = units[op]
    BY <1>2, DispatchAcceptEnds
  <2>2. h \in Keys /\ "in" \in Dirs BY Constants DEF Dirs
  <2>3. \A q \in Ops : Completed(q)' <=> (Completed(q) \/ q = op)
    BY <2>1, <2>2, EndsInv DEF StartedTyped
  <2> DEFINE ev == Finished(op, 0)
  <2>4. ev \in Events /\ ev.cb = op /\ ev.error = 0 BY FinishedTyped
  <2>5. waitset' = SubmitComplete(waitset, ev) BY <2>1
  <2> HIDE DEF ev
  <2> QED BY <2>1, <2>2, <2>3, <2>4, <2>5, EndsAccept
<1>3. ASSUME NEW h \in Socks, DispatchConnect(h) PROVE AcceptInv'
  <2>1. PICK op \in Ops :
          /\ Ends(h, "out", op) /\ StartedTyped /\ BatchInv'
          /\ rs' \subseteq Socks /\ ws' \subseteq Socks
          /\ await[op].type = "CONNECT" /\ await[op].sock = h
          /\ \A g \in Keys : g # h => socks'[g] = socks[g]
    BY <1>3, DispatchConnectEnds
  <2>2. PICK ev \in Events : ev.cb = op /\ waitset' = SubmitComplete(waitset, ev)
    BY <2>1 DEF Ends, Posts
  <2>3. h \in Keys /\ "out" \in Dirs BY Constants DEF Dirs
  <2>4. \A q \in Ops : Completed(q)' <=> (Completed(q) \/ q = op)
    BY <2>1, <2>3, EndsInv DEF StartedTyped
  <2>5. Issued(op) BY <2>1, <2>3, <2>4, EndsLater
  <2>6. await[op].type \in Offers(Kind[h]) BY <2>1, <2>5 DEF CoreInv, AwaitInv, Offered
  <2>7. Kind[h] # "LISTEN" BY <2>1, <2>6, OfferedTypes
  <2>8. await[op].type # "ACCEPT" BY <2>1
  <2> QED BY <2>1, <2>2, <2>3, <2>4, <2>7, <2>8, EndsAccept
<1> QED BY <1>1, <1>2, <1>3 DEF Dispatch, Dirs

LEMMA CallsAcceptInv ==
  ASSUME CoreInv, AcceptInv, NEW op \in Ops, Calls(op),
         \A q \in Ops : Completed(q)' <=> Completed(q), runs'[op] > 0,
         \A q \in Ops : q # op => runs'[q] = runs[q],
         \A s \in Socks : socks'[s].in.processing => socks[s].in.processing
  PROVE  AcceptInv'
<1>1. /\ UNCHANGED <<waitset, handle, await, units, empties, vanished>>
      /\ told' = [told EXCEPT ![op] = Tells(waitset[1])]
      /\ 1 \in 1..Len(waitset) /\ waitset[1].cb = op /\ runs[op] = 0
  BY DEF Calls
<1>2. told \in [Ops -> {"nothing", "ok", "zero", "error", "invalid"}] /\ AwaitInv
      /\ handle \in Handles /\ await \in [Ops -> Awaits]
  BY DEF CoreInv, TypesInv
<1>3. told'[op] = Tells(waitset[1]) /\ \A q \in Ops : q # op => told'[q] = told[q]
  BY <1>1, <1>2
<1>4. Later BY <1>1 DEF Later
<1>5. \A q \in Ops : q # op => SameOf(q) BY <1>1, <1>3 DEF SameOf
<1>6. Completed(op) /\ Issued(op) BY <1>1 DEF Completed, Listed, Calls
<1>7. ASSUME await[op].type = "ACCEPT" PROVE AcceptOf(op)'
  <2>1. waitset[1].error = 0 BY <1>1, <1>7 DEF AcceptInv, AcceptsSucceed
  <2>2. told'[op] = IF handle[await[op].target] = "open" THEN "ok" ELSE "invalid"
    BY <1>1, <1>3, <1>7, <2>1 DEF Tells
  <2>3. /\ handle[await[op].target] # "none"
        /\ handle[await[op].target] = "open" => units[op] = 1 \/ NotFirst(op)
        /\ handle[await[op].target] = "invalid" => vanished
    BY <1>1, <1>6, <1>7 DEF AcceptInv, AcceptOf
  <2>4. await[op].target \in Socks BY <1>2, <1>6, <1>7 DEF AwaitInv, Offered, Awaits
  <2>5. handle[await[op].target] \in {"none", "open", "invalid"}
    BY <1>2, <2>4 DEF Handles
  <2>6. NotFirst(op) => NotFirst(op)' BY <1>2, <1>4, <1>6, NotFirstStays
  <2>7. told'[op] = "invalid" => vanished BY <2>2, <2>3, <2>5
  <2>8. told'[op] = "ok" => units[op] = 1 \/ NotFirst(op)' BY <2>2, <2>3, <2>6
  <2>9. Completed(op)' BY <1>6
  <2> QED BY <1>1, <2>7, <2>8, <2>9 DEF AcceptOf
<1>8. ASSUME NEW q \in Ops PROVE AcceptOf(q)'
  <2>1. CASE q = op
    <3>1. await[op].type # "ACCEPT" => AcceptOf(op)' BY <1>1 DEF AcceptOf
    <3> QED BY <1>7, <2>1, <3>1
  <2>2. CASE q # op
    <3>1. AcceptOf(q) /\ SameOf(q) BY <1>5, <2>2 DEF AcceptInv
    <3> QED BY <1>1, <1>2, <1>4, <3>1, AcceptStays
  <2> QED BY <2>1, <2>2
<1>9. AcceptsSucceed' BY <1>1 DEF AcceptInv, AcceptsSucceed
<1>10. \A s \in Socks : (Kind[s] = "LISTEN" /\ socks'[s].in.processing) => Accepted(s)'
  BY <1>2, <1>4, AcceptedStays DEF AcceptInv
<1> QED BY <1>8, <1>9, <1>10 DEF AcceptInv

(* The other steps tell nobody, and close no socket an accept waits for. *)
LEMMA OtherAcceptInv ==
  ASSUME CoreInv, AcceptInv, UNCHANGED <<await, told, runs, units, empties>>,
         vanished => vanished',
         \A q \in Ops : Completed(q)' <=> Completed(q),
         \A q \in Ops : await[q].type = "ACCEPT" /\ Running(q) =>
           handle'[await[q].target] = handle[await[q].target],
         \A s \in Socks : socks'[s].in.processing => socks[s].in.processing,
         \A j \in 1..Len(waitset') : \E i \in 1..Len(waitset) : waitset'[j] = waitset[i]
  PROVE  AcceptInv'
<1>1. \A q \in Ops : SameOf(q) BY DEF SameOf
<1>2. Later BY DEF Later
<1> QED BY <1>1, <1>2, AcceptKept DEF CoreInv

LEMMA ReplacesProcessing ==
  ASSUME CoreInv, NEW k, Replaces(k)
  PROVE  \A s \in Socks : socks'[s].in.processing => socks[s].in.processing
<1>1. socks \in Tables /\ socks' = [socks EXCEPT ![k] = SockEvent]
  BY DEF CoreInv, TypesInv, Replaces
<1>2. ~SockEvent.in.processing BY DEF SockEvent, NewSlot
<1>3. \A s \in Socks : socks'[s] = socks[s] \/ socks'[s] = SockEvent
  BY <1>1, Constants DEF Tables
<1> QED BY <1>2, <1>3

LEMMA NextAccept ==
  ASSUME CoreInv, AcceptInv, [Next]_vars PROVE AcceptInv'
<1>1. ASSUME NEW op \in Ops, NEW s \in Socks,
             \/ \E type \in Types, len \in {0, 1} : SubmitTransfer(op, type, s, len)
             \/ SubmitConnect(op, s)
             \/ \E t \in Socks : SubmitAccept(op, s, t)
      PROVE  AcceptInv'
  BY <1>1, SubmitAcceptInv
<1>2. ASSUME UNCHANGED <<waitset, handle, socks, await, told, runs, units, empties>>,
             vanished => vanished',
             \A q \in Ops : Completed(q)' <=> Completed(q)
      PROVE  AcceptInv'
  <2>1. \A j \in 1..Len(waitset') : \E i \in 1..Len(waitset) : waitset'[j] = waitset[i] BY <1>2
  <2> QED BY <1>2, <2>1, OtherAcceptInv
<1>3. ASSUME NEW s \in Socks, CloseSock(s) PROVE AcceptInv'
  <2>1. \A q \in Ops : Completed(q)' <=> Completed(q) BY <1>3, CloseSockInv
  <2>2. /\ UNCHANGED <<waitset, await, told, runs, units, empties, vanished>>
        /\ handle' = [handle EXCEPT ![s] = "none"] /\ Usable(s)
        /\ socks' = [socks EXCEPT ![Key(s)] = SockEvent]
        /\ dropped' = dropped \cup Waiting(Key(s))
    BY <1>3 DEF CloseSock, loopVars
  <2>3. Replaces(Key(s)) BY <2>2, KeyTyped DEF Replaces
  <2>4. \A g \in Socks : socks'[g].in.processing => socks[g].in.processing
    BY <2>3, ReplacesProcessing
  <2>5. ASSUME NEW q \in Ops, await[q].type = "ACCEPT", Running(q)
        PROVE  handle'[await[q].target] = handle[await[q].target]
    BY <2>2, <2>5 DEF Usable
  <2>6. \A j \in 1..Len(waitset') : \E i \in 1..Len(waitset) : waitset'[j] = waitset[i]
    BY <2>2
  <2> QED BY <2>1, <2>2, <2>4, <2>5, <2>6, OtherAcceptInv
<1>4. ASSUME NEW s \in Socks, NetworkStep(s) PROVE AcceptInv'
  <2>1. PICK fd : External(s, fd) BY <1>4, NetworkExternal
  <2>2. \A q \in Ops : Completed(q)' <=> Completed(q) BY <2>1, ExternalInv
  <2> QED BY <1>2, <2>1, <2>2 DEF External, loopVars, calls
<1>5. CASE \/ StartRun \/ LoopTest \/ StartWait \/ UserEnd \/ SelectFails \/ Select
           \/ WaitReturns \/ UNCHANGED vars
  <2>1. Quiet /\ LoopInv' /\ BatchInv' BY <1>5, QuietSteps
  <2>2. \A q \in Ops : Completed(q)' <=> Completed(q) BY <2>1, QuietInv
  <2> QED BY <1>2, <2>1, <2>2 DEF Quiet
<1>6. CASE EndCallback
  <2>1. \A q \in Ops : Completed(q)' <=> Completed(q) BY <1>6, EndCallbackInv
  <2>2. /\ UNCHANGED <<handle, socks, await, told, runs, units, empties, dropped, vanished>>
        /\ Return
    BY <1>6 DEF EndCallback, selectVars, calls
  <2>3. LoopInv /\ QueueInv BY DEF CoreInv, TypesInv
  <2>4. /\ Len(waitset) \in Nat
        /\ \A i \in 1..Len(waitset') : i + 1 \in 2..Len(waitset) /\ waitset'[i] = waitset[i + 1]
    BY <2>2, <2>3, Erased
  <2>5. \A i \in 2..Len(waitset) : i \in 1..Len(waitset) BY <2>4
  <2>6. \A j \in 1..Len(waitset') : \E i \in 1..Len(waitset) : waitset'[j] = waitset[i]
    BY <2>4, <2>5
  <2> QED BY <2>1, <2>2, <2>6, OtherAcceptInv
<1>7. CASE StartCallback
  <2>1. PICK op \in Ops :
          /\ Calls(op) /\ LoopInv'
          /\ IF await[op].type = "ACCEPT" /\ waitset[1].error = 0
             THEN await[op].target \in Socks /\ Replaces(Key(await[op].target))
             ELSE UNCHANGED <<socks, dropped>>
    BY <1>7, StartCallbackCalls
  <2>2. \E k : DropsOnly(k) BY <2>1, ReplacesDrops, NothingDropped
  <2>3. /\ runs'[op] > 0
        /\ \A q \in Ops : q # op => runs'[q] = runs[q]
        /\ \A q \in Ops : Completed(q)' <=> Completed(q)
    BY <2>1, <2>2, CallsQueue
  <2>4. \A s \in Socks : socks'[s].in.processing => socks[s].in.processing
    BY <2>1, ReplacesProcessing
  <2> QED BY <2>1, <2>3, <2>4, CallsAcceptInv
<1>8. CASE Dispatch BY <1>8, DispatchAcceptInv
<1> QED BY <1>1, <1>3, <1>4, <1>5, <1>6, <1>7, <1>8 DEF Next, LoopStep, NetworkStep

LEMMA InitAccept == Init => AcceptInv
<1> SUFFICES ASSUME Init PROVE AcceptInv OBVIOUS
<1>1. waitset = <<>> /\ Len(waitset) = 0 BY EmptySeq DEF Init, LoopInit
<1>2. /\ await = [op \in Ops |-> Unissued] /\ socks = [h \in Keys |-> SockEvent] BY DEF Init
<1>3. \A q \in Ops : await[q].type # "ACCEPT" BY <1>2 DEF Unissued
<1>4. \A s \in Socks : ~socks[s].in.processing BY <1>2, Constants DEF SockEvent, NewSlot
<1> QED BY <1>1, <1>3, <1>4 DEF AcceptInv, AcceptOf, AcceptsSucceed

(* The first accept of an acceptor takes one connection and reports it, or *)
(* the connection it woke for is gone; only a later one takes a connection *)
(* inside its Submit call (wineventimpl.h:103-134, 243-254,                *)
(* winsock.h:232-240).                                                     *)
THEOREM FirstAcceptIsSafe == Spec => []FirstAcceptTakesOne
<1>1. CoreInv /\ AcceptInv /\ [Next]_vars => AcceptInv' BY NextAccept
<1>2. CoreInv /\ AcceptInv => FirstAcceptTakesOne
  <2> SUFFICES ASSUME CoreInv, AcceptInv, NEW op \in Ops, await[op].type = "ACCEPT"
               PROVE  /\ told[op] = "invalid" => vanished
                      /\ told[op] = "ok" => units[op] = 1 \/ NotFirst(op)
                      /\ (runs[op] = 0 /\ units[op] > 0
                            /\ \A i \in 1..Len(waitset) : waitset[i].cb # op) => NotFirst(op)
    BY DEF FirstAcceptTakesOne
  <2>1. AcceptOf(op) BY DEF AcceptInv
  <2>2. (runs[op] = 0 /\ \A i \in 1..Len(waitset) : waitset[i].cb # op) => ~Completed(op)
    BY DEF Completed, Listed
  <2> QED BY <2>1, <2>2 DEF AcceptOf
<1> QED BY <1>1, <1>2, AlwaysCore, InitAccept, PTL DEF Spec
-----------------------------------------------------------------------------
(* The refinement.  An operation that waits in a slot or was dropped with  *)
(* an entry is pending; one that is displaced by the next in its direction *)
(* is lost.  Two objects that hold INVALID_SOCKET share one entry, so that *)
(* an operation may be lost without a second one in its direction.         *)
OneInvalid == \A s, t \in Socks : (handle[s] = "invalid" /\ handle[t] = "invalid") => s = t

StartedOps == {op \in Ops : await[op] # Unissued}
Pending == (UNION {Waiting(h) : h \in Keys}) \cup dropped
DueNow == IF pc = "callback" THEN Tail(Callbacks) ELSE Callbacks
Active == IF pc = "callback" THEN waitset[it].cb ELSE NoOp

LEMMA AbstractUnchanged ==
  ASSUME StartedOps' = StartedOps, Pending' = Pending, DueNow' = DueNow, Active' = Active
  PROVE  UNCHANGED Abstract!absVars
BY DEF StartedOps, Pending, DueNow, Active, Abstract!absVars

LEMMA AbstractStart ==
  ASSUME NEW op \in Ops, op \notin StartedOps, StartedOps' = StartedOps \cup {op},
         Active' = Active, NEW lost \in SUBSET Pending, Overlap \/ lost = {},
         \/ Pending' = (Pending \ lost) \cup {op} /\ DueNow' = DueNow
         \/ Pending' = Pending \ lost /\ DueNow' = Append(DueNow, op)
  PROVE  Abstract!Next
<1>1. Abstract!Start(op)
  BY DEF StartedOps, Pending, DueNow, Active, Abstract!Start
<1> QED BY <1>1 DEF Abstract!Next

LEMMA AbstractComplete ==
  ASSUME NEW op \in Ops, op \in Pending, Pending' = Pending \ {op},
         DueNow' = Append(DueNow, op), StartedOps' = StartedOps, Active' = Active
  PROVE  Abstract!Next
<1>1. Abstract!Complete(op)
  BY DEF StartedOps, Pending, DueNow, Active, Abstract!Complete
<1> QED BY <1>1 DEF Abstract!Next

LEMMA AbstractCall ==
  ASSUME Active = NoOp, DueNow # <<>>, Active' = Head(DueNow), DueNow' = Tail(DueNow),
         StartedOps' = StartedOps, Pending' = Pending
  PROVE  Abstract!Next
<1>1. Abstract!Call BY DEF StartedOps, Pending, DueNow, Active, Abstract!Call
<1> QED BY <1>1 DEF Abstract!Next

LEMMA AbstractFinish ==
  ASSUME Active # NoOp, Active' = NoOp, DueNow' = DueNow, StartedOps' = StartedOps,
         Pending' = Pending
  PROVE  Abstract!Next
<1>1. Abstract!Finish BY DEF StartedOps, Pending, DueNow, Active, Abstract!Finish
<1> QED BY <1>1 DEF Abstract!Next

LEMMA PendingOps ==
  \A q : q \in Pending <=>
           q \in dropped \/ (q \in Ops /\ \E h \in Keys, d \in Dirs : Waits(h, d, q))
<1>1. ASSUME NEW h \in Keys, NEW q
      PROVE  q \in Waiting(h) <=> q \in Ops /\ \E d \in Dirs : Waits(h, d, q)
  BY DEF Waiting, Waits, Dirs
<1>2. ASSUME NEW q
      PROVE  (q \in UNION {Waiting(h) : h \in Keys}) <=> \E h \in Keys : q \in Waiting(h)
  OBVIOUS
<1>3. ASSUME NEW q
      PROVE  q \in Pending <=> q \in dropped \/ \E h \in Keys : q \in Waiting(h)
  BY <1>2 DEF Pending
<1> QED BY <1>1, <1>3

LEMMA PendingOpsNext ==
  (\A q : q \in Pending <=>
            q \in dropped \/ (q \in Ops /\ \E h \in Keys, d \in Dirs : Waits(h, d, q)))'
  BY PendingOps, PTL

LEMMA InitRefines == Init => Abstract!Init
<1> SUFFICES ASSUME Init PROVE Abstract!Init OBVIOUS
<1>1. StartedOps = {} BY DEF Init, StartedOps
<1>2. Pending = {}
  <2>1. socks = [h \in Keys |-> SockEvent] /\ dropped = {} BY DEF Init
  <2>2. \A h \in Keys, d \in Dirs : ~socks[h][d].active
    BY <2>1 DEF SockEvent, NewSlot, Dirs
  <2> QED BY <2>1, <2>2, PendingOps DEF Waits
<1>3. Callbacks = <<>>
  <2>1. waitset \in Seq(CompletedEvents) /\ waitset = <<>> BY EmptySeq DEF Init, LoopInit
  <2>2. CallbacksOf(waitset) \in Seq(Ops) /\ Len(CallbacksOf(waitset)) = 0
    BY <2>1, CallbacksTyped, EmptySeq
  <2>3. CallbacksOf(waitset) = <<>> BY <2>2, EmptySeq
  <2> QED BY <2>3 DEF Callbacks, CallbacksOf
<1>4. DueNow = <<>> /\ Active = NoOp BY <1>3 DEF Init, LoopInit, DueNow, Active
<1> QED BY <1>1, <1>2, <1>4 DEF Abstract!Init, StartedOps, Pending, DueNow, Active

LEMMA DueAppended ==
  ASSUME LoopInv, NEW ev \in Events, NEW op \in Ops, ev.cb = op,
         waitset' = SubmitComplete(waitset, ev), UNCHANGED <<it, pc>>
  PROVE  DueNow' = Append(DueNow, op) /\ Active' = Active
<1>1. waitset \in Seq(CompletedEvents) /\ it = 1 BY DEF LoopInv
<1>2. CallbacksOf(waitset') = Append(CallbacksOf(waitset), op)
  BY <1>1, CallbacksOfAppended
<1>3. Callbacks' = Append(Callbacks, op) BY <1>2 DEF Callbacks, CallbacksOf
<1>4. ASSUME pc = "callback"
      PROVE  /\ Tail(Callbacks') = Append(Tail(Callbacks), op)
             /\ waitset'[it'].cb = waitset[it].cb
  <2>1. waitset # <<>> BY <1>4 DEF LoopInv
  <2>2. CallbacksOf(waitset) \in Seq(Ops) /\ CallbacksOf(waitset) # <<>>
    BY <1>1, <2>1, CallbacksTyped, CallbacksOfTail
  <2>3. Tail(Callbacks') = Append(Tail(Callbacks), op)
    <3>1. Callbacks \in Seq(Ops) /\ Callbacks # <<>> BY <2>2 DEF Callbacks, CallbacksOf
    <3>2. Tail(Append(Callbacks, op)) = Append(Tail(Callbacks), op) BY ONLY <3>1, op \in Ops, HeadTailAppend
    <3> QED BY ONLY <1>3, <3>2
  <2>4. 1 \in 1..Len(waitset) BY <1>1, <2>1, EmptySeq
  <2>5. waitset'[1] = waitset[1] BY <1>1, <2>4, SubmitCompleteElements
  <2> QED BY <1>1, <2>3, <2>5
<1> QED BY <1>3, <1>4 DEF DueNow, Active

LEMMA PostsGrows ==
  ASSUME LoopInv, NEW op \in Ops, ~Listed(op), Posts(op) PROVE waitset' # waitset
<1>1. PICK ev \in Events : ev.cb = op /\ waitset' = SubmitComplete(waitset, ev) BY DEF Posts
<1>2. Listed(op)' BY <1>1, ListedAppended
<1> QED BY <1>2 DEF Listed

(* What a Submit call displaces. *)
LEMMA BeginsDisplaces ==
  ASSUME CoreInv, Overlap \/ OneInvalid, NEW op \in Ops, NEW w, Begins(op, w),
         \A p \in Ops : (Running(p) /\ await[p].sock = w.sock /\ Dir(await[p].type) = Dir(w.type))
                          => Overlap,
         NEW q \in Pending, q \notin Pending'
  PROVE  Overlap
<1>1. dropped' = dropped /\ w.sock \in Socks BY DEF Begins, Offered
<1>2. PICK h \in Keys, d \in Dirs : q \in Ops /\ Waits(h, d, q)
  BY <1>1, PendingOps, PendingOpsNext
<1>3. ~Waits(h, d, q)' BY <1>2, PendingOpsNext
<1>4. h = Key(w.sock) /\ d = Dir(w.type) BY <1>2, <1>3 DEF Begins, Waits
<1>5. Holds(h, d, q) BY <1>2 DEF CoreInv, SlotInv
<1>6. Running(q)
  <2>1. runs[q] \in 0..2 /\ ~(runs[q] > 0) /\ Issued(q)
    BY <1>2, <1>5 DEF CoreInv, TypesInv, Holds, Completed
  <2> QED BY <2>1 DEF Running, Issued
<1>7. await[q].sock \in Socks BY <1>2, <1>5 DEF CoreInv, AwaitInv, Offered, Holds
<1>8. Dir(await[q].type) = d /\ Key(await[q].sock) = h BY <1>5 DEF Holds
<1>9. Overlap \/ await[q].sock = w.sock
  <2>1. CASE h \in Socks
    <3>1. h # INVALID_SOCKET BY <2>1, Constants
    <3> QED BY <1>4, <1>8, <3>1 DEF Key
  <2>2. CASE h = INVALID_SOCKET
    <3>1. handle[w.sock] = "invalid" /\ handle[await[q].sock] = "invalid"
      BY <1>1, <1>4, <1>7, <1>8, <2>2, Constants DEF Key
    <3> QED BY <1>1, <1>7, <3>1 DEF OneInvalid
  <2> QED BY <2>1, <2>2 DEF Keys
<1> QED BY <1>2, <1>4, <1>6, <1>8, <1>9

LEMMA BeginsRefines ==
  ASSUME CoreInv, Overlap \/ OneInvalid, NEW op \in Ops, NEW w, Begins(op, w),
         \A p \in Ops : (Running(p) /\ await[p].sock = w.sock /\ Dir(await[p].type) = Dir(w.type))
                          => Overlap
  PROVE  Abstract!Next
<1>1. LoopInv /\ await \in [Ops -> Awaits] BY DEF CoreInv, TypesInv
<1>2. /\ await[op] = Unissued /\ w # Unissued /\ await' = [await EXCEPT ![op] = w]
      /\ UNCHANGED <<it, pc, dropped>>
      /\ w.sock \in Socks
  BY DEF Begins, Offered
<1>3. op \notin StartedOps /\ StartedOps' = StartedOps \cup {op}
  BY <1>1, <1>2 DEF StartedOps
<1> DEFINE lost == Pending \ Pending'
<1>4. lost \in SUBSET Pending OBVIOUS
<1>5. Overlap \/ lost = {} BY BeginsDisplaces
<1>6. op \notin dropped /\ \A h \in Keys, d \in Dirs : ~Waits(h, d, op)
  <2>1. op \notin dropped /\ ~Issued(op) BY BeginsList
  <2> QED BY <2>1 DEF CoreInv, SlotInv, Holds
<1>7. ASSUME NEW q \in Pending' PROVE q \in Pending \/ q = op
  <2>1. CASE q \in dropped' BY <1>2, <2>1, PendingOps
  <2>2. ASSUME NEW h \in Keys, NEW d \in Dirs, q \in Ops, Waits(h, d, q)'
        PROVE  q \in Pending \/ q = op
    <3>1. q = op \/ Waits(h, d, q) BY <2>2 DEF Begins, Waits
    <3> QED BY <2>2, <3>1, PendingOps
  <2> QED BY <2>1, <2>2, PendingOpsNext
<1>8. Key(w.sock) \in Keys /\ Dir(w.type) \in Dirs BY <1>2, KeyTyped, DirOf
<1>9. Posts(op) => waitset' # waitset BY <1>1, PostsGrows, BeginsList DEF Completed
<1> HIDE DEF lost
<1>10. CASE waitset' = waitset
  <2>1. \A h \in Keys, d \in Dirs : h = Key(w.sock) /\ d = Dir(w.type) => Waits(h, d, op)'
    BY <1>9, <1>10 DEF Begins, Waits
  <2>2. op \in Pending' BY <1>8, <2>1, PendingOpsNext
  <2>3. Pending' = (Pending \ lost) \cup {op} BY <1>7, <2>2 DEF lost
  <2>4. DueNow' = DueNow /\ Active' = Active BY <1>2, <1>10 DEF DueNow, Active, Callbacks
  <2> QED BY <1>3, <1>4, <1>5, <2>3, <2>4, AbstractStart
<1>11. CASE Posts(op)
  <2>1. PICK ev \in Events : ev.cb = op /\ waitset' = SubmitComplete(waitset, ev)
    BY <1>11 DEF Posts
  <2>2. DueNow' = Append(DueNow, op) /\ Active' = Active BY <1>1, <1>2, <2>1, DueAppended
  <2>3. op \notin Pending'
    <3>1. \A h \in Keys, d \in Dirs : ~Waits(h, d, op)' BY <1>6, <1>9, <1>11 DEF Begins, Waits
    <3> QED BY <1>2, <1>6, <3>1, PendingOpsNext
  <2>4. Pending' = Pending \ lost BY <1>7, <2>3 DEF lost
  <2> QED BY <1>3, <1>4, <1>5, <2>2, <2>4, AbstractStart
<1> QED BY <1>10, <1>11 DEF Begins

LEMMA SubmitRefines ==
  ASSUME CoreInv, Overlap \/ OneInvalid, NEW op \in Ops, NEW s \in Socks,
         \/ \E type \in Types, len \in {0, 1} : SubmitTransfer(op, type, s, len)
         \/ SubmitConnect(op, s)
         \/ \E t \in Socks : SubmitAccept(op, s, t)
  PROVE  Abstract!Next
<1>1. ASSUME NEW type, MayStart(op, type, s), NEW w, w.sock = s, w.type = type, Begins(op, w)
      PROVE  Abstract!Next
  <2>1. \A p \in Ops :
          (Running(p) /\ await[p].sock = w.sock /\ Dir(await[p].type) = Dir(w.type)) => Overlap
    BY <1>1 DEF MayStart
  <2> QED BY <1>1, <2>1, BeginsRefines
<1>2. ASSUME NEW type \in Types, NEW len \in {0, 1}, SubmitTransfer(op, type, s, len)
      PROVE  Abstract!Next
  <2> DEFINE w == Wait(type, s, NoSock, len)
  <2>1. w.sock = s /\ w.type = type BY DEF Wait
  <2> HIDE DEF w
  <2>2. Begins(op, w) BY <1>2, SubmitTransferWaits, SubmitTransferTries DEF w
  <2>3. MayStart(op, type, s) BY <1>2 DEF SubmitTransfer
  <2> QED BY <1>1, <2>1, <2>2, <2>3
<1>3. CASE SubmitConnect(op, s)
  <2> DEFINE w == Wait("CONNECT", s, NoSock, 1)
  <2>1. w.sock = s /\ w.type = "CONNECT" BY DEF Wait
  <2> HIDE DEF w
  <2>2. Begins(op, w) BY <1>3, SubmitConnectBegins DEF w
  <2>3. MayStart(op, "CONNECT", s) BY <1>3 DEF SubmitConnect
  <2> QED BY <1>1, <2>1, <2>2, <2>3
<1>4. ASSUME NEW t \in Socks, SubmitAccept(op, s, t) PROVE Abstract!Next
  <2> DEFINE w == Wait("ACCEPT", s, t, 1)
  <2>1. w.sock = s /\ w.type = "ACCEPT" BY DEF Wait
  <2> HIDE DEF w
  <2>2. Begins(op, w) BY <1>4, SubmitAcceptBegins DEF w
  <2>3. MayStart(op, "ACCEPT", s) BY <1>4 DEF SubmitAccept
  <2> QED BY <1>1, <2>1, <2>2, <2>3
<1> QED BY <1>2, <1>3, <1>4

LEMMA DispatchRefines == ASSUME CoreInv, Dispatch PROVE Abstract!Next
<1>1. PICK h \in Socks, d \in Dirs, op \in Ops : Ends(h, d, op) /\ h \in Keys
  BY DispatchEnds
<1>2. /\ UNCHANGED <<it, pc, await, dropped>> /\ Waits(h, d, op)
      /\ \A g \in Keys, c \in Dirs :
           \/ (g # h \/ c # d) /\ socks'[g][c] = socks[g][c]
           \/ g = h /\ c = d /\ ~socks'[g][c].active
  BY <1>1 DEF Ends
<1>3. LoopInv /\ SlotInv BY DEF CoreInv, TypesInv
<1>4. op \in Pending BY <1>1, <1>2, PendingOps
<1>5. op \notin dropped BY <1>1, <1>2, <1>3 DEF SlotInv, Holds
<1>6. \A g \in Keys, c \in Dirs, q \in Ops :
        Waits(g, c, q)' <=> Waits(g, c, q) /\ (g # h \/ c # d)
  BY <1>2 DEF Waits
<1>7. \A g \in Keys, c \in Dirs, q \in Ops :
        Waits(g, c, q) => ((g # h \/ c # d) <=> q # op)
  BY <1>1, <1>2, <1>3, OneSlot DEF Waits
<1>8. \A q : q \in Pending' <=> q \in Pending /\ q # op
  BY <1>2, <1>5, <1>6, <1>7, PendingOps, PendingOpsNext
<1>9. Pending' = Pending \ {op} BY <1>8
<1>10. PICK ev \in Events : ev.cb = op /\ waitset' = SubmitComplete(waitset, ev)
  BY <1>1 DEF Ends, Posts
<1>11. DueNow' = Append(DueNow, op) /\ Active' = Active BY <1>2, <1>3, <1>10, DueAppended
<1>12. StartedOps' = StartedOps BY <1>2 DEF StartedOps
<1> QED BY <1>4, <1>9, <1>11, <1>12, AbstractComplete

LEMMA ReplacedPending ==
  ASSUME CoreInv, NEW k, Replaces(k) PROVE Pending' = Pending
<1>1. DropsOnly(k) BY ReplacesDrops
<1>2. dropped' = dropped \cup Waiting(k) /\ k \in Keys BY DEF Replaces
<1>3. \A q : q \in Waiting(k) <=> q \in Ops /\ \E d \in Dirs : Waits(k, d, q)
  BY DEF Waiting, Waits, Dirs
<1>4. \A h \in Keys, d \in Dirs, q \in Ops : Waits(h, d, q)' => Waits(h, d, q)
  BY <1>1 DEF DropsOnly
<1>5. \A h \in Keys : h # k => socks'[h] = socks[h]
  BY DEF Replaces, CoreInv, TypesInv, Tables
<1>6. \A h \in Keys, d \in Dirs, q \in Ops : Waits(h, d, q) => h = k \/ Waits(h, d, q)'
  BY <1>5 DEF Waits
<1>7. \A q : q \in Pending' <=> q \in Pending
  BY <1>2, <1>3, <1>4, <1>6, PendingOps, PendingOpsNext
<1> QED BY <1>7

LEMMA PendingSame == ASSUME UNCHANGED <<socks, dropped>> PROVE Pending' = Pending
  BY DEF Pending, Waiting

LEMMA StartCallbackRefines == ASSUME CoreInv, StartCallback PROVE Abstract!Next
<1>1. PICK op \in Ops :
        /\ Calls(op) /\ LoopInv'
        /\ IF await[op].type = "ACCEPT" /\ waitset[1].error = 0
           THEN await[op].target \in Socks /\ Replaces(Key(await[op].target))
           ELSE UNCHANGED <<socks, dropped>>
  BY StartCallbackCalls
<1>2. /\ pc = "scan" /\ pc' = "callback" /\ 1 \in 1..Len(waitset)
      /\ UNCHANGED <<waitset, it, await>>
  BY <1>1 DEF Calls
<1>3. waitset \in Seq(CompletedEvents) /\ it = 1 BY DEF CoreInv, TypesInv, LoopInv
<1>4. waitset # <<>> BY <1>2, <1>3, EmptySeq
<1>5. CallbacksOf(waitset) # <<>> /\ Head(CallbacksOf(waitset)) = waitset[1].cb
  BY <1>3, <1>4, CallbacksOfTail
<1>6. Callbacks = CallbacksOf(waitset) /\ Callbacks' = Callbacks
  BY <1>2 DEF Callbacks, CallbacksOf
<1>7. StartedOps' = StartedOps BY <1>2 DEF StartedOps
<1>8. Pending' = Pending BY <1>1, ReplacedPending, PendingSame
<1>9. Active = NoOp /\ DueNow = Callbacks BY <1>2 DEF Active, DueNow
<1>10. Active' = waitset[1].cb /\ DueNow' = Tail(Callbacks)
  BY <1>2, <1>3, <1>6 DEF Active, DueNow
<1> QED BY <1>5, <1>6, <1>7, <1>8, <1>9, <1>10, AbstractCall

LEMMA EndCallbackRefines == ASSUME CoreInv, EndCallback PROVE Abstract!Next
<1>1. /\ pc = "callback" /\ pc' = "scan" /\ it = 1 /\ waitset # <<>>
      /\ waitset \in Seq(CompletedEvents)
      /\ waitset' = RemoveAt(waitset, 1)
      /\ UNCHANGED <<await, socks, dropped>>
  BY DEF EndCallback, Return, selectVars, calls, CoreInv, TypesInv, LoopInv
<1>2. waitset' = Tail(waitset) BY <1>1, EraseFirst
<1>3. CallbacksOf(waitset') = Tail(CallbacksOf(waitset)) BY <1>1, <1>2, CallbacksOfTail
<1>4. DueNow' = DueNow BY <1>1, <1>3 DEF DueNow, Callbacks, CallbacksOf
<1>5. Active # NoOp
  <2>1. 1 \in 1..Len(waitset) BY <1>1, EmptySeq
  <2>2. waitset[1] \in CompletedEvents BY <1>1, <2>1, ElementOfSeq
  <2> QED BY <1>1, <2>2, NoOpAssumption DEF Active, CompletedEvents
<1>6. Active' = NoOp BY <1>1 DEF Active
<1>7. StartedOps' = StartedOps BY <1>1 DEF StartedOps
<1>8. Pending' = Pending BY <1>1, PendingSame
<1> QED BY <1>4, <1>5, <1>6, <1>7, <1>8, AbstractFinish

(* Steps the abstract specification does not see. *)
LEMMA UnseenSteps ==
  ASSUME UNCHANGED <<waitset, it, await>>, Pending' = Pending,
         pc' = "callback" <=> pc = "callback"
  PROVE  UNCHANGED Abstract!absVars
<1>1. StartedOps' = StartedOps BY DEF StartedOps
<1>2. Callbacks' = Callbacks BY DEF Callbacks
<1>3. DueNow' = DueNow /\ Active' = Active BY <1>2 DEF DueNow, Active
<1> QED BY <1>1, <1>3, AbstractUnchanged

LEMMA StutterRefines ==
  ASSUME CoreInv,
         \/ StartRun \/ LoopTest \/ StartWait \/ UserEnd \/ SelectFails \/ Select
         \/ WaitReturns \/ UNCHANGED vars
         \/ \E s \in Socks : CloseSock(s) \/ NetworkStep(s)
  PROVE  UNCHANGED Abstract!absVars
<1>1. it = 1 BY DEF CoreInv, TypesInv, LoopInv
<1>2. CASE \/ StartRun \/ LoopTest \/ StartWait \/ UserEnd \/ SelectFails \/ Select
           \/ WaitReturns \/ UNCHANGED vars
  <2>1. Quiet /\ LoopInv' BY <1>2, QuietSteps
  <2>2. /\ UNCHANGED <<waitset, await, socks, dropped>> /\ it' = 1
        /\ pc' = "callback" <=> pc = "callback"
    BY <2>1 DEF Quiet, LoopInv
  <2> QED BY <1>1, <2>2, PendingSame, UnseenSteps
<1>3. ASSUME NEW s \in Socks, CloseSock(s) PROVE UNCHANGED Abstract!absVars
  <2>1. /\ UNCHANGED <<waitset, it, pc, await>>
        /\ socks' = [socks EXCEPT ![Key(s)] = SockEvent]
        /\ dropped' = dropped \cup Waiting(Key(s))
    BY <1>3 DEF CloseSock, loopVars
  <2>2. Replaces(Key(s)) BY <2>1, KeyTyped DEF Replaces
  <2>3. Pending' = Pending BY <2>2, ReplacedPending
  <2> QED BY <2>1, <2>3, UnseenSteps
<1>4. ASSUME NEW s \in Socks, NetworkStep(s) PROVE UNCHANGED Abstract!absVars
  <2>1. PICK fd : External(s, fd) BY <1>4, NetworkExternal
  <2>2. UNCHANGED <<waitset, it, pc, await, socks, dropped>>
    BY <2>1 DEF External, loopVars, calls
  <2> QED BY <2>2, PendingSame, UnseenSteps
<1> QED BY <1>2, <1>3, <1>4

LEMMA StepRefines ==
  CoreInv /\ (Overlap \/ OneInvalid) /\ [Next]_vars => [Abstract!Next]_(Abstract!absVars)
<1> SUFFICES ASSUME CoreInv, Overlap \/ OneInvalid, [Next]_vars
             PROVE  [Abstract!Next]_(Abstract!absVars)
  OBVIOUS
<1>1. ASSUME NEW op \in Ops, NEW s \in Socks,
             \/ \E type \in Types, len \in {0, 1} : SubmitTransfer(op, type, s, len)
             \/ SubmitConnect(op, s)
             \/ \E t \in Socks : SubmitAccept(op, s, t)
      PROVE  Abstract!Next
  BY <1>1, SubmitRefines
<1>2. CASE \/ StartRun \/ LoopTest \/ StartWait \/ UserEnd \/ SelectFails \/ Select
           \/ WaitReturns \/ UNCHANGED vars
           \/ \E s \in Socks : CloseSock(s) \/ NetworkStep(s)
  BY <1>2, StutterRefines
<1>3. CASE EndCallback BY <1>3, EndCallbackRefines
<1>4. CASE StartCallback BY <1>4, StartCallbackRefines
<1>5. CASE Dispatch BY <1>5, DispatchRefines
<1> QED BY <1>1, <1>2, <1>3, <1>4, <1>5 DEF Next, LoopStep, NetworkStep

(* An operation waits in its slot until it completes or its entry is       *)
(* erased, and each completes once and is called back in order.  Nothing   *)
(* is displaced unless a second operation, which is not an accept, is      *)
(* started in its direction, as long as no two objects hold INVALID_SOCKET *)
(* at once (winevent.h:81-96, 185-190, wineventimpl.h:20-36, 204-315).     *)
THEOREM SelectImplementsAsyncOps == Spec /\ [](Overlap \/ OneInvalid) => ImplementsAsyncOps
<1>1. Init => Abstract!Init BY InitRefines
<1>2. CoreInv /\ (Overlap \/ OneInvalid) /\ [Next]_vars => [Abstract!Next]_(Abstract!absVars)
  BY StepRefines
<1> QED BY <1>1, <1>2, AlwaysCore, PTL DEF Spec, ImplementsAsyncOps, Abstract!Spec

(* Only a TCP socket that accepted can hold INVALID_SOCKET, so a program   *)
(* with one of them is served as promised without any hypothesis.          *)
THEOREM OneTcpImplementsAsyncOps ==
  ASSUME \A s, t \in Socks : (Kind[s] = "TCP" /\ Kind[t] = "TCP") => s = t
  PROVE  Spec => ImplementsAsyncOps
<1>1. CoreInv => OneInvalid BY DEF CoreInv, KernelInv, OneInvalid
<1>2. CoreInv => (Overlap \/ OneInvalid) BY <1>1
<1>3. Spec => [](Overlap \/ OneInvalid) BY <1>2, AlwaysCore, PTL
<1> QED BY <1>3, SelectImplementsAsyncOps
=============================================================================
