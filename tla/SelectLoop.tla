----------------------------- MODULE SelectLoop -----------------------------
(***************************************************************************)
(* WinSockSelect (winevent.h, wineventimpl.h), the second Windows handler, *)
(* which waits in select(), on the loop of module Context.  Unlike the     *)
(* epoll handler it has a slot for each direction of a socket; unlike the  *)
(* completion port it tries each call itself.                              *)
(*                                                                         *)
(* A WinSock object is named by the SOCKET value it gets, a natural number *)
(* because socks_ is ordered by it.  Winsock and the network are external. *)
(* Left out: direct calls, shutdown, sockets used after they were closed,  *)
(* transfers of more than one unit at a time, and a second accept on an    *)
(* acceptor before the callback of the first: AcceptCallback would call    *)
(* whatever Acceptor::waiting_ holds by then (acceptor.h:65-78), which     *)
(* module Epoll models for both systems.                                   *)
(***************************************************************************)
EXTENDS Context, FiniteSetsExt

CONSTANTS Socks, NoSock,
          Kind,            \* "LISTEN", "TCP" or "UDP"
          Fresh,           \* TCP sockets that may be built without a descriptor
          INVALID_SOCKET,  \* what a failed accept() returns
          FdSetSize,       \* FD_SETSIZE, 64 in the code
          MaxIn,           \* bound on what is queued at a socket
          Overlap          \* does the program start a second operation, not an
                           \* accept, in a direction that has one?

ASSUME SelectAssumption ==
  /\ Socks \subseteq Nat
  /\ NoSock \notin Socks
  /\ Kind \in [Socks -> {"LISTEN", "TCP", "UDP"}]
  /\ Fresh \subseteq {s \in Socks : Kind[s] = "TCP"}
  /\ INVALID_SOCKET \in Nat /\ \A s \in Socks : s < INVALID_SOCKET
  /\ FdSetSize \in Nat \ {0}
  /\ MaxIn \in Nat \ {0}
  /\ Overlap \in BOOLEAN

VARIABLES handle,    \* sock_ of each object: none, a socket, or INVALID_SOCKET
          kernel,    \* what Winsock knows of each socket
          socks,     \* socks_, the SockEvent of each SOCKET
          rs, ws,    \* the sockets select() reported and Wait has not served
          await,     \* the type, socket, target and length of each operation
          told,      \* what its callback was told
          runs,      \* history: how often it ran (2: more than once)
          units,     \* history: calls that moved something for it (2: more)
          empties,   \* history: calls that moved an empty datagram for it
          dropped,   \* history: operations whose SockEvent was erased
          vanished   \* history: did a connection leave a queue by itself?

calls == <<await, told, runs, units, empties, dropped>>
vars == <<waitset, it, canContinue, pc, handle, kernel, socks, rs, ws, await, told,
          runs, units, empties, dropped, vanished>>

InTypes == {"READ", "RECVFROM", "ACCEPT"}
OutTypes == {"WRITE", "SENDTO", "CONNECT"}
Types == InTypes \cup OutTypes

(* The operations a kind of socket offers. *)
Offers(kind) ==
  CASE kind = "LISTEN" -> {"ACCEPT"}
    [] kind = "TCP" -> {"READ", "WRITE", "CONNECT"}
    [] kind = "UDP" -> {"RECVFROM", "SENDTO"}

Keys == Socks \cup {INVALID_SOCKET}

(* The key of an object in socks_. *)
Key(s) == IF handle[s] = "invalid" THEN INVALID_SOCKET ELSE s

Slots == [type : Types \cup {"unset"}, op : Ops \cup {NoOp},
          data : Socks \cup {NoSock}, processing : BOOLEAN, active : BOOLEAN]

NewSlot == [type |-> "unset", op |-> NoOp, data |-> NoSock,
            processing |-> FALSE, active |-> FALSE]

(* Mutant: processing starts as true. *)
SockEventProcessing == [in |-> [NewSlot EXCEPT !.processing = TRUE], out |-> NewSlot]

(* SockEvent(): a socket that socks_ does not hold behaves like one with   *)
(* a new entry, so erase() is modelled by it too.                          *)
SockEvent == [in |-> NewSlot, out |-> NewSlot]

Dir(type) == IF type \in InTypes THEN "in" ELSE "out"

(* AddEvent and SockEventData::Set, which leaves processing alone. *)
AddEvent(entry, type, op, data) ==
  [entry EXCEPT ![Dir(type)] =
     [@ EXCEPT !.type = type, !.op = op, !.data = data, !.active = TRUE]]

(* conn: of a TCP socket; inq: the lengths of what is queued to be read or *)
(* accepted; room: is there room to send?                                  *)
Fds == [conn : {"closed", "idle", "connecting", "est", "refused"},
        inq : SeqOf({0, 1}, MaxIn), fin : BOOLEAN, reset : BOOLEAN, room : BOOLEAN]

ClosedFd == [conn |-> "closed", inq |-> <<>>, fin |-> FALSE, reset |-> FALSE, room |-> FALSE]
AcceptedFd == [ClosedFd EXCEPT !.conn = "est", !.room = TRUE]

NewFd(kind) ==
  [ClosedFd EXCEPT !.conn = IF kind = "TCP" THEN "idle" ELSE "est", !.room = kind = "UDP"]

Unissued == [type |-> "unset", sock |-> NoSock, target |-> NoSock, len |-> 1]

TypeOK ==
  /\ LoopTypeOK
  /\ handle \in [Socks -> {"none", "open", "invalid"}]
  /\ kernel \in [Socks -> Fds]
  /\ socks \in [Keys -> [in : Slots, out : Slots]]
  /\ rs \subseteq Socks /\ ws \subseteq Socks
  /\ await \in [Ops -> [type : Types \cup {"unset"}, sock : Socks \cup {NoSock},
                        target : Socks \cup {NoSock}, len : {0, 1}]]
  /\ told \in [Ops -> {"nothing", "ok", "zero", "error", "invalid"}]
  /\ runs \in [Ops -> 0..2] /\ units \in [Ops -> 0..2] /\ empties \in [Ops -> 0..2]
  /\ dropped \subseteq Ops
  /\ vanished \in BOOLEAN

Init ==
  /\ LoopInit
  /\ \E bare \in SUBSET Fresh :
       /\ handle = [s \in Socks |-> IF s \in bare THEN "none" ELSE "open"]
       /\ kernel = [s \in Socks |-> IF s \in bare THEN ClosedFd ELSE NewFd(Kind[s])]
  /\ socks = [h \in Keys |-> SockEvent]
  /\ rs = {} /\ ws = {}
  /\ await = [op \in Ops |-> Unissued]
  /\ told = [op \in Ops |-> "nothing"]
  /\ runs = [op \in Ops |-> 0]
  /\ units = [op \in Ops |-> 0]
  /\ empties = [op \in Ops |-> 0]
  /\ dropped = {}
  /\ vanished = FALSE

-----------------------------------------------------------------------------
(* The calls of winsock.h, as the possible outcomes: r is what the Try...  *)
(* function returns, again that it met WSAEWOULDBLOCK, unit what it moved  *)
(* (a length, or -1 for nothing), fd what it leaves of the socket.         *)
WSAECONNRESET == 10054
WSAENOTCONN == 10057
WSAEALREADY == 10037
WSAEISCONN == 10056
WSAEWOULDBLOCK == 10035
Errors == {WSAECONNRESET, WSAENOTCONN, WSAEALREADY, WSAEISCONN}

Failed(fd, err) == [r |-> -err, again |-> FALSE, unit |-> -1, fd |-> fd]
WouldBlock(fd) == [r |-> 0, again |-> TRUE, unit |-> -1, fd |-> fd]

(* TryRead and TryRecvfrom. *)
Recv(fd) ==
  IF fd.reset THEN {Failed(fd, WSAECONNRESET)}
  ELSE IF fd.conn # "est" THEN {Failed(fd, WSAENOTCONN)}
  ELSE IF fd.inq # <<>>
  THEN {[r |-> Head(fd.inq), again |-> FALSE, unit |-> Head(fd.inq),
         fd |-> [fd EXCEPT !.inq = Tail(@)]]}
  ELSE IF fd.fin THEN {[r |-> 0, again |-> FALSE, unit |-> -1, fd |-> fd]}
  ELSE {WouldBlock(fd)}

(* TryWrite and TrySendto. *)
Send(fd, len) ==
  IF fd.reset THEN {Failed(fd, WSAECONNRESET)}
  ELSE IF fd.conn # "est" THEN {Failed(fd, WSAENOTCONN)}
  ELSE IF fd.room
  THEN {[r |-> len, again |-> FALSE, unit |-> len, fd |-> [fd EXCEPT !.room = more]] :
          more \in BOOLEAN}
  ELSE {WouldBlock(fd)}

Try(s, type, len) == IF Dir(type) = "in" THEN Recv(kernel[s]) ELSE Send(kernel[s], len)

(* WinSock::Connect returns an error code. *)
Connect(fd) ==
  CASE fd.reset -> WSAECONNRESET
    [] ~fd.reset /\ fd.conn = "est" -> WSAEISCONN
    [] ~fd.reset /\ fd.conn = "connecting" -> WSAEALREADY
    [] OTHER -> WSAEWOULDBLOCK

More(n) == IF n = 2 THEN 2 ELSE n + 1

(* What a call that moved something leaves in the histories. *)
Moved(op, unit) ==
  /\ units' = [units EXCEPT ![op] = IF unit = 1 THEN More(@) ELSE @]
  /\ empties' = [empties EXCEPT ![op] = IF unit = 0 THEN More(@) ELSE @]

(* accept(): a SOCKET is unsigned, so `newsock < 0` is false, and whatever *)
(* accept() returned is stored in the target as a success.                 *)
AcceptInto(s, t, op) ==
  LET taken == kernel[s].inq # <<>>
  IN /\ handle' = [handle EXCEPT ![t] = IF taken THEN "open" ELSE "invalid"]
     /\ kernel' = [kernel EXCEPT ![s].inq = IF taken THEN Tail(@) ELSE @,
                                 ![t] = IF taken THEN AcceptedFd ELSE ClosedFd]
     /\ Moved(op, IF taken THEN 1 ELSE -1)

-----------------------------------------------------------------------------
(* The program's calls.                                                    *)

Running(op) == await[op] # Unissued /\ runs[op] = 0

(* The target of an accept belongs to it until its callback ran. *)
Usable(s) ==
  /\ handle[s] # "none"
  /\ \A p \in Ops : Running(p) => await[p].target # s

MayStart(op, type, s) ==
  /\ pc \in {"setup", "callback"}
  /\ await[op] = Unissued
  /\ Usable(s)
  /\ type \in Offers(Kind[s])
  /\ \A p \in Ops : (Running(p) /\ await[p].sock = s /\ Dir(await[p].type) = Dir(type))
                      => Overlap /\ type # "ACCEPT"

Started(op, type, s, t, len) ==
  await' = [await EXCEPT ![op] = [type |-> type, sock |-> s, target |-> t, len |-> len]]

(* The event of a finished call. *)
Finished(op, r) ==
  IF r < 0 THEN [Event(op) EXCEPT !.status = "ERR", !.error = -r]
           ELSE [Event(op) EXCEPT !.status = "COMPLETED", !.res = r]

(* On the spot the status of a success is left to SubmitComplete. *)
AtOnce(op, r) == IF r < 0 THEN Finished(op, r) ELSE [Event(op) EXCEPT !.res = r]

(* Mutant: only errors complete on the spot. *)
DoneAtOnceIfError(r) == r < 0

(* if (len < 0) ... else if (len != 0): zero stands for would-block, for   *)
(* the end of the stream and for an empty datagram.                        *)
DoneAtOnce(r) == r # 0

(* SubmitRead, SubmitWrite, SubmitRecvfrom and SubmitSendto. *)
SubmitTransfer(op, type, s, len) ==
  /\ type \notin {"ACCEPT", "CONNECT"}
  /\ len = 0 => type = "SENDTO"
  /\ MayStart(op, type, s)
  /\ Started(op, type, s, NoSock, len)
  /\ LET h == Key(s)
         d == Dir(type)
         entry == AddEvent(socks[h], type, op, NoSock)
     IN IF ~entry[d].processing
        THEN /\ socks' = [socks EXCEPT ![h] = entry]
             /\ UNCHANGED <<waitset, kernel, units, empties>>
        ELSE \E t \in Try(s, type, len) :
               /\ socks' = [socks EXCEPT ![h] =
                     [entry EXCEPT ![d].active = ~DoneAtOnce(t.r),
                                   ![d].processing = ~t.again]]
               /\ kernel' = [kernel EXCEPT ![s] = t.fd]
               /\ Moved(op, t.unit)
               /\ waitset' = IF DoneAtOnce(t.r)
                             THEN SubmitComplete(waitset, AtOnce(op, t.r)) ELSE waitset
  /\ UNCHANGED <<it, canContinue, pc, handle, rs, ws, told, runs, dropped, vanished>>

(* SubmitConnect; connect() on a non-blocking socket never succeeds at     *)
(* once.                                                                   *)
SubmitConnect(op, s) ==
  /\ MayStart(op, "CONNECT", s)
  /\ handle[s] = "open"
  /\ Started(op, "CONNECT", s, NoSock, 1)
  /\ LET err == Connect(kernel[s])
     IN IF err = WSAEWOULDBLOCK
        THEN /\ kernel' = [kernel EXCEPT ![s].conn = "connecting"]
             /\ socks' = [socks EXCEPT ![s] = AddEvent(@, "CONNECT", op, NoSock)]
             /\ UNCHANGED waitset
        ELSE /\ waitset' = SubmitComplete(waitset, Finished(op, -err))
             /\ UNCHANGED <<kernel, socks>>
  /\ UNCHANGED <<it, canContinue, pc, handle, rs, ws, told, runs, units, empties,
                 dropped, vanished>>

(* SubmitAccept: TryAccept always returns 0, so nothing completes here,    *)
(* not even an accept that took a connection.                              *)
SubmitAccept(op, s, t) ==
  /\ MayStart(op, "ACCEPT", s)
  /\ Kind[t] = "TCP" /\ handle[t] = "none"
  /\ \A p \in Ops : Running(p) => await[p].target # t
  /\ Started(op, "ACCEPT", s, t, 1)
  /\ socks' = [socks EXCEPT ![s] = AddEvent(@, "ACCEPT", op, t)]
  /\ IF socks[s].in.processing THEN AcceptInto(s, t, op)
                               ELSE UNCHANGED <<handle, kernel, units, empties>>
  /\ UNCHANGED <<loopVars, rs, ws, told, runs, dropped, vanished>>

(* The operations that wait in the entry of a SOCKET. *)
Waiting(h) == {op \in Ops : \E d \in {"in", "out"} : socks[h][d].active /\ socks[h][d].op = op}

CloseSock(s) ==
  /\ pc \in {"setup", "callback"}
  /\ Usable(s)
  /\ socks' = [socks EXCEPT ![Key(s)] = SockEvent]
  /\ dropped' = dropped \cup Waiting(Key(s))
  /\ handle' = [handle EXCEPT ![s] = "none"]
  /\ kernel' = [kernel EXCEPT ![s] = ClosedFd]
  /\ UNCHANGED <<loopVars, rs, ws, await, told, runs, units, empties, vanished>>

-----------------------------------------------------------------------------
(* Wait.                                                                   *)

(* FD_SET ignores what no longer fits; socks_ is walked in order. *)
FirstKeys(S) == {h \in S : Cardinality({g \in S : g < h}) < FdSetSize}

(* Mutant: only the sockets to read are watched. *)
WatchedIn(d) == IF d = "in" THEN FirstKeys({h \in Keys : socks[h][d].active}) ELSE {}

(* InitSet *)
Watched(d) == FirstKeys({h \in Keys : socks[h][d].active})

(* External: when select() reports a socket of readfds (d is "in") or of   *)
(* writefds; a refused connect it reports in exceptfds only.               *)
Ready(fd, d) ==
  \/ fd.reset
  \/ fd.conn = "est" /\ IF d = "in" THEN fd.inq # <<>> \/ fd.fin ELSE fd.room

(* Mutant: the sockets to write are passed as exceptfds, too. *)
SelectedOrRefused(d) ==
  {h \in Watched(d) : \/ Ready(kernel[h], d)
                      \/ d = "out" /\ kernel[h].conn = "refused"}

(* select(maxfds + 1, &rs_, &ws_, nullptr, NULL): there are no exceptfds.  *)
Selected(d) == {h \in Watched(d) : Ready(kernel[h], d)}

(* select() fails with WSAEINVAL on two empty sets, with WSAENOTSOCK on an *)
(* invalid socket, and Wait returns -1, which Run ignores.                 *)
SelectFails ==
  /\ pc = "wait"
  /\ \/ Watched("in") \cup Watched("out") = {}
     \/ INVALID_SOCKET \in Watched("in") \cup Watched("out")
  /\ pc' = "top"
  /\ UNCHANGED <<waitset, it, canContinue, handle, kernel, socks, rs, ws, calls, vanished>>

Select ==
  /\ pc = "wait"
  /\ INVALID_SOCKET \notin Watched("in") \cup Watched("out")
  /\ rs' = Selected("in")
  /\ ws' = Selected("out")
  /\ rs' \cup ws' # {}
  /\ pc' = "dispatch"
  /\ UNCHANGED <<waitset, it, canContinue, handle, kernel, socks, calls, vanished>>

(* Mutant: the direction stays active. *)
ServedKeepsActive(slot, again) == [slot EXCEPT !.processing = ~again]

(* ractivated or wactivated = false; processing was set before the call. *)
Served(slot, again) == [slot EXCEPT !.active = FALSE, !.processing = ~again]

Dispatching(h, d) ==
  /\ pc = "dispatch"
  /\ h \in (IF d = "in" THEN rs ELSE ws)
  /\ \A g \in rs \cup ws : h < g \/ (h = g /\ (d = "out" => h \notin rs))
  /\ rs' = IF d = "in" THEN rs \ {h} ELSE rs
  /\ ws' = IF d = "out" THEN ws \ {h} ELSE ws

DispatchTransfer(h, d) ==
  /\ Dispatching(h, d)
  /\ LET slot == socks[h][d] IN
     /\ slot.type \notin {"ACCEPT", "CONNECT"}
     /\ \E t \in Try(h, slot.type, await[slot.op].len) :
          /\ socks' = [socks EXCEPT ![h][d] = Served(slot, t.again)]
          /\ kernel' = [kernel EXCEPT ![h] = t.fd]
          /\ Moved(slot.op, t.unit)
          /\ waitset' = SubmitComplete(waitset, Finished(slot.op, t.r))
  /\ UNCHANGED <<it, canContinue, pc, handle, await, told, runs, dropped, vanished>>

DispatchAccept(h) ==
  /\ Dispatching(h, "in")
  /\ LET slot == socks[h].in IN
     /\ slot.type = "ACCEPT"
     /\ AcceptInto(h, slot.data, slot.op)
     /\ socks' = [socks EXCEPT ![h].in = Served(slot, FALSE)]
     /\ waitset' = SubmitComplete(waitset, Finished(slot.op, 0))
  /\ UNCHANGED <<it, canContinue, pc, await, told, runs, dropped, vanished>>

(* The second connect(): success is that it fails with WSAEISCONN. *)
DispatchConnect(h) ==
  /\ Dispatching(h, "out")
  /\ LET slot == socks[h].out
         err == Connect(kernel[h])
     IN /\ slot.type = "CONNECT"
        /\ socks' = [socks EXCEPT ![h].out.active = FALSE]
        /\ waitset' = SubmitComplete(waitset,
                        Finished(slot.op, IF err = WSAEISCONN THEN 0 ELSE -err))
  /\ UNCHANGED <<it, canContinue, pc, handle, kernel, calls, vanished>>

WaitReturns ==
  /\ pc = "dispatch"
  /\ rs \cup ws = {}
  /\ pc' = "top"
  /\ UNCHANGED <<waitset, it, canContinue, handle, kernel, socks, rs, ws, calls, vanished>>

-----------------------------------------------------------------------------
(* The loop.                                                               *)
selectVars == <<handle, kernel, socks, rs, ws, calls, vanished>>

StartRun == Run /\ UNCHANGED selectVars
LoopTest == Enter /\ UNCHANGED selectVars
EndCallback == Return /\ UNCHANGED selectVars
StartWait == EnterWait /\ UNCHANGED selectVars
UserEnd == End /\ UNCHANGED selectVars

(* What the awaitables return, and whether an accepted socket is one. *)
Tells(ev) ==
  IF ev.error # 0 THEN "error"
  ELSE CASE await[ev.cb].type = "ACCEPT" ->
              IF handle[await[ev.cb].target] = "open" THEN "ok" ELSE "invalid"
         [] await[ev.cb].type = "CONNECT" -> "ok"
         [] OTHER -> IF ev.res = 0 THEN "zero" ELSE "ok"

(* Complete(); Acceptor::waiting_ still holds the accept that completed,   *)
(* and its AcceptAwait::Resume calls Setup, which registers the target and *)
(* so replaces its entry.                                                  *)
StartCallback ==
  /\ Scan
  /\ LET ev == waitset[it]
         t == await[ev.cb].target
     IN IF ~Due(ev) THEN UNCHANGED <<socks, told, runs, dropped>>
        ELSE /\ runs' = [runs EXCEPT ![ev.cb] = More(@)]
             /\ told' = [told EXCEPT ![ev.cb] = Tells(ev)]
             /\ IF await[ev.cb].type = "ACCEPT" /\ ev.error = 0
                THEN /\ socks' = [socks EXCEPT ![Key(t)] = SockEvent]
                     /\ dropped' = dropped \cup Waiting(Key(t))
                ELSE UNCHANGED <<socks, dropped>>
  /\ UNCHANGED <<handle, kernel, rs, ws, await, units, empties, vanished>>

-----------------------------------------------------------------------------
(* External: the network.                                                  *)
Network(s, fd) ==
  /\ pc # "done"
  /\ kernel' = [kernel EXCEPT ![s] = fd]
  /\ UNCHANGED <<loopVars, handle, socks, rs, ws, calls>>

(* A byte, a datagram, or a connection to accept. *)
Arrive(s, len) ==
  /\ kernel[s].conn = "est" /\ ~kernel[s].fin /\ ~kernel[s].reset
  /\ len = 0 => Kind[s] = "UDP"
  /\ Len(kernel[s].inq) < MaxIn
  /\ Network(s, [kernel[s] EXCEPT !.inq = Append(@, len)])
  /\ UNCHANGED vanished

(* A connection that was queued is reset by its peer. *)
Vanish(s) ==
  /\ Kind[s] = "LISTEN" /\ kernel[s].inq # <<>>
  /\ Network(s, [kernel[s] EXCEPT !.inq = Tail(@)])
  /\ vanished' = TRUE

PeerFin(s) ==
  /\ Kind[s] = "TCP" /\ kernel[s].conn = "est" /\ ~kernel[s].fin
  /\ Network(s, [kernel[s] EXCEPT !.fin = TRUE])
  /\ UNCHANGED vanished

PeerReset(s) ==
  /\ Kind[s] = "TCP" /\ kernel[s].conn = "est" /\ ~kernel[s].reset
  /\ Network(s, [kernel[s] EXCEPT !.reset = TRUE, !.inq = <<>>, !.fin = FALSE, !.room = FALSE])
  /\ UNCHANGED vanished

Answer(s) ==
  /\ kernel[s].conn = "connecting"
  /\ \/ Network(s, AcceptedFd)
     \/ Network(s, [kernel[s] EXCEPT !.conn = "refused"])
  /\ UNCHANGED vanished

Drain(s) ==
  /\ kernel[s].conn = "est" /\ ~kernel[s].reset /\ Kind[s] # "LISTEN" /\ ~kernel[s].room
  /\ Network(s, [kernel[s] EXCEPT !.room = TRUE])
  /\ UNCHANGED vanished

-----------------------------------------------------------------------------
Dispatch == \E h \in Socks :
  \/ DispatchTransfer(h, "in") \/ DispatchTransfer(h, "out")
  \/ DispatchAccept(h) \/ DispatchConnect(h)

LoopStep ==
  LoopTest \/ StartCallback \/ StartWait \/ SelectFails \/ Select \/ Dispatch \/ WaitReturns

Next ==
  \/ \E op \in Ops, s \in Socks :
       \/ \E type \in Types, len \in {0, 1} : SubmitTransfer(op, type, s, len)
       \/ SubmitConnect(op, s)
       \/ \E t \in Socks : SubmitAccept(op, s, t)
  \/ \E s \in Socks :
       \/ CloseSock(s)
       \/ \E len \in {0, 1} : Arrive(s, len)
       \/ Vanish(s) \/ PeerFin(s) \/ PeerReset(s) \/ Answer(s) \/ Drain(s)
  \/ StartRun \/ EndCallback \/ UserEnd
  \/ LoopStep

Spec == Init /\ [][Next]_vars

(* The loop's thread keeps running and the program's own code returns. *)
Fairness == WF_vars(LoopStep) /\ WF_vars(StartRun \/ EndCallback)

FairSpec == Spec /\ Fairness

-----------------------------------------------------------------------------
Callbacks == [i \in 1..Len(waitset) |-> waitset[i].cb]

Abstract ==
  INSTANCE AsyncOps WITH
    MayDrop <- Overlap,
    started <- {op \in Ops : await[op] # Unissued},
    pending <- (UNION {Waiting(h) : h \in Keys}) \cup dropped,
    due <- IF pc = "callback" THEN Tail(Callbacks) ELSE Callbacks,
    active <- IF pc = "callback" THEN waitset[it].cb ELSE NoOp

(* With a slot for each direction nothing a program starts is displaced,   *)
(* unless it starts a second operation in the same direction; an operation *)
(* that waits is active in its slot until it completes or its entry is     *)
(* erased; and each completes once, in order (winevent.h:81-96, 185-190,   *)
(* wineventimpl.h:20-36, 204-315).                                         *)
ImplementsAsyncOps == Abstract!Spec

(* Has an operation of the same socket completed before op was started?    *)
(* Only then does its Submit call try the system call.                     *)
NotFirst(op) ==
  \E p \in Ops \ {op} : await[p].sock = await[op].sock /\ await[p].type = await[op].type
                         /\ (runs[p] > 0 \/ \E i \in 1..Len(waitset) : waitset[i].cb = p)

(* The first accept of an acceptor takes one connection and reports it, or *)
(* the connection it woke for is gone and the program is told that an      *)
(* invalid socket is a new connection.  A later accept may take one inside *)
(* its Submit call without a word, and lose it for the next                *)
(* (wineventimpl.h:103-134, 243-254, winsock.h:232-240).                   *)
FirstAcceptTakesOne ==
  \A op \in Ops :
    await[op].type = "ACCEPT" =>
      /\ told[op] = "invalid" => vanished
      /\ told[op] = "ok" => units[op] = 1 \/ NotFirst(op)
      /\ (runs[op] = 0 /\ units[op] > 0 /\ \A i \in 1..Len(waitset) : waitset[i].cb # op)
           => NotFirst(op)

(* Nothing but empty datagrams goes astray: what a transfer moved is what  *)
(* its callback was told, and a transfer that waits has moved nothing.     *)
(* Only an empty datagram may be taken or sent by a Submit call that then  *)
(* waits as if the call had blocked, so that it is lost, or sent twice     *)
(* (wineventimpl.h:30, 62, 148, 182).                                      *)
OnlyEmptyDatagramsGoAstray ==
  \A op \in Ops :
    await[op].type \in {"READ", "WRITE", "RECVFROM", "SENDTO"} =>
      /\ told[op] = "ok" => units[op] = 1
      /\ told[op] \in {"zero", "error"} => units[op] = 0
      /\ told[op] = "zero" => (await[op].type = "READ" \/ empties[op] > 0)
      /\ \A h \in Keys : op \in Waiting(h) => units[op] = 0
      /\ empties[op] > 0 => Kind[await[op].sock] = "UDP"

(* A connect that waits and was refused is completed by no later step: it  *)
(* waits for ever, because select() is not asked for exceptions            *)
(* (wineventimpl.h:84-97, 206, 295-306).                                   *)
RefusedConnectIsSilent ==
  [][\A op \in Ops, s \in Socks :
       (op \in Waiting(s) /\ await[op].type = "CONNECT" /\ kernel[s].conn = "refused")
         => \A i \in 1..Len(waitset') : waitset'[i].cb # op]_vars

(* Does op wait for a socket that is ready for it? *)
ReadyFor(op) ==
  \E h \in Socks, d \in {"in", "out"} :
    socks[h][d].active /\ socks[h][d].op = op /\ Ready(kernel[h], d)

(* An operation whose socket is ready for it is called back, unless the    *)
(* socket stops being ready, the operation is displaced or erased, the     *)
(* loop ends, an invalid socket makes every select() fail, or there are    *)
(* more sockets than an fd_set holds (winevent.h:152-169,                  *)
(* wineventimpl.h:204-315).                                                *)
ReadinessIsServed ==
  \A op \in Ops :
    ReadyFor(op) ~>
      \/ runs[op] > 0
      \/ ~ReadyFor(op) /\ \A i \in 1..Len(waitset) : waitset[i].cb # op
      \/ ~canContinue
      \/ INVALID_SOCKET \in Watched("in") \cup Watched("out")
      \/ \E d \in {"in", "out"} : Cardinality({h \in Keys : socks[h][d].active}) > FdSetSize
=============================================================================
