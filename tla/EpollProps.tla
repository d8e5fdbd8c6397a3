----------------------------- MODULE EpollProps -----------------------------
(***************************************************************************)
(* What the epoll back end promises, and what it only promises under       *)
(* conditions its callers have to meet.                                    *)
(***************************************************************************)
EXTENDS Epoll

Issued(op) == await[op] # Unissued

(* The completed events of op whose callback has not started. *)
Queued(op) ==
  {i \in 1..Len(waitset) : waitset[i].cb = op /\ ~(pc = "callback" /\ i = it)}

(* Where op is: waiting in a slot, completed and queued, or called. *)
Deliveries(op) ==
  Cardinality({s \in Socks : op \in PendingIn(s)}) + Cardinality(Queued(op)) + runs[op]

(* Every operation is in exactly one place from its Submit call to its     *)
(* callback, over all orders of submission, readiness and dispatch: no     *)
(* completion is lost or duplicated, except an operation another one       *)
(* displaced from the slot (or from Acceptor::waiting_), which never       *)
(* completes, and one that EPOLLERR took from an idle slot again           *)
(* (epollimpl.h:24, 46, 84, 172-176).                                      *)
ExactlyOnce ==
  \A op \in Ops \ redelivered :
    Deliveries(op) = IF Issued(op) /\ op \notin displaced THEN 1 ELSE 0

(* Wait knows of direction d of socket s: its flag is set, its edge waits  *)
(* in the batch, or it was dropped by the EPOLLERR or EPOLLHUP branch.     *)
Noted(s, d) ==
  \/ d = "IN" /\ slot[s].rp
  \/ d = "OUT" /\ slot[s].wp
  \/ \E b \in batch : b.sock = s /\ d \in b.events
  \/ <<s, d>> \in missed

(* Edge-triggered epoll: a direction that is ready is known to Wait, or    *)
(* its edge is still to be reported.  Hence no pending read, accept or     *)
(* write sleeps on a ready socket, but for the edges that EPOLLERR and     *)
(* EPOLLHUP drop (epollimpl.h:26, 86, 171-186, 254-255).                   *)
NoLostWakeup ==
  pc # "crashed" =>
    \A s \in Socks, d \in {"IN", "OUT"} :
      (/\ k[s].reg /\ Kind[s] \in {"TCP", "UDP", "LISTENER"}
       /\ d \in Mask(Kind[s], k[s]))
      => k[s].ready \/ Noted(s, d)

(* An operation waits in its slot only for a direction whose flag is not   *)
(* set: once the flag is set the call is tried, by Submit or by Wait, and  *)
(* any result but EWOULDBLOCK ends it (epollimpl.h:23-63, 83-150, 187-293).*)
NothingWaitsForTheFlag ==
  \A s \in Socks :
    (slot[s].sock /\ calling # slot[s].ev.cb) =>
       /\ slot[s].type \in InTypes => ~slot[s].rp
       /\ slot[s].type \in OutTypes => ~slot[s].wp

(* The would-block branches of read, write, recvfrom and sendto never run: *)
(* a flag that was set stays set, so after the first edge a transfer that  *)
(* finds nothing to do fails with error 1 instead of waiting for the next  *)
(* edge (linuxsock.h:275-279, 291-295; epollimpl.h:27, 49, 110, 136).      *)
TransferNeverWaitsAgain ==
  [][\A s \in Socks : Kind[s] \in {"TCP", "UDP"} =>
       (slot[s].rp => slot'[s].rp) /\ (slot[s].wp => slot'[s].wp)]_vars

(* Hence the errno of a failed transfer never reaches the program: the     *)
(* error is 1, or what errno held when EPOLLERR was reported.              *)
TransferErrorIsOpaque ==
  \A i \in 1..Len(waitset) :
    (waitset[i].status = "ERR"
      /\ await[waitset[i].cb].type \in {"READ", "WRITE", "RECVFROM", "SENDTO"})
      => waitset[i].error \in {1} \cup Errnos

(* A connect reported without error has connected: neither the EPOLLHUP of *)
(* a socket that is not connected nor an early EPOLLOUT ends one so        *)
(* (epollimpl.h:67-81, 177-183, 273-277).  One way remains to be told that *)
(* a refused connection is there: EPOLLERR puts into the event what errno  *)
(* happens to hold, and that may be 0 (epollimpl.h:172-176).               *)
ConnectedWhenToldSo ==
  \A i \in 1..Len(waitset) :
    LET a == await[waitset[i].cb]
    IN (a.type = "CONNECT" /\ waitset[i].error = 0) =>
         \/ ~k[a.sock].open
         \/ k[a.sock].conn \in {"est", "reset"}
         \/ k[a.sock].conn = "refused" /\ waitset[i].status = "ERR"

(* An accept that is reported done has stored a connection in its own      *)
(* target, not yet registered, and no other operation's (epollimpl.h:102,  *)
(* linuxsock.h:243-264, acceptor.h:96-102).                                *)
AcceptedWhenToldSo ==
  ~Overlap =>
  \A i \in 1..Len(waitset) :
    LET a == await[waitset[i].cb]
    IN (a.type = "ACCEPT" /\ waitset[i].error = 0 /\ ~(pc = "callback" /\ i <= it)) =>
         k[a.target].open /\ ~k[a.target].reg

(* Wait follows data.sock of every socket epoll reports.  A program that   *)
(* gives each registered socket an operation first keeps it from following *)
(* a null pointer; an asynchronous connect is no such operation, since it  *)
(* usually leaves the slot without its socket (epoll.h:33-38,              *)
(* epollimpl.h:67-81, 170-171).                                            *)
NoNullSocket == CarefulUser => pc # "crashed"

(* The loop blocks inside a Submit call only on a socket that accept()     *)
(* made: all others are non-blocking (linuxsock.h:157-161, 251, 260).      *)
BlocksOnAcceptedOnly ==
  (calling # NoOp /\ Try(await[calling].sock, await[calling].type) = {})
     => await[calling].sock \in Fresh

(* Wait never reads a timerfd, so the tick of an earlier period stays in   *)
(* it, reported or not, until the time is set again.  A wait on the timer  *)
(* starts without such a tick, which would end it at once or, if its edge  *)
(* is past, let it sleep for ever; and the tick that comes later is still  *)
(* to be reported as long as the wait is there (linuxtimer.h:46-51,        *)
(* epollimpl.h:156-158, 229-235).                                          *)
EachWaitHasItsOwnTick ==
  [][\A s \in Socks : Kind[s] = "TIMER" =>
       /\ PendingIn(s)' \subseteq PendingIn(s) \/ k'[s].in = 0
       /\ (PendingIn(s)' # {} /\ k'[s].in > 0 /\ pc' # "crashed") =>
            k'[s].ready \/ \E b \in batch' : b.sock = s /\ "IN" \in b.events]_vars

(* A signal operation completes only while a signal is pending, and takes  *)
(* none away: the next Wait for signals completes at once with the same    *)
(* signal (epollimpl.h:236-246).                                           *)
SignalIsNotConsumed ==
  [][\A s \in Socks : Kind[s] = "SIGNALFD" =>
       /\ (slot[s].sock /\ slot[s].type = "SIGNAL" /\ slot'[s].type = "NOOP") => k[s].in > 0
       /\ k'[s].in >= k[s].in]_vars

(* op waits for what has happened: data to read, a timer that is armed or  *)
(* has ticked, a signal.                                                   *)
HasItsEvent(op) ==
  LET s == await[op].sock
  IN /\ pc # "setup"
     /\ \/ await[op].type \in {"READ", "RECVFROM"} /\ k[s].in > 0
        \/ await[op].type \in {"TIMETICK", "SIGNAL"} /\ (k[s].armed \/ k[s].in > 0)
     /\ op \in PendingIn(s)

(* Once the loop runs, a read that waits on a socket with data, and a wait *)
(* for a timer that is armed or a signal that is pending, has its callback *)
(* called, in a program that does not end the loop and has no second       *)
(* operation on the socket, as long as the socket does not fail            *)
(* (epollimpl.h:23-41, 106-125, 185-246, linuxtimer.h:46-51).              *)
WaitsAreServed == \A op \in Ops : HasItsEvent(op) ~> (runs[op] > 0)

(* End() called by a callback does not end Run there: the thread goes to   *)
(* epoll_wait once more, whatever can_continue_ is, and leaves it with the *)
(* next event; once something is ready Run returns (context.h:44-56).      *)
EndNeedsOneMoreEvent ==
  /\ (pc = "callback" /\ ~canContinue) ~> (pc = "wait")
  /\ (~canContinue /\ Ready # {}) ~> (pc \in {"done", "crashed"})
=============================================================================
