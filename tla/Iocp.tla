-------------------------------- MODULE Iocp --------------------------------
(***************************************************************************)
(* The Windows back end of Venti: WinIocp (winiocp.h, winiocpimpl.h) on    *)
(* the loop of module Context.  Every operation has a SEOL of its own, the *)
(* overlapped structure the kernel hands back when the operation is over,  *)
(* so operations on one socket do not share state.                         *)
(*                                                                         *)
(* The kernel is external: an overlapped call either fails at once or is   *)
(* over later, when a packet is queued at the completion port; closing a   *)
(* socket makes what is under way on it fail.                              *)
(*                                                                         *)
(* Left out: a second accept on an acceptor before the first is over, whose*)
(* AcceptCallback would call whatever Acceptor::waiting_ holds by then     *)
(* (acceptor.h:65-78); module Epoll models it for both systems.            *)
(***************************************************************************)
EXTENDS Context, FiniteSets

CONSTANTS Socks, NoSock,
          MaxLen     \* bound on the bytes one operation moves

ASSUME IocpAssumption ==
  /\ NoSock \notin Socks
  /\ MaxLen \in Nat

VARIABLES seol,     \* the SEOL of each operation
          await,    \* the type and the socket of each operation
          closed,   \* sockets after CloseSock
          port,     \* packets queued at iocp_
          retval,   \* what await_resume returned for each operation
          fate,     \* history: what became of the system call
          runs      \* history: how often each callback ran (2: more than once)

iocpVars == <<seol, await, closed, port, retval, fate, runs>>
vars == <<waitset, it, canContinue, pc, seol, await, closed, port, retval, fate, runs>>

Transfers == {"READ", "WRITE", "RECVFROM", "SENDTO"}
Types == Transfers \cup {"ACCEPT", "CONNECT"}

(* WSAECONNRESET stands for every error an operation can meet by itself.   *)
ERROR_OPERATION_ABORTED == 995
WSAECONNRESET == 10054
Errors == {ERROR_OPERATION_ABORTED, WSAECONNRESET}

Unissued == [type |-> "none", sock |-> NoSock]

Packets == [op : Ops, valid : BOOLEAN, len : 0..MaxLen, err : Errors \cup {0}]

TypeOK ==
  /\ LoopTypeOK
  /\ seol \in [Ops -> {"none", "kernel", "queued", "deleted", "leaked"}]
  /\ await \in [Ops -> [type : Types, sock : Socks] \cup {Unissued}]
  /\ closed \subseteq Socks
  /\ port \in Seq(Packets)
  /\ retval \in [Ops -> Int]
  /\ fate \in [Ops -> {"none", "refused", "failed", "done"}]
  /\ runs \in [Ops -> 0..2]

Init ==
  /\ LoopInit
  /\ seol = [op \in Ops |-> "none"]
  /\ await = [op \in Ops |-> Unissued]
  /\ closed = {}
  /\ port = <<>>
  /\ retval = [op \in Ops |-> 0]
  /\ fate = [op \in Ops |-> "none"]
  /\ runs = [op \in Ops |-> 0]

-----------------------------------------------------------------------------
(* SubmitRead ... SubmitAccept.  No accept starts while another one of its *)
(* acceptor is under way.                                                  *)
Start(op, type, s) ==
  /\ pc \in {"setup", "callback"}
  /\ await[op] = Unissued
  /\ s \notin closed
  /\ type = "ACCEPT" =>
       \A p \in Ops : await[p] = [type |-> type, sock |-> s]
                        => runs[p] > 0 \/ fate[p] = "refused"
  /\ await' = [await EXCEPT ![op] = [type |-> type, sock |-> s]]

(* The system call succeeded or returned WSA_IO_PENDING. *)
Submit(op, type, s) ==
  /\ Start(op, type, s)
  /\ seol' = [seol EXCEPT ![op] = "kernel"]
  /\ UNCHANGED <<loopVars, closed, port, retval, fate, runs>>

(* The system call failed at once.  WSARecv, WSASend, WSARecvMsg and       *)
(* WSASendMsg return -1; AcceptEx and ConnectEx return FALSE, which is 0.  *)
Returned(type) == IF type \in Transfers THEN -1 ELSE 0

(* ERROR is the macro of wingdi.h, 0, which is WAITING. *)
ERROR == "WAITING"

(* The event with its status_ and error_, or status_ and res_, assigned. *)
Failure(op, err) == [cb |-> op, status |-> ERROR, error |-> err, res |-> 0]
Success(op, len) == [cb |-> op, status |-> "COMPLETED", error |-> 0, res |-> len]

(* Mutant: the SEOL is deleted and the error is not negated. *)
SubmitRefusedCleanly(op, type, s, err) ==
  /\ Start(op, type, s)
  /\ seol' = [seol EXCEPT ![op] = "deleted"]
  /\ fate' = [fate EXCEPT ![op] = "refused"]
  /\ waitset' = SubmitComplete(waitset, Failure(op, err))
  /\ UNCHANGED <<it, canContinue, pc, closed, port, retval, runs>>

SubmitRefused(op, type, s, err) ==
  /\ Start(op, type, s)
  /\ seol' = [seol EXCEPT ![op] = "leaked"]
  /\ fate' = [fate EXCEPT ![op] = "refused"]
  /\ waitset' = IF Returned(type) < 0
                THEN SubmitComplete(waitset, Failure(op, -err))
                ELSE waitset
  /\ UNCHANGED <<it, canContinue, pc, closed, port, retval, runs>>

(* DisconnectEx and closesocket. *)
CloseSock(s) ==
  /\ pc \in {"setup", "callback"}
  /\ s \notin closed
  /\ closed' = closed \cup {s}
  /\ UNCHANGED <<loopVars, seol, await, port, retval, fate, runs>>

(* External: the kernel ends an operation and queues its packet. *)
KernelEnds(op, valid, len, err) ==
  /\ seol[op] = "kernel"
  /\ valid <=> err = 0
  /\ ~valid => len = 0
  /\ await[op].type \in {"ACCEPT", "CONNECT"} => len = 0
  /\ seol' = [seol EXCEPT ![op] = "queued"]
  /\ port' = Append(port, [op |-> op, valid |-> valid, len |-> len, err |-> err])
  /\ fate' = [fate EXCEPT ![op] = IF valid THEN "done" ELSE "failed"]
  /\ UNCHANGED <<loopVars, await, closed, retval, runs>>

KernelAborts(op) ==
  /\ await[op].sock \in closed
  /\ KernelEnds(op, FALSE, 0, ERROR_OPERATION_ABORTED)

(* Wait: one packet for each call. *)
Wait ==
  /\ pc = "wait"
  /\ port # <<>>
  /\ LET p == Head(port)
     IN /\ waitset' = SubmitComplete(waitset, IF p.valid THEN Success(p.op, p.len)
                                                         ELSE Failure(p.op, p.err))
        /\ seol' = [seol EXCEPT ![p.op] = "deleted"]
  /\ port' = Tail(port)
  /\ pc' = "top"
  /\ UNCHANGED <<it, canContinue, await, closed, retval, fate, runs>>

-----------------------------------------------------------------------------
StartRun == Run /\ UNCHANGED iocpVars
LoopTest == Enter /\ UNCHANGED iocpVars
EndCallback == Return /\ UNCHANGED iocpVars
StartWait == EnterWait /\ UNCHANGED iocpVars
UserEnd == End /\ UNCHANGED iocpVars

(* Resume() of ReadAwait, WriteAwait, RecvAwait and SendAwait negates the  *)
(* error, that of ConnAwait and AcceptAwait does not.                      *)
StartCallback ==
  /\ Scan
  /\ LET ev == waitset[it] IN
     IF ~Due(ev) THEN UNCHANGED <<runs, retval>>
     ELSE
        /\ runs' = [runs EXCEPT ![ev.cb] = IF @ = 2 THEN 2 ELSE @ + 1]
        /\ retval' = [retval EXCEPT ![ev.cb] =
                        IF await[ev.cb].type \notin Transfers THEN ev.error
                        ELSE IF ev.error # 0 THEN -ev.error ELSE ev.res]
  /\ UNCHANGED <<seol, await, closed, port, fate>>

LoopStep == LoopTest \/ StartCallback \/ StartWait \/ Wait

Next ==
  \/ \E op \in Ops, type \in Types, s \in Socks :
       Submit(op, type, s) \/ \E err \in Errors : SubmitRefused(op, type, s, err)
  \/ \E s \in Socks : CloseSock(s)
  \/ \E op \in Ops :
       \/ \E len \in 0..MaxLen : KernelEnds(op, TRUE, len, 0)
       \/ KernelEnds(op, FALSE, 0, WSAECONNRESET)
       \/ KernelAborts(op)
  \/ StartRun \/ EndCallback \/ UserEnd
  \/ LoopStep

Spec == Init /\ [][Next]_vars

(* The loop's thread keeps running, the program's own code returns, and    *)
(* the kernel aborts what is under way on a closed socket.                 *)
Fairness ==
  /\ WF_vars(LoopStep)
  /\ WF_vars(StartRun \/ EndCallback)
  /\ \A op \in Ops : WF_vars(KernelAborts(op))

FairSpec == Spec /\ Fairness

-----------------------------------------------------------------------------
Callbacks == [i \in 1..Len(waitset) |-> waitset[i].cb]

(* An operation refused at once by AcceptEx or ConnectEx is not under way, *)
(* but for the program it waits like any other.                            *)
Lost(op) == fate[op] = "refused" /\ Returned(await[op].type) = 0

Abstract ==
  INSTANCE AsyncOps WITH
    MayDrop <- FALSE,
    started <- {op \in Ops : await[op] # Unissued},
    pending <- {op \in Ops : seol[op] \in {"kernel", "queued"} \/ Lost(op)},
    due <- IF pc = "callback" THEN Tail(Callbacks) ELSE Callbacks,
    active <- IF pc = "callback" THEN waitset[it].cb ELSE NoOp

(* With a SEOL per operation no operation displaces another, on one socket *)
(* or on several, and every completion is called once and in order         *)
(* (winiocp.h:39-47, winiocpimpl.h:25-46, 280-333).                        *)
ImplementsAsyncOps == Abstract!Spec

(* A SEOL is deleted exactly when its packet was taken from the port: the  *)
(* kernel never writes to a deleted one, and those whose call was refused  *)
(* are never deleted (winiocpimpl.h:33, 38-45, 288-292, 331-332).          *)
SeolOutlivesItsCall ==
  \A op \in Ops :
    /\ seol[op] = "queued" <=> \E i \in 1..Len(port) : port[i].op = op
    /\ seol[op] = "deleted" => fate[op] \in {"done", "failed"}
    /\ (runs[op] > 0 \/ \E i \in 1..Len(waitset) : waitset[i].cb = op)
         => seol[op] \in {"deleted", "leaked"}

(* What an operation returns to its coroutine: an error a transfer meets   *)
(* later is negative, but one met at once is negated twice and looks like  *)
(* a number of bytes; an AcceptEx or ConnectEx that fails at once returns  *)
(* nothing, ever (winiocpimpl.h:42, 80, 114, 288; tcpsocket.h:116-121).    *)
RefusalLooksLikeBytes ==
  \A op \in Ops :
    /\ (runs[op] > 0 /\ await[op].type \in Transfers) =>
         /\ fate[op] = "done" => retval[op] \in 0..MaxLen
         /\ fate[op] = "failed" => -retval[op] \in Errors
         /\ fate[op] = "refused" => retval[op] \in Errors
    /\ (fate[op] = "refused" /\ await[op].type \notin Transfers) => runs[op] = 0

(* Closing a socket completes what was under way on it, unlike on Linux.   *)
CloseCompletes ==
  \A op \in Ops :
    (await[op].sock \in closed /\ seol[op] = "kernel") ~> (runs[op] > 0 \/ ~canContinue)
=============================================================================
