----------------------------- MODULE IocpProofs -----------------------------
(***************************************************************************)
(* The completion port handler: each SEOL outlives its call, and the       *)
(* handler with the loop implements AsyncOps, for any sockets and          *)
(* operations.                                                             *)
(***************************************************************************)
EXTENDS Iocp, ContextProofs

-----------------------------------------------------------------------------
(* The inductive invariant.                                                *)

OpTypeOK ==
  /\ seol \in [Ops -> {"none", "kernel", "queued", "deleted", "leaked"}]
  /\ await \in [Ops -> [type : Types, sock : Socks] \cup {Unissued}]
  /\ closed \subseteq Socks
  /\ port \in Seq(Packets)
  /\ retval \in [Ops -> Int]
  /\ fate \in [Ops -> {"none", "refused", "failed", "done"}]
  /\ runs \in [Ops -> 0..2]

(* A SEOL says what became of its call. *)
SeolInv ==
  \A op \in Ops :
    /\ seol[op] = "none" <=> await[op] = Unissued
    /\ seol[op] \in {"none", "kernel"} <=> fate[op] = "none"
    /\ seol[op] = "leaked" <=> fate[op] = "refused"

(* A packet for each call that is over and was not taken from the port,    *)
(* and for no other.                                                       *)
PortInv ==
  /\ \A i \in 1..Len(port) :
       /\ seol[port[i].op] = "queued"
       /\ port[i].valid => fate[port[i].op] = "done"
       /\ ~port[i].valid => fate[port[i].op] = "failed" /\ port[i].err \in Errors
  /\ \A i, j \in 1..Len(port) : port[i].op = port[j].op => i = j
  /\ \A op \in Ops : seol[op] = "queued" => \E i \in 1..Len(port) : port[i].op = op

(* What the event of an operation carries once its call is over. *)
Tells(ev) ==
  /\ seol[ev.cb] \in {"deleted", "leaked"}
  /\ fate[ev.cb] = "done" => ev.error = 0 /\ ev.res \in 0..MaxLen
  /\ fate[ev.cb] = "failed" => ev.error \in Errors
  /\ fate[ev.cb] = "refused" => -ev.error \in Errors /\ await[ev.cb].type \in Transfers

ListInv == \A i \in 1..Len(waitset) : Tells(waitset[i])

RunsInv == \A op \in Ops : runs[op] > 0 => seol[op] \in {"deleted", "leaked"}

IocpInv ==
  /\ LoopInv
  /\ OpTypeOK
  /\ SeolInv
  /\ PortInv
  /\ ListInv
  /\ RunsInv
  /\ RefusalLooksLikeBytes

LEMMA UnissuedIsNone ==
  ASSUME NEW a \in [type : Types, sock : Socks] PROVE a # Unissued
BY IocpAssumption DEF Unissued

LEMMA InitInv == Init => IocpInv
<1> SUFFICES ASSUME Init PROVE IocpInv OBVIOUS
<1>1. LoopInv BY LoopInitInv DEF Init
<1>2. OpTypeOK BY DEF Init, OpTypeOK
<1>3. Len(port) = 0 /\ Len(waitset) = 0 BY LenProperties DEF Init, LoopInit
<1>4. SeolInv /\ PortInv /\ ListInv /\ RunsInv /\ RefusalLooksLikeBytes
  BY <1>3 DEF Init, SeolInv, PortInv, ListInv, RunsInv, RefusalLooksLikeBytes
<1> QED BY <1>1, <1>2, <1>4 DEF IocpInv

(* A step of the loop that calls nothing. *)
LEMMA LoopOnlyInv ==
  ASSUME IocpInv, UNCHANGED iocpVars, Run \/ Enter \/ EnterWait \/ End \/ UNCHANGED loopVars
  PROVE IocpInv'
<1>1. LoopInv' BY LoopStepInv DEF IocpInv
<1>2. waitset' = waitset BY DEF Run, Enter, EnterWait, End, loopVars
<1>3. OpTypeOK' /\ SeolInv' /\ PortInv' /\ RunsInv' /\ RefusalLooksLikeBytes'
  BY ZenonT(40) DEF IocpInv, iocpVars, OpTypeOK, SeolInv, PortInv, RunsInv, RefusalLooksLikeBytes
<1>4. ListInv' BY <1>2 DEF IocpInv, iocpVars, ListInv, Tells
<1> QED BY <1>1, <1>3, <1>4 DEF IocpInv
-----------------------------------------------------------------------------
(* The program's calls and the kernel's.                                   *)

(* An operation that starts has no SEOL yet, and nothing refers to it. *)
LEMMA Fresh ==
  ASSUME IocpInv, NEW op \in Ops, await[op] = Unissued
  PROVE  /\ seol[op] = "none" /\ fate[op] = "none" /\ runs[op] = 0
         /\ \A i \in 1..Len(port) : port[i] \in Packets /\ port[i].op # op
         /\ \A i \in 1..Len(waitset) : waitset[i] \in CompletedEvents /\ waitset[i].cb # op
<1>1. seol[op] = "none" /\ fate[op] = "none" BY DEF IocpInv, SeolInv
<1>2. runs[op] = 0
  <2>1. runs[op] \in 0..2 BY DEF IocpInv, OpTypeOK
  <2> QED BY <1>1, <2>1 DEF IocpInv, RunsInv
<1>3. \A i \in 1..Len(port) : port[i] \in Packets
  BY ElementOfSeq DEF IocpInv, OpTypeOK
<1>4. \A i \in 1..Len(waitset) : waitset[i] \in CompletedEvents
  BY ElementOfSeq DEF IocpInv, LoopInv
<1> QED BY <1>1, <1>2, <1>3, <1>4 DEF IocpInv, PortInv, ListInv, Tells

LEMMA SubmitInv ==
  ASSUME IocpInv, NEW op \in Ops, NEW type \in Types, NEW s \in Socks, Submit(op, type, s)
  PROVE IocpInv'
<1>1. /\ await[op] = Unissued
      /\ await' = [await EXCEPT ![op] = [type |-> type, sock |-> s]]
      /\ seol' = [seol EXCEPT ![op] = "kernel"]
      /\ UNCHANGED <<waitset, it, canContinue, pc, closed, port, retval, fate, runs>>
  BY DEF Submit, Start, loopVars
<1>2. LoopInv' BY <1>1 DEF IocpInv, LoopInv, NothingDueInWait
<1>3. OpTypeOK' BY <1>1 DEF IocpInv, OpTypeOK
<1>4. [type |-> type, sock |-> s] # Unissued BY UnissuedIsNone
<1>5. SeolInv' BY <1>1, <1>4, Fresh DEF IocpInv, OpTypeOK, SeolInv
<1>6. PortInv'
  <2>1. \A i \in 1..Len(port) : port[i].op \in Ops /\ port[i].op # op
    BY <1>1, Fresh DEF Packets
  <2>2. \A p \in Ops : seol'[p] = IF p = op THEN "kernel" ELSE seol[p]
    BY <1>1 DEF IocpInv, OpTypeOK
  <2>3. \A i \in 1..Len(port) : seol'[port[i].op] = seol[port[i].op] BY <2>1, <2>2
  <2> QED BY <1>1, <2>2, <2>3 DEF IocpInv, PortInv
<1>7. ListInv' BY <1>1, Fresh DEF IocpInv, OpTypeOK, ListInv, Tells, CompletedEvents
<1>8. RunsInv' BY <1>1, Fresh DEF IocpInv, OpTypeOK, RunsInv
<1>9. RefusalLooksLikeBytes'
  BY <1>1, Fresh DEF IocpInv, OpTypeOK, RefusalLooksLikeBytes
<1> QED BY <1>2, <1>3, <1>5, <1>6, <1>7, <1>8, <1>9 DEF IocpInv

LEMMA FailureTyped ==
  ASSUME NEW op \in Ops, NEW err \in Int
  PROVE  /\ Failure(op, err) \in Events
         /\ Failure(op, err).cb = op /\ Failure(op, err).error = err
BY DEF Failure, Events, Statuses, ERROR

LEMMA SuccessTyped ==
  ASSUME NEW op \in Ops, NEW len \in Int
  PROVE  /\ Success(op, len) \in Events
         /\ Success(op, len).cb = op /\ Success(op, len).error = 0
         /\ Success(op, len).res = len
BY DEF Success, Events, Statuses

LEMMA SubmitRefusedInv ==
  ASSUME IocpInv, NEW op \in Ops, NEW type \in Types, NEW s \in Socks, NEW err \in Errors,
         SubmitRefused(op, type, s, err)
  PROVE IocpInv'
<1> DEFINE ev == Failure(op, -err)
<1>1. /\ await[op] = Unissued /\ pc \in {"setup", "callback"}
      /\ await' = [await EXCEPT ![op] = [type |-> type, sock |-> s]]
      /\ seol' = [seol EXCEPT ![op] = "leaked"]
      /\ fate' = [fate EXCEPT ![op] = "refused"]
      /\ \/ Returned(type) < 0 /\ waitset' = SubmitComplete(waitset, ev)
         \/ waitset' = waitset
      /\ UNCHANGED <<it, canContinue, pc, closed, port, retval, runs>>
  BY DEF SubmitRefused, Start
<1>2. err \in Int /\ -err \in Int /\ -(-err) = err
  BY DEF Errors, ERROR_OPERATION_ABORTED, WSAECONNRESET
<1>3. ev \in Events /\ ev.cb = op /\ ev.error = -err BY <1>2, FailureTyped
<1>4. LoopInv'
  BY <1>1, <1>3, CompletionInv DEF IocpInv, LoopInv
<1>5. OpTypeOK' BY <1>1 DEF IocpInv, OpTypeOK
<1>6. [type |-> type, sock |-> s] # Unissued BY UnissuedIsNone
<1>7. SeolInv' BY <1>1, <1>6, Fresh DEF IocpInv, OpTypeOK, SeolInv
<1>8. PortInv'
  <2>1. \A i \in 1..Len(port) : port[i].op \in Ops /\ port[i].op # op
    BY <1>1, Fresh DEF Packets
  <2>2. \A p \in Ops : /\ seol'[p] = IF p = op THEN "leaked" ELSE seol[p]
                       /\ fate'[p] = IF p = op THEN "refused" ELSE fate[p]
    BY <1>1 DEF IocpInv, OpTypeOK
  <2>3. \A i \in 1..Len(port) : /\ seol'[port[i].op] = seol[port[i].op]
                                /\ fate'[port[i].op] = fate[port[i].op]
    BY <2>1, <2>2
  <2> QED BY <1>1, <2>2, <2>3 DEF IocpInv, PortInv
<1>9. \A ev0 \in CompletedEvents : ev0.cb # op /\ Tells(ev0) => Tells(ev0)'
  BY <1>1 DEF IocpInv, OpTypeOK, Tells, CompletedEvents
<1>10. ListInv'
  <2>0. \A i \in 1..Len(waitset) :
           waitset[i] \in CompletedEvents /\ waitset[i].cb # op /\ Tells(waitset[i])
    BY <1>1, Fresh DEF IocpInv, ListInv
  <2>1. CASE waitset' = waitset BY <1>9, <2>0, <2>1 DEF ListInv, Tells
  <2>2. CASE Returned(type) < 0 /\ waitset' = SubmitComplete(waitset, ev)
    <3> DEFINE n == Len(waitset) + 1
    <3>0. type \in Transfers BY <2>2 DEF Returned
    <3>1. /\ Len(waitset') = n /\ Len(waitset) \in Nat
          /\ \A i \in 1..Len(waitset) : waitset'[i] = waitset[i]
          /\ waitset'[n].cb = op /\ waitset'[n].error = -err
      BY <1>3, <2>2, SubmitCompleteElements, LenProperties DEF IocpInv, LoopInv
    <3> SUFFICES ASSUME NEW i \in 1..n PROVE Tells(waitset[i])'
      BY <3>1 DEF ListInv
    <3>2. CASE i = n
      <4>1. waitset'[i].cb = op /\ waitset'[i].error = -err BY <3>1, <3>2
      <4>2. seol'[op] = "leaked" /\ fate'[op] = "refused" /\ await'[op].type \in Transfers
        BY <1>1, <3>0 DEF IocpInv, OpTypeOK
      <4> QED BY <1>2, <4>1, <4>2 DEF Tells
    <3>3. CASE i # n
      <4>1. i \in 1..Len(waitset) /\ waitset'[i] = waitset[i] BY <3>1, <3>3
      <4>2. Tells(waitset[i]) /\ waitset[i].cb # op /\ waitset[i] \in CompletedEvents
        BY <2>0, <4>1
      <4> QED BY <1>1, <4>1, <4>2 DEF IocpInv, OpTypeOK, Tells, CompletedEvents
    <3> QED BY <3>2, <3>3
  <2> QED BY <1>1, <2>1, <2>2
<1>11. RunsInv' BY <1>1, Fresh DEF IocpInv, OpTypeOK, RunsInv
<1>12. RefusalLooksLikeBytes'
  BY <1>1, Fresh DEF IocpInv, OpTypeOK, RefusalLooksLikeBytes
<1> QED BY <1>4, <1>5, <1>7, <1>8, <1>10, <1>11, <1>12 DEF IocpInv

LEMMA CloseInv == ASSUME IocpInv, NEW s \in Socks, CloseSock(s) PROVE IocpInv'
<1>1. closed' \subseteq Socks BY DEF CloseSock, IocpInv, OpTypeOK
<1>2. UNCHANGED <<waitset, it, canContinue, pc, seol, await, port, retval, fate, runs>>
  BY DEF CloseSock, loopVars
<1> QED BY <1>1, <1>2
    DEF IocpInv, LoopInv, NothingDueInWait, OpTypeOK, SeolInv, PortInv, ListInv, Tells,
        RunsInv, RefusalLooksLikeBytes

LEMMA KernelEndsInv ==
  ASSUME IocpInv, NEW op \in Ops, NEW valid \in BOOLEAN, NEW len \in 0..MaxLen,
         NEW err \in Errors \cup {0}, KernelEnds(op, valid, len, err)
  PROVE IocpInv'
<1> DEFINE p == [op |-> op, valid |-> valid, len |-> len, err |-> err]
           n == Len(port) + 1
<1>1. /\ seol[op] = "kernel" /\ (valid <=> err = 0)
      /\ seol' = [seol EXCEPT ![op] = "queued"]
      /\ port' = Append(port, p)
      /\ fate' = [fate EXCEPT ![op] = IF valid THEN "done" ELSE "failed"]
      /\ UNCHANGED <<waitset, it, canContinue, pc, await, closed, retval, runs>>
  BY DEF KernelEnds, loopVars
<1>2. p \in Packets BY DEF Packets
<1>3. /\ port \in Seq(Packets) /\ port' \in Seq(Packets) /\ Len(port') = n /\ Len(port) \in Nat
      /\ \A i \in 1..Len(port) : port'[i] = port[i] /\ port[i] \in Packets
      /\ port'[n] = p
  BY <1>1, <1>2, AppendProperties, ElementOfSeq, LenProperties DEF IocpInv, OpTypeOK
<1>4. LoopInv' BY <1>1 DEF IocpInv, LoopInv, NothingDueInWait
<1>5. OpTypeOK' BY <1>1, <1>3 DEF IocpInv, OpTypeOK
<1>6. SeolInv' BY <1>1 DEF IocpInv, OpTypeOK, SeolInv
<1>7. PortInv'
  <2>1. \A i \in 1..Len(port) : port[i].op # op /\ port[i].op \in Ops
    BY <1>1, <1>3 DEF IocpInv, PortInv, Packets
  <2>2. \A i \in 1..n : /\ seol'[port'[i].op] = "queued"
                        /\ port'[i].valid => fate'[port'[i].op] = "done"
                        /\ ~port'[i].valid => /\ fate'[port'[i].op] = "failed"
                                              /\ port'[i].err \in Errors
    BY <1>1, <1>3, <2>1 DEF IocpInv, OpTypeOK, PortInv
  <2>3. \A i, j \in 1..n : port'[i].op = port'[j].op => i = j
    BY <1>3, <2>1 DEF IocpInv, PortInv
  <2>4. \A q \in Ops : seol'[q] = "queued" => \E i \in 1..n : port'[i].op = q
    <3> SUFFICES ASSUME NEW q \in Ops, seol'[q] = "queued" PROVE \E i \in 1..n : port'[i].op = q
      OBVIOUS
    <3>1. CASE q = op BY <1>3, <3>1
    <3>2. CASE q # op BY <1>1, <1>3, <3>2 DEF IocpInv, OpTypeOK, PortInv
    <3> QED BY <3>1, <3>2
  <2> QED BY <1>3, <2>2, <2>3, <2>4 DEF PortInv
<1>8. \A i \in 1..Len(waitset) : waitset[i] \in CompletedEvents
  BY ElementOfSeq DEF IocpInv, LoopInv
<1>9. ListInv' BY <1>1, <1>8, ZenonT(40) DEF IocpInv, OpTypeOK, ListInv, Tells, CompletedEvents
<1>10. RunsInv' BY <1>1 DEF IocpInv, OpTypeOK, RunsInv
<1>11. RefusalLooksLikeBytes'
  BY <1>1 DEF IocpInv, OpTypeOK, RunsInv, RefusalLooksLikeBytes
<1> QED BY <1>4, <1>5, <1>6, <1>7, <1>9, <1>10, <1>11 DEF IocpInv

LEMMA AbortsIsEnds ==
  ASSUME NEW op \in Ops, KernelAborts(op)
  PROVE  KernelEnds(op, FALSE, 0, ERROR_OPERATION_ABORTED)
BY DEF KernelAborts

-----------------------------------------------------------------------------
(* The loop's own steps.                                                   *)

(* What Wait takes from the port. *)
LEMMA HeadOfPort ==
  ASSUME IocpInv, port # <<>>
  PROVE  LET p == Head(port)
         IN /\ p \in Packets /\ p = port[1] /\ 1 \in 1..Len(port)
            /\ seol[p.op] = "queued"
            /\ p.valid => fate[p.op] = "done"
            /\ ~p.valid => fate[p.op] = "failed" /\ p.err \in Errors
            /\ Tail(port) \in Seq(Packets) /\ Len(Tail(port)) = Len(port) - 1
            /\ Len(port) \in Nat
            /\ \A i \in 1..Len(Tail(port)) : Tail(port)[i] = port[i + 1]
<1> DEFINE p == Head(port)
<1>1. port \in Seq(Packets) BY DEF IocpInv, OpTypeOK
<1>2. /\ p \in Packets /\ Tail(port) \in Seq(Packets)
      /\ Len(Tail(port)) = Len(port) - 1
      /\ \A i \in 1..Len(Tail(port)) : Tail(port)[i] = port[i + 1]
  BY <1>1, HeadTailProperties
<1>3. Len(port) \in Nat \ {0} BY <1>1, EmptySeq
<1>4. p = port[1] /\ 1 \in 1..Len(port) BY <1>1, <1>3
<1>5. /\ seol[p.op] = "queued"
      /\ p.valid => fate[p.op] = "done"
      /\ ~p.valid => fate[p.op] = "failed" /\ p.err \in Errors
  BY <1>4 DEF IocpInv, PortInv
<1> QED BY <1>2, <1>3, <1>4, <1>5

LEMMA WaitInv == ASSUME IocpInv, Wait PROVE IocpInv'
<1> DEFINE p == Head(port)
           op == p.op
           ev == IF p.valid THEN Success(op, p.len) ELSE Failure(op, p.err)
           n == Len(waitset) + 1
<1>1. /\ pc = "wait" /\ port # <<>> /\ pc' = "top"
      /\ waitset' = SubmitComplete(waitset, ev)
      /\ seol' = [seol EXCEPT ![op] = "deleted"]
      /\ port' = Tail(port)
      /\ UNCHANGED <<it, canContinue, await, closed, retval, fate, runs>>
  BY DEF Wait
<1>2. /\ p \in Packets /\ p = port[1] /\ 1 \in 1..Len(port)
      /\ seol[op] = "queued"
      /\ p.valid => fate[op] = "done"
      /\ ~p.valid => fate[op] = "failed" /\ p.err \in Errors
      /\ port' \in Seq(Packets) /\ Len(port') = Len(port) - 1
      /\ Len(port) \in Nat
      /\ \A i \in 1..Len(port') : port'[i] = port[i + 1]
  BY <1>1, HeadOfPort
<1>3. op \in Ops /\ p.valid \in BOOLEAN /\ p.len \in 0..MaxLen /\ p.err \in Int
  BY <1>2 DEF Packets, Errors, ERROR_OPERATION_ABORTED, WSAECONNRESET
<1>4. /\ ev \in Events /\ ev.cb = op
      /\ p.valid => ev.error = 0 /\ ev.res = p.len
      /\ ~p.valid => ev.error = p.err
  <2>1. CASE p.valid BY <1>3, <2>1, SuccessTyped, IocpAssumption
  <2>2. CASE ~p.valid BY <1>3, <2>2, FailureTyped
  <2> QED BY <2>1, <2>2
<1>5. LoopInv'
  BY <1>1, <1>3, <1>4, CompletionInv DEF IocpInv, LoopInv, Places
<1>6. OpTypeOK' BY <1>1, <1>2, <1>3 DEF IocpInv, OpTypeOK
<1>7. SeolInv' BY <1>1, <1>2, <1>3 DEF IocpInv, OpTypeOK, SeolInv
<1>8. PortInv'
  <2>1. \A i \in 1..Len(port') :
          i + 1 \in 1..Len(port) /\ port'[i] = port[i + 1] /\ port[i + 1] \in Packets
    BY <1>2, ElementOfSeq DEF IocpInv, OpTypeOK
  <2>2. \A i \in 1..Len(port') : port'[i].op # op /\ port'[i].op \in Ops
    BY <1>2, <2>1, SMTT(40) DEF IocpInv, PortInv, Packets
  <2>3. ASSUME NEW i \in 1..Len(port')
        PROVE  /\ seol'[port'[i].op] = "queued"
               /\ port'[i].valid => fate'[port'[i].op] = "done"
               /\ ~port'[i].valid => fate'[port'[i].op] = "failed" /\ port'[i].err \in Errors
    BY <1>1, <1>3, <2>1, <2>2 DEF IocpInv, OpTypeOK, PortInv
  <2>4. \A i, j \in 1..Len(port') : port'[i].op = port'[j].op => i = j
    BY <1>2, <2>1, SMTT(40) DEF IocpInv, PortInv
  <2>5. \A q \in Ops : seol'[q] = "queued" => \E i \in 1..Len(port') : port'[i].op = q
    <3> SUFFICES ASSUME NEW q \in Ops, seol'[q] = "queued"
                 PROVE \E i \in 1..Len(port') : port'[i].op = q
      OBVIOUS
    <3>1. q # op /\ seol[q] = "queued" BY <1>1, <1>3 DEF IocpInv, OpTypeOK
    <3>2. PICK i \in 1..Len(port) : port[i].op = q BY <3>1 DEF IocpInv, PortInv
    <3>3. i - 1 \in 1..Len(port') /\ (i - 1) + 1 = i BY <1>2, <3>1, <3>2
    <3> QED BY <1>2, <3>2, <3>3
  <2> QED BY <2>3, <2>4, <2>5 DEF PortInv
<1>9. ListInv'
  <2>1. /\ Len(waitset') = n /\ Len(waitset) \in Nat
        /\ \A i \in 1..Len(waitset) : waitset'[i] = waitset[i]
        /\ waitset'[n].cb = op /\ waitset'[n].error = ev.error /\ waitset'[n].res = ev.res
    BY <1>1, <1>3, <1>4, SubmitCompleteElements, LenProperties DEF IocpInv, LoopInv
  <2> SUFFICES ASSUME NEW i \in 1..n PROVE Tells(waitset[i])'
    BY <2>1, SMTT(40) DEF ListInv
  <2>2. CASE i = n
    <3>1. seol'[op] = "deleted" BY <1>1, <1>3, SMTT(40) DEF IocpInv, OpTypeOK
    <3> QED BY <1>1, <1>2, <1>3, <1>4, <2>1, <2>2, <3>1 DEF Tells
  <2>3. CASE i # n
    <3>1. i \in 1..Len(waitset) /\ waitset'[i] = waitset[i] BY <2>1, <2>3
    <3>2. waitset[i] \in CompletedEvents /\ Tells(waitset[i])
      BY <3>1, ElementOfSeq DEF IocpInv, LoopInv, ListInv
    <3> QED BY <1>1, <1>2, <1>3, <3>1, <3>2
        DEF IocpInv, OpTypeOK, Tells, CompletedEvents
  <2> QED BY <2>2, <2>3
<1>10. RunsInv' BY <1>1, <1>2, <1>3 DEF IocpInv, OpTypeOK, RunsInv
<1>11. RefusalLooksLikeBytes' BY <1>1 DEF IocpInv, RefusalLooksLikeBytes
<1> QED BY <1>5, <1>6, <1>7, <1>8, <1>9, <1>10, <1>11 DEF IocpInv

LEMMA StartCallbackInv == ASSUME IocpInv, StartCallback PROVE IocpInv'
<1> DEFINE ev == waitset[it]
           op == ev.cb
<1>1. LoopInv' BY LoopStepInv DEF IocpInv, StartCallback
<1>2. Due(ev) BY ScannedIsDue DEF IocpInv, StartCallback
<1>3. /\ runs' = [runs EXCEPT ![op] = IF @ = 2 THEN 2 ELSE @ + 1]
      /\ retval' = [retval EXCEPT ![op] =
                      IF await[op].type \notin Transfers THEN ev.error
                      ELSE IF ev.error # 0 THEN -ev.error ELSE ev.res]
      /\ UNCHANGED <<waitset, seol, await, closed, port, fate>>
  <2>1. waitset' = waitset BY DEF StartCallback, Scan
  <2>2. UNCHANGED <<seol, await, closed, port, fate>> BY DEF StartCallback
  <2>3. /\ runs' = [runs EXCEPT ![op] = IF @ = 2 THEN 2 ELSE @ + 1]
        /\ retval' = [retval EXCEPT ![op] =
                        IF await[op].type \notin Transfers THEN ev.error
                        ELSE IF ev.error # 0 THEN -ev.error ELSE ev.res]
    BY <1>2 DEF StartCallback
  <2> QED BY <2>1, <2>2, <2>3
<1>4. ev \in CompletedEvents /\ Tells(ev)
  <2>1. it \in 1..Len(waitset) BY DEF StartCallback, Scan, IocpInv, LoopInv
  <2> QED BY <2>1, ElementOfSeq DEF IocpInv, LoopInv, ListInv
<1>5. op \in Ops /\ ev.error \in Int /\ ev.res \in Int BY <1>4 DEF CompletedEvents
<1>6. runs' \in [Ops -> 0..2] /\ \A q \in Ops : q # op => runs'[q] = runs[q]
  BY <1>3, <1>5, SMTT(40) DEF IocpInv, OpTypeOK
<1>7. /\ retval' \in [Ops -> Int]
      /\ \A q \in Ops : q # op => retval'[q] = retval[q]
      /\ await[op].type \in Transfers =>
           retval'[op] = IF ev.error # 0 THEN -ev.error ELSE ev.res
  BY <1>3, <1>5 DEF IocpInv, OpTypeOK
<1>8. OpTypeOK' BY <1>3, <1>6, <1>7 DEF IocpInv, OpTypeOK
<1>9. SeolInv' /\ PortInv' BY <1>3 DEF IocpInv, SeolInv, PortInv
<1>10. ListInv' BY <1>3 DEF IocpInv, ListInv, Tells
<1>11. RunsInv'
  <2> SUFFICES ASSUME NEW q \in Ops, runs'[q] > 0 PROVE seol[q] \in {"deleted", "leaked"}
    BY <1>3 DEF RunsInv
  <2> QED BY <1>4, <1>6 DEF IocpInv, RunsInv, Tells
<1>12. RefusalLooksLikeBytes'
  <2>1. ASSUME NEW q \in Ops, runs'[q] > 0, await[q].type \in Transfers
        PROVE  /\ fate[q] = "done" => retval'[q] \in 0..MaxLen
               /\ fate[q] = "failed" => -retval'[q] \in Errors
               /\ fate[q] = "refused" => retval'[q] \in Errors
    <3>1. CASE q # op BY <1>6, <1>7, <2>1, <3>1 DEF IocpInv, RefusalLooksLikeBytes
    <3>2. CASE q = op
      <4>1. retval'[q] = IF ev.error # 0 THEN -ev.error ELSE ev.res BY <1>7, <2>1, <3>2
      <4> QED BY <1>4, <1>5, <3>2, <4>1
          DEF Tells, Errors, ERROR_OPERATION_ABORTED, WSAECONNRESET
    <3> QED BY <3>1, <3>2
  <2>2. ASSUME NEW q \in Ops, fate[q] = "refused", await[q].type \notin Transfers
        PROVE  runs'[q] = 0
    <3>1. q # op BY <1>4, <2>2 DEF Tells
    <3> QED BY <1>6, <2>2, <3>1 DEF IocpInv, RefusalLooksLikeBytes
  <2> QED BY <1>3, <2>1, <2>2 DEF RefusalLooksLikeBytes
<1> QED BY <1>1, <1>8, <1>9, <1>10, <1>11, <1>12 DEF IocpInv

LEMMA EndCallbackInv == ASSUME IocpInv, EndCallback PROVE IocpInv'
<1>1. LoopInv' BY LoopStepInv DEF IocpInv, EndCallback
<1>2. UNCHANGED <<seol, await, closed, port, retval, fate, runs>>
  BY DEF EndCallback, iocpVars
<1>3. waitset' = Tail(waitset) /\ waitset # <<>> /\ waitset \in Seq(CompletedEvents)
  BY EraseFirst DEF EndCallback, Return, IocpInv, LoopInv
<1>4. /\ Len(waitset') = Len(waitset) - 1
      /\ \A i \in 1..Len(waitset') : waitset'[i] = waitset[i + 1]
      /\ Len(waitset) \in Nat
  BY <1>3, HeadTailProperties, LenProperties
<1>5. OpTypeOK' /\ SeolInv' /\ PortInv' /\ RunsInv' /\ RefusalLooksLikeBytes'
  BY <1>2 DEF IocpInv, OpTypeOK, SeolInv, PortInv, RunsInv, RefusalLooksLikeBytes
<1>6. ListInv' BY <1>2, <1>4 DEF IocpInv, ListInv, Tells
<1> QED BY <1>1, <1>5, <1>6 DEF IocpInv

LEMMA StepInv == IocpInv /\ [Next]_vars => IocpInv'
<1> SUFFICES ASSUME IocpInv, [Next]_vars PROVE IocpInv' OBVIOUS
<1>1. CASE \E op \in Ops, type \in Types, s \in Socks :
             Submit(op, type, s) \/ \E err \in Errors : SubmitRefused(op, type, s, err)
  BY <1>1, SubmitInv, SubmitRefusedInv
<1>2. CASE \E s \in Socks : CloseSock(s) BY <1>2, CloseInv
<1>3. CASE \E op \in Ops : \E len \in 0..MaxLen : KernelEnds(op, TRUE, len, 0)
  BY <1>3, KernelEndsInv
<1>4. CASE \E op \in Ops : KernelEnds(op, FALSE, 0, WSAECONNRESET)
  <2>1. 0 \in 0..MaxLen /\ WSAECONNRESET \in Errors \cup {0} BY IocpAssumption DEF Errors
  <2> QED BY <1>4, <2>1, KernelEndsInv
<1>5. CASE \E op \in Ops : KernelAborts(op)
  <2>1. 0 \in 0..MaxLen /\ ERROR_OPERATION_ABORTED \in Errors \cup {0}
    BY IocpAssumption DEF Errors
  <2> QED BY <1>5, <2>1, AbortsIsEnds, KernelEndsInv
<1>6. CASE StartRun \/ LoopTest \/ StartWait \/ UserEnd
  BY <1>6, LoopOnlyInv DEF StartRun, LoopTest, StartWait, UserEnd
<1>7. CASE EndCallback BY <1>7, EndCallbackInv
<1>8. CASE StartCallback BY <1>8, StartCallbackInv
<1>9. CASE Wait BY <1>9, WaitInv
<1>10. CASE UNCHANGED vars BY <1>10, LoopOnlyInv DEF vars, loopVars, iocpVars
<1> QED BY <1>1, <1>2, <1>3, <1>4, <1>5, <1>6, <1>7, <1>8, <1>9, <1>10 DEF Next, LoopStep

LEMMA Invariant == Spec => []IocpInv
<1> QED BY InitInv, StepInv, PTL DEF Spec

-----------------------------------------------------------------------------
(* The handler with the loop implements AsyncOps.                          *)

(* The abstract state. *)
Started == {op \in Ops : await[op] # Unissued}
Pending == {op \in Ops : seol[op] \in {"kernel", "queued"} \/ Lost(op)}
DueNow == IF pc = "callback" THEN Tail(Callbacks) ELSE Callbacks
Active == IF pc = "callback" THEN waitset[it].cb ELSE NoOp

LEMMA AbstractUnchanged ==
  ASSUME Started' = Started, Pending' = Pending, DueNow' = DueNow, Active' = Active
  PROVE  UNCHANGED Abstract!absVars
BY DEF Started, Pending, DueNow, Active, Abstract!absVars

LEMMA AbstractStart ==
  ASSUME NEW op \in Ops, op \notin Started, Started' = Started \cup {op}, Active' = Active,
         \/ Pending' = Pending \cup {op} /\ DueNow' = DueNow
         \/ Pending' = Pending /\ DueNow' = Append(DueNow, op)
  PROVE  Abstract!Next
<1>1. {} \in SUBSET Pending /\ Pending \ {} = Pending OBVIOUS
<1>2. Abstract!Start(op)
  BY <1>1 DEF Started, Pending, DueNow, Active, Abstract!Start
<1> QED BY <1>2 DEF Abstract!Next

LEMMA AbstractComplete ==
  ASSUME NEW op \in Ops, op \in Pending, Pending' = Pending \ {op},
         DueNow' = Append(DueNow, op), Started' = Started, Active' = Active
  PROVE  Abstract!Next
<1>1. Abstract!Complete(op)
  BY DEF Started, Pending, DueNow, Active, Abstract!Complete
<1> QED BY <1>1 DEF Abstract!Next

LEMMA AbstractCall ==
  ASSUME Active = NoOp, DueNow # <<>>, Active' = Head(DueNow), DueNow' = Tail(DueNow),
         Started' = Started, Pending' = Pending
  PROVE  Abstract!Next
<1>1. Abstract!Call BY DEF Started, Pending, DueNow, Active, Abstract!Call
<1> QED BY <1>1 DEF Abstract!Next

LEMMA AbstractFinish ==
  ASSUME Active # NoOp, Active' = NoOp, DueNow' = DueNow, Started' = Started,
         Pending' = Pending
  PROVE  Abstract!Next
<1>1. Abstract!Finish BY DEF Started, Pending, DueNow, Active, Abstract!Finish
<1> QED BY <1>1 DEF Abstract!Next

LEMMA InitRefines == Init => Abstract!Init
<1> SUFFICES ASSUME Init PROVE Abstract!Init OBVIOUS
<1>1. Started = {} /\ Pending = {}
  BY DEF Init, Started, Pending, Lost
<1>2. Callbacks = <<>>
  <2>1. waitset \in Seq(CompletedEvents) /\ waitset = <<>> BY EmptySeq DEF Init, LoopInit
  <2>2. CallbacksOf(waitset) \in Seq(Ops) /\ Len(CallbacksOf(waitset)) = 0
    BY <2>1, CallbacksTyped, EmptySeq
  <2>3. CallbacksOf(waitset) = <<>> BY <2>2, EmptySeq
  <2> QED BY <2>3 DEF Callbacks, CallbacksOf
<1>3. DueNow = <<>> /\ Active = NoOp BY <1>2 DEF Init, LoopInit, DueNow, Active
<1> QED BY <1>1, <1>3 DEF Abstract!Init, Started, Pending, DueNow, Active

(* An operation enters what the program started. *)
LEMMA StartedGrows ==
  ASSUME IocpInv, NEW op \in Ops, NEW type \in Types, NEW s \in Socks, Start(op, type, s)
  PROVE  op \notin Started /\ Started' = Started \cup {op}
<1>1. [type |-> type, sock |-> s] # Unissued BY UnissuedIsNone
<1> QED BY <1>1 DEF Start, Started, IocpInv, OpTypeOK

LEMMA SubmitRefines ==
  ASSUME IocpInv, NEW op \in Ops, NEW type \in Types, NEW s \in Socks, Submit(op, type, s)
  PROVE  Abstract!Next
<1>1. op \notin Started /\ Started' = Started \cup {op}
  BY StartedGrows DEF Submit
<1>2. /\ await[op] = Unissued
      /\ await' = [await EXCEPT ![op] = [type |-> type, sock |-> s]]
      /\ seol' = [seol EXCEPT ![op] = "kernel"]
      /\ UNCHANGED <<waitset, it, pc, fate>>
  BY DEF Submit, Start, loopVars
<1>3. Pending' = Pending \cup {op}
  <2>1. seol'[op] = "kernel" BY <1>2 DEF IocpInv, OpTypeOK
  <2>2. ASSUME NEW q \in Ops, q # op
        PROVE seol'[q] = seol[q] /\ await'[q] = await[q] /\ fate'[q] = fate[q]
    BY <1>2, <2>2 DEF IocpInv, OpTypeOK
  <2> QED BY <2>1, <2>2 DEF Pending, Lost
<1>4. DueNow' = DueNow /\ Active' = Active BY <1>2 DEF DueNow, Active, Callbacks
<1> QED BY <1>1, <1>3, <1>4, AbstractStart

LEMMA WaitRefines == ASSUME IocpInv, Wait PROVE Abstract!Next
<1> DEFINE p == Head(port)
           op == p.op
           ev == IF p.valid THEN Success(op, p.len) ELSE Failure(op, p.err)
<1>1. /\ pc = "wait" /\ port # <<>> /\ pc' = "top"
      /\ waitset' = SubmitComplete(waitset, ev)
      /\ seol' = [seol EXCEPT ![op] = "deleted"]
      /\ UNCHANGED <<await, fate>>
  BY DEF Wait
<1>2. p \in Packets /\ seol[op] = "queued" /\ fate[op] # "refused" BY <1>1, HeadOfPort
<1>3. op \in Ops /\ p.valid \in BOOLEAN /\ p.len \in Int /\ p.err \in Int
  BY <1>2, IocpAssumption DEF Packets, Errors, ERROR_OPERATION_ABORTED, WSAECONNRESET
<1>4. ev \in Events /\ ev.cb = op BY <1>3, SuccessTyped, FailureTyped
<1>5. op \in Pending /\ Pending' = Pending \ {op}
  <2>1. op \in Pending BY <1>2, <1>3 DEF Pending
  <2>2. \A q \in Ops : q # op => seol'[q] = seol[q]
    BY <1>1 DEF IocpInv, OpTypeOK
  <2>3. seol'[op] = "deleted" BY <1>1, <1>3 DEF IocpInv, OpTypeOK
  <2>4. \A q \in Ops : Lost(q)' <=> Lost(q) BY <1>1 DEF Lost
  <2>5. ~Lost(op) BY <1>2, SMTT(40) DEF Lost
  <2> HIDE DEF op
  <2> QED BY <2>1, <2>2, <2>3, <2>4, <2>5 DEF Pending
<1>6. DueNow' = Append(DueNow, op)
  <2>1. CallbacksOf(waitset') = Append(CallbacksOf(waitset), op)
    BY <1>1, <1>3, <1>4, CallbacksOfAppended DEF IocpInv, LoopInv
  <2> QED BY <1>1, <2>1 DEF DueNow, Callbacks, CallbacksOf
<1>7. Started' = Started BY <1>1 DEF Started
<1>8. Active' = Active BY <1>1 DEF Active
<1> QED BY <1>3, <1>5, <1>6, <1>7, <1>8, AbstractComplete

LEMMA SubmitRefusedRefines ==
  ASSUME IocpInv, NEW op \in Ops, NEW type \in Types, NEW s \in Socks, NEW err \in Errors,
         SubmitRefused(op, type, s, err)
  PROVE  Abstract!Next
<1> DEFINE ev == Failure(op, -err)
<1>1. op \notin Started /\ Started' = Started \cup {op}
  BY StartedGrows DEF SubmitRefused
<1>2. /\ await[op] = Unissued /\ pc \in {"setup", "callback"}
      /\ await' = [await EXCEPT ![op] = [type |-> type, sock |-> s]]
      /\ seol' = [seol EXCEPT ![op] = "leaked"]
      /\ fate' = [fate EXCEPT ![op] = "refused"]
      /\ waitset' = IF Returned(type) < 0 THEN SubmitComplete(waitset, ev) ELSE waitset
      /\ UNCHANGED <<it, pc>>
  BY DEF SubmitRefused, Start
<1>3. /\ seol'[op] = "leaked" /\ fate'[op] = "refused" /\ await'[op].type = type
      /\ seol[op] = "none" /\ fate[op] = "none"
      /\ \A q \in Ops : q # op =>
           seol'[q] = seol[q] /\ await'[q] = await[q] /\ fate'[q] = fate[q]
  BY <1>2, Fresh DEF IocpInv, OpTypeOK
<1>4. op \notin Pending BY <1>3 DEF Pending, Lost
<1>5. err \in Int /\ -err \in Int BY DEF Errors, ERROR_OPERATION_ABORTED, WSAECONNRESET
<1>6. ev \in Events /\ ev.cb = op BY <1>5, FailureTyped
<1> HIDE DEF ev
<1>7. CASE type \in Transfers
  <2>1. Returned(type) = -1 BY <1>7 DEF Returned
  <2>2. waitset' = SubmitComplete(waitset, ev) BY <1>2, <2>1
  <2>3. ~Lost(op)' BY <1>3, <2>1 DEF Lost
  <2>4. \A q \in Ops : q # op => (Lost(q)' <=> Lost(q)) BY <1>3 DEF Lost
  <2>5. Pending' = Pending BY <1>3, <1>4, <2>3, <2>4 DEF Pending
  <2>6. CallbacksOf(waitset') = Append(CallbacksOf(waitset), op)
    BY <1>6, <2>2, CallbacksOfAppended DEF IocpInv, LoopInv
  <2>7. Callbacks' = Append(Callbacks, op) BY <2>6 DEF Callbacks, CallbacksOf
  <2>8. pc = "callback" => /\ Tail(Callbacks') = Append(Tail(Callbacks), op)
                          /\ waitset'[it'].cb = waitset[it].cb
    <3> SUFFICES ASSUME pc = "callback"
                 PROVE  /\ Tail(Callbacks') = Append(Tail(Callbacks), op)
                        /\ waitset'[it'].cb = waitset[it].cb
      OBVIOUS
    <3>1. waitset \in Seq(CompletedEvents) /\ waitset # <<>> /\ it = 1
      BY DEF IocpInv, LoopInv
    <3>2. CallbacksOf(waitset) \in Seq(Ops) /\ CallbacksOf(waitset) # <<>>
      BY <3>1, CallbacksTyped, CallbacksOfTail
    <3>3. Tail(Callbacks') = Append(Tail(Callbacks), op)
      BY <2>6, <3>2, HeadTailAppend DEF Callbacks, CallbacksOf
    <3>4. 1 \in 1..Len(waitset) BY <3>1, EmptySeq
    <3>5. waitset'[1] = waitset[1]
      BY <1>6, <2>2, <3>1, <3>4, SubmitCompleteElements
    <3> QED BY <1>2, <3>1, <3>3, <3>5
  <2>9. DueNow' = Append(DueNow, op) /\ Active' = Active
    BY <1>2, <2>7, <2>8 DEF DueNow, Active
  <2> QED BY <1>1, <2>5, <2>9, AbstractStart
<1>8. CASE type \notin Transfers
  <2>1. Returned(type) = 0 BY <1>8 DEF Returned
  <2>2. waitset' = waitset BY <1>2, <2>1
  <2>3. Lost(op)' BY <1>3, <2>1 DEF Lost
  <2>4. \A q \in Ops : q # op => (Lost(q)' <=> Lost(q)) BY <1>3 DEF Lost
  <2>5. Pending' = Pending \cup {op} BY <1>3, <1>4, <2>3, <2>4 DEF Pending
  <2>6. DueNow' = DueNow /\ Active' = Active BY <1>2, <2>2 DEF DueNow, Active, Callbacks
  <2> QED BY <1>1, <2>5, <2>6, AbstractStart
<1> QED BY <1>7, <1>8

LEMMA StartCallbackRefines == ASSUME IocpInv, StartCallback PROVE Abstract!Next
<1>1. /\ pc = "scan" /\ pc' = "callback" /\ it \in 1..Len(waitset)
      /\ UNCHANGED <<waitset, it, seol, await, fate>>
  BY ScannedIsDue DEF StartCallback, Scan, IocpInv, LoopInv
<1>2. waitset \in Seq(CompletedEvents) /\ it = 1 BY DEF IocpInv, LoopInv
<1>3. waitset # <<>> BY <1>1, <1>2, EmptySeq
<1>4. CallbacksOf(waitset) # <<>> /\ Head(CallbacksOf(waitset)) = waitset[1].cb
  BY <1>2, <1>3, CallbacksOfTail
<1>5. Callbacks = CallbacksOf(waitset) /\ Callbacks' = Callbacks
  BY <1>1 DEF Callbacks, CallbacksOf
<1>6. Started' = Started /\ Pending' = Pending BY <1>1 DEF Started, Pending, Lost
<1>7. Active = NoOp /\ DueNow = Callbacks BY <1>1 DEF Active, DueNow
<1>8. Active' = waitset[1].cb /\ DueNow' = Tail(Callbacks)
  BY <1>1, <1>2, <1>5 DEF Active, DueNow
<1> QED BY <1>4, <1>5, <1>6, <1>7, <1>8, AbstractCall

LEMMA EndCallbackRefines == ASSUME IocpInv, EndCallback PROVE Abstract!Next
<1>1. /\ pc = "callback" /\ pc' = "scan" /\ it = 1 /\ waitset # <<>>
      /\ waitset \in Seq(CompletedEvents)
      /\ waitset' = RemoveAt(waitset, 1)
      /\ UNCHANGED <<seol, await, fate>>
  BY DEF EndCallback, Return, iocpVars, IocpInv, LoopInv
<1>2. waitset' = Tail(waitset) BY <1>1, EraseFirst
<1>3. CallbacksOf(waitset') = Tail(CallbacksOf(waitset)) BY <1>1, <1>2, CallbacksOfTail
<1>4. DueNow' = DueNow BY <1>1, <1>3 DEF DueNow, Callbacks, CallbacksOf
<1>5. Active # NoOp
  <2>1. 1 \in 1..Len(waitset) BY <1>1, EmptySeq
  <2>2. waitset[1] \in CompletedEvents BY <1>1, <2>1, ElementOfSeq
  <2> QED BY <1>1, <2>2, NoOpAssumption DEF Active, CompletedEvents
<1>6. Active' = NoOp BY <1>1 DEF Active
<1>7. Started' = Started /\ Pending' = Pending BY <1>1 DEF Started, Pending, Lost
<1> QED BY <1>4, <1>5, <1>6, <1>7, AbstractFinish

(* Steps the abstract specification does not see. *)
LEMMA StutterRefines ==
  ASSUME IocpInv,
         \/ StartRun \/ LoopTest \/ StartWait \/ UserEnd
         \/ \E s \in Socks : CloseSock(s)
         \/ UNCHANGED vars
  PROVE  UNCHANGED Abstract!absVars
<1>1. /\ UNCHANGED <<waitset, seol, await, fate>>
      /\ pc' = "callback" <=> pc = "callback"
      /\ pc = "callback" => it' = it
  BY DEF StartRun, LoopTest, StartWait, UserEnd, Run, Enter, EnterWait, End, CloseSock,
         iocpVars, loopVars, vars
<1>2. Started' = Started /\ Pending' = Pending BY <1>1 DEF Started, Pending, Lost
<1>3. Callbacks' = Callbacks BY <1>1 DEF Callbacks
<1>4. DueNow' = DueNow /\ Active' = Active BY <1>1, <1>3 DEF DueNow, Active
<1> QED BY <1>2, <1>4, AbstractUnchanged

LEMMA KernelEndsRefines ==
  ASSUME IocpInv, NEW op \in Ops, NEW valid \in BOOLEAN, NEW len, NEW err,
         KernelEnds(op, valid, len, err)
  PROVE  UNCHANGED Abstract!absVars
<1>1. /\ seol[op] = "kernel" /\ fate[op] = "none"
      /\ seol' = [seol EXCEPT ![op] = "queued"]
      /\ fate' = [fate EXCEPT ![op] = IF valid THEN "done" ELSE "failed"]
      /\ UNCHANGED <<waitset, it, pc, await>>
  BY DEF KernelEnds, loopVars, IocpInv, SeolInv
<1>2. /\ seol'[op] = "queued" /\ fate'[op] # "refused"
      /\ \A q \in Ops : q # op => seol'[q] = seol[q] /\ fate'[q] = fate[q]
  BY <1>1 DEF IocpInv, OpTypeOK
<1>3. \A q \in Ops : Lost(q)' <=> Lost(q) BY <1>1, <1>2 DEF Lost
<1>4. Started' = Started BY <1>1 DEF Started
<1>5. Pending' = Pending BY <1>1, <1>2, <1>3 DEF Pending
<1>6. DueNow' = DueNow /\ Active' = Active BY <1>1 DEF DueNow, Active, Callbacks
<1> QED BY <1>4, <1>5, <1>6, AbstractUnchanged

LEMMA StepRefines == IocpInv /\ [Next]_vars => [Abstract!Next]_(Abstract!absVars)
<1> SUFFICES ASSUME IocpInv, [Next]_vars PROVE [Abstract!Next]_(Abstract!absVars)
  OBVIOUS
<1>1. CASE \E op \in Ops, type \in Types, s \in Socks :
             Submit(op, type, s) \/ \E err \in Errors : SubmitRefused(op, type, s, err)
  BY <1>1, SubmitRefines, SubmitRefusedRefines
<1>2. CASE \E op \in Ops : \/ \E len \in 0..MaxLen : KernelEnds(op, TRUE, len, 0)
                          \/ KernelEnds(op, FALSE, 0, WSAECONNRESET)
                          \/ KernelAborts(op)
  BY <1>2, AbortsIsEnds, KernelEndsRefines
<1>3. CASE \/ StartRun \/ LoopTest \/ StartWait \/ UserEnd
           \/ \E s \in Socks : CloseSock(s)
           \/ UNCHANGED vars
  BY <1>3, StutterRefines
<1>4. CASE EndCallback BY <1>4, EndCallbackRefines
<1>5. CASE StartCallback BY <1>5, StartCallbackRefines
<1>6. CASE Wait BY <1>6, WaitRefines
<1> QED BY <1>1, <1>2, <1>3, <1>4, <1>5, <1>6 DEF Next, LoopStep

-----------------------------------------------------------------------------
(* Each SEOL is deleted exactly when its packet was taken from the port,   *)
(* so the kernel never writes to a deleted one; the callback runs only     *)
(* after (winiocpimpl.h:33, 38-45, 288-292, 331-332).                      *)
THEOREM SeolIsFreedOnce == Spec => []SeolOutlivesItsCall
<1>1. IocpInv => SeolOutlivesItsCall
  <2> SUFFICES ASSUME IocpInv, NEW op \in Ops
               PROVE  /\ seol[op] = "queued" <=> \E i \in 1..Len(port) : port[i].op = op
                      /\ seol[op] = "deleted" => fate[op] \in {"done", "failed"}
                      /\ (runs[op] > 0 \/ \E i \in 1..Len(waitset) : waitset[i].cb = op)
                           => seol[op] \in {"deleted", "leaked"}
    BY DEF SeolOutlivesItsCall
  <2>1. seol[op] = "queued" <=> \E i \in 1..Len(port) : port[i].op = op
    BY DEF IocpInv, PortInv
  <2>2. seol[op] = "deleted" => fate[op] \in {"done", "failed"}
    BY DEF IocpInv, OpTypeOK, SeolInv
  <2>3. (runs[op] > 0 \/ \E i \in 1..Len(waitset) : waitset[i].cb = op)
          => seol[op] \in {"deleted", "leaked"}
    BY DEF IocpInv, RunsInv, ListInv, Tells
  <2> QED BY <2>1, <2>2, <2>3
<1> QED BY <1>1, Invariant, PTL

(* An error a transfer meets at once is negated twice and reaches the      *)
(* coroutine as a number of bytes; a later one is negative.  An AcceptEx   *)
(* or ConnectEx that fails at once is never called back                    *)
(* (winiocpimpl.h:42, 80, 114, 288; tcpsocket.h:116-121).                  *)
THEOREM RefusalIsPositive == Spec => []RefusalLooksLikeBytes
<1>1. IocpInv => RefusalLooksLikeBytes BY DEF IocpInv
<1> QED BY <1>1, Invariant, PTL

(* Whatever sockets and operations there are, no operation displaces       *)
(* another, and every completion is called once and in order               *)
(* (winiocp.h:39-47, winiocpimpl.h:25-46, 280-333, context.h:45-60).       *)
THEOREM CompletionPortImplementsAsyncOps == Spec => ImplementsAsyncOps
<1>1. Init => Abstract!Init BY InitRefines
<1>2. IocpInv /\ [Next]_vars => [Abstract!Next]_(Abstract!absVars) BY StepRefines
<1> QED BY <1>1, <1>2, Invariant, PTL DEF Spec, ImplementsAsyncOps, Abstract!Spec
=============================================================================
