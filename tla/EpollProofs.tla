---------------------------- MODULE EpollProofs ----------------------------
(***************************************************************************)
(* Epoll keeps its structural invariant: each variable has its type, and a *)
(* slot, a completed event and a call in progress refer to an operation on *)
(* the socket they belong to; it loses no readiness that it does not drop  *)
(* knowingly, and heeds its flags.  The second half is about delivery: the *)
(* inductive invariants behind ExactlyOnce and the refinement of AsyncOps, *)
(* for which the steps are first sorted by what they do to operations,     *)
(* whatever else they change.                                              *)
(***************************************************************************)
EXTENDS EpollInv, EpollRefinement, ContextProofs

-----------------------------------------------------------------------------
(* The kernel: the types of descriptors and of the outcomes of calls. *)

LEMMA Bounds == MaxIn \in Nat /\ 0 \in 0..MaxIn /\ 1 \in 0..MaxIn /\ -1 \in -1..MaxIn
  BY KernelAssumption

LEMMA ClosedFdTyped == ClosedFd \in Fds
  BY Bounds DEF ClosedFd, Fds, Conns

LEMMA AcceptedFdTyped == AcceptedFd \in Fds
  BY Bounds DEF AcceptedFd, ClosedFd, Fds, Conns

LEMMA OkTyped == ASSUME NEW n \in 0..MaxIn, NEW fd \in Fds PROVE Ok(n, fd) \in Outcomes
  BY Bounds DEF Ok, Outcomes

LEMMA FailTyped ==
  ASSUME NEW e \in Nat, NEW fd \in Fds PROVE Fail(e, fd) \in Outcomes
  BY Bounds DEF Fail, Outcomes

LEMMA WouldBlockTyped == ASSUME NEW fd \in Fds PROVE WouldBlock(fd) \subseteq Outcomes
  BY FailTyped DEF WouldBlock, EAGAIN

LEMMA EpollAddTyped ==
  ASSUME NEW kind, NEW fd \in Fds PROVE EpollAdd(kind, fd) \in Fds
<1>1. ASSUME NEW b \in BOOLEAN PROVE [fd EXCEPT !.reg = TRUE, !.ready = b] \in Fds
  BY DEF Fds
<1> QED BY <1>1 DEF EpollAdd

LEMMA EpollDelTyped == ASSUME NEW fd \in Fds PROVE EpollDel(fd) \in Fds
  BY DEF EpollDel, Fds

LEMMA WakeTyped == ASSUME NEW fd \in Fds PROVE Wake(fd) \in Fds
  BY DEF Wake, Fds

LEMMA RecvMsgTyped ==
  ASSUME NEW kind, NEW fd \in Fds PROVE RecvMsg(kind, fd) \subseteq Outcomes
<1>1. [fd EXCEPT !.err = FALSE] \in Fds BY DEF Fds
<1>2. ASSUME NEW n \in 1..fd.in PROVE [fd EXCEPT !.in = @ - n] \in Fds
  <2>1. fd.in - n \in 0..MaxIn BY Bounds DEF Fds
  <2> QED BY <2>1 DEF Fds
<1>3. fd.in \in 0..MaxIn /\ MaxIn \in Nat BY KernelAssumption DEF Fds
<1>4. ASSUME fd.in > 0, NEW n \in 1..(IF kind = "UDP" THEN 1 ELSE fd.in)
      PROVE Ok(n, [fd EXCEPT !.in = @ - n]) \in Outcomes
  BY <1>2, <1>3, <1>4, OkTyped
<1>5. Fail(ECONNRESET, [fd EXCEPT !.err = FALSE]) \in Outcomes
  BY <1>1, FailTyped DEF ECONNRESET
<1>6. Ok(0, fd) \in Outcomes /\ Fail(ENOTCONN, fd) \in Outcomes
  BY <1>3, OkTyped, FailTyped DEF ENOTCONN
<1>7. fd.err \in BOOLEAN /\ fd.eof \in BOOLEAN BY DEF Fds
<1> QED BY <1>3, <1>4, <1>5, <1>6, <1>7, WouldBlockTyped DEF RecvMsg

LEMMA SendMsgTyped ==
  ASSUME NEW fd \in Fds PROVE SendMsg(fd) \subseteq Outcomes
<1>1. [fd EXCEPT !.err = FALSE] \in Fds BY DEF Fds
<1>2. ASSUME NEW b \in BOOLEAN PROVE [fd EXCEPT !.room = b] \in Fds BY DEF Fds
<1>3. Fail(ECONNRESET, [fd EXCEPT !.err = FALSE]) \in Outcomes
  BY <1>1, FailTyped DEF ECONNRESET
<1>4. Fail(EPIPE, fd) \in Outcomes BY FailTyped DEF EPIPE
<1>5. ASSUME NEW b \in BOOLEAN PROVE Ok(1, [fd EXCEPT !.room = b]) \in Outcomes
  BY <1>2, OkTyped, KernelAssumption
<1>6. fd.err \in BOOLEAN /\ fd.shutW \in BOOLEAN /\ fd.room \in BOOLEAN BY DEF Fds
<1> QED BY <1>3, <1>4, <1>5, <1>6, WouldBlockTyped DEF SendMsg

LEMMA AcceptCallTyped ==
  ASSUME NEW fd \in Fds PROVE AcceptCall(fd) \subseteq Outcomes
<1>1. ASSUME fd.in # 0 PROVE [fd EXCEPT !.in = @ - 1] \in Fds
  <2>1. fd.in - 1 \in 0..MaxIn BY <1>1, Bounds DEF Fds
  <2> QED BY <2>1 DEF Fds
<1>2. ASSUME fd.in # 0 PROVE Ok(0, [fd EXCEPT !.in = @ - 1]) \in Outcomes
  BY <1>1, <1>2, OkTyped, KernelAssumption
<1>3. Fail(EMFILE, fd) \in Outcomes BY FailTyped DEF EMFILE
<1> QED BY <1>2, <1>3, WouldBlockTyped DEF AcceptCall

LEMMA ConnectCallTyped ==
  ASSUME NEW fd \in Fds PROVE ConnectCall(fd) \subseteq Outcomes
<1>1. [fd EXCEPT !.err = FALSE] \in Fds /\ [fd EXCEPT !.conn = "syn"] \in Fds
  BY DEF Fds, Conns
<1>2. ASSUME NEW e \in {EINPROGRESS, ENETUNREACH, EAGAIN, EALREADY, EISCONN, ECONNREFUSED}
      PROVE e \in Nat
  BY DEF EINPROGRESS, ENETUNREACH, EAGAIN, EALREADY, EISCONN, ECONNREFUSED
<1>3. fd.conn \in Conns BY DEF Fds
<1>4. CASE fd.conn = "idle"
  BY <1>1, <1>2, <1>4, FailTyped DEF ConnectCall
<1>5. CASE fd.conn = "syn"
  BY <1>2, <1>5, FailTyped DEF ConnectCall
<1>6. CASE fd.conn = "est"
  BY <1>2, <1>6, FailTyped, OkTyped, KernelAssumption DEF ConnectCall
<1>7. CASE fd.conn \in {"refused", "reset"}
  BY <1>1, <1>2, <1>7, FailTyped DEF ConnectCall
<1> QED BY <1>3, <1>4, <1>5, <1>6, <1>7 DEF Conns

LEMMA SetTimeTyped ==
  ASSUME NEW fd \in Fds, NEW zero \in BOOLEAN PROVE SetTime(fd, zero) \in Fds
  BY Bounds DEF SetTime, Fds

-----------------------------------------------------------------------------
(* What the environment does to a descriptor, and a call of the program    *)
(* that changes its connection state, wakes whoever polls it.              *)
Woken(fd, new) == new \in Fds /\ new.reg = fd.reg /\ new.ready = new.reg

LEMMA WakeWakes ==
  ASSUME NEW fd \in Fds, NEW new \in Fds, new.reg = fd.reg
  PROVE Woken(fd, Wake(new))
  BY WakeTyped DEF Woken, Wake, Fds

LEMMA ArriveWakes ==
  ASSUME NEW kind, NEW fd \in Fds, NEW new \in Arrive(kind, fd)
  PROVE Woken(fd, new) /\ new.eof = fd.eof /\ new.conn = fd.conn
<1> DEFINE f == [fd EXCEPT !.in = @ + 1]
<1>1. fd.in < MaxIn /\ new = Wake(f) BY DEF Arrive
<1>2. f \in Fds /\ f.reg = fd.reg /\ f.eof = fd.eof /\ f.conn = fd.conn
  BY <1>1, KernelAssumption DEF Fds
<1>3. Wake(f).eof = f.eof /\ Wake(f).conn = f.conn BY <1>2 DEF Wake, Fds
<1> QED BY <1>1, <1>2, <1>3, WakeWakes

LEMMA PeerFinWakes ==
  ASSUME NEW kind, NEW fd \in Fds, NEW new \in PeerFin(kind, fd)
  PROVE Woken(fd, new) /\ kind = "TCP"
<1> DEFINE f == [fd EXCEPT !.eof = TRUE]
<1>1. f \in Fds /\ f.reg = fd.reg BY DEF Fds
<1>2. kind = "TCP" /\ new = Wake(f) BY DEF PeerFin
<1> QED BY <1>1, <1>2, WakeWakes

LEMMA PeerResetWakes ==
  ASSUME NEW kind, NEW fd \in Fds, NEW new \in PeerReset(kind, fd)
  PROVE Woken(fd, new) /\ kind = "TCP"
<1> DEFINE c == IF fd.conn = "syn" THEN "refused" ELSE "reset"
           f == [fd EXCEPT !.conn = c, !.err = TRUE, !.eof = TRUE, !.shutW = TRUE]
<1>1. f \in Fds /\ f.reg = fd.reg BY DEF Fds, Conns
<1>2. kind = "TCP" /\ new = Wake(f) BY DEF PeerReset
<1> QED BY <1>1, <1>2, WakeWakes

LEMMA IcmpErrorWakes ==
  ASSUME NEW kind, NEW fd \in Fds, NEW new \in IcmpError(kind, fd)
  PROVE Woken(fd, new) /\ new.eof = fd.eof /\ new.conn = fd.conn
<1> DEFINE f == [fd EXCEPT !.err = TRUE]
<1>1. f \in Fds /\ f.reg = fd.reg /\ f.eof = fd.eof /\ f.conn = fd.conn BY DEF Fds
<1>2. new = Wake(f) BY DEF IcmpError
<1>3. Wake(f).eof = f.eof /\ Wake(f).conn = f.conn BY <1>1 DEF Wake, Fds
<1> QED BY <1>1, <1>2, <1>3, WakeWakes

LEMMA EstablishedWakes ==
  ASSUME NEW fd \in Fds, NEW new \in Established(fd)
  PROVE Woken(fd, new) /\ new.eof = fd.eof /\ new.conn = "est"
<1> DEFINE f == [fd EXCEPT !.conn = "est"]
<1>1. f \in Fds /\ f.reg = fd.reg /\ f.eof = fd.eof /\ f.conn = "est" BY DEF Fds, Conns
<1>2. new = Wake(f) BY DEF Established
<1>3. Wake(f).eof = f.eof /\ Wake(f).conn = f.conn BY <1>1 DEF Wake, Fds
<1> QED BY <1>1, <1>2, <1>3, WakeWakes

LEMMA DrainWakes ==
  ASSUME NEW kind, NEW fd \in Fds, NEW new \in Drain(kind, fd)
  PROVE Woken(fd, new) /\ new.eof = fd.eof /\ new.conn = fd.conn
<1> DEFINE f == [fd EXCEPT !.room = TRUE]
<1>1. f \in Fds /\ f.reg = fd.reg /\ f.eof = fd.eof /\ f.conn = fd.conn BY DEF Fds
<1>2. new = Wake(f) BY DEF Drain
<1>3. Wake(f).eof = f.eof /\ Wake(f).conn = f.conn BY <1>1 DEF Wake, Fds
<1> QED BY <1>1, <1>2, <1>3, WakeWakes

LEMMA ExpireWakes ==
  ASSUME NEW fd \in Fds, NEW new \in Expire(fd)
  PROVE Woken(fd, new) /\ new.eof = fd.eof /\ new.conn = fd.conn
<1> DEFINE f == [fd EXCEPT !.in = 1, !.armed = FALSE]
<1>1. f \in Fds /\ f.reg = fd.reg /\ f.eof = fd.eof /\ f.conn = fd.conn
  BY Bounds DEF Fds
<1>2. new = Wake(f) BY DEF Expire
<1>3. Wake(f).eof = f.eof /\ Wake(f).conn = f.conn BY <1>1 DEF Wake, Fds
<1> QED BY <1>1, <1>2, <1>3, WakeWakes

-----------------------------------------------------------------------------
(* A system call leaves the registration alone and makes no direction      *)
(* ready that was not.                                                     *)
Quiet(kind, fd, new) ==
  /\ new \in Fds
  /\ new.reg = fd.reg /\ new.ready = fd.ready
  /\ Mask(kind, new) \cap {"IN", "OUT"} \subseteq Mask(kind, fd)

LEMMA QuietSelf == ASSUME NEW kind, NEW fd \in Fds PROVE Quiet(kind, fd, fd)
  BY DEF Quiet

LEMMA QuietLess ==
  ASSUME NEW kind, NEW fd \in Fds, NEW new \in Fds,
         new.reg = fd.reg, new.ready = fd.ready, new.conn = fd.conn, new.eof = fd.eof,
         new.in <= fd.in, new.room => fd.room, new.shutW = fd.shutW
  PROVE Quiet(kind, fd, new)
<1>1. "IN" \in Mask(kind, new) => "IN" \in Mask(kind, fd)
  BY KernelAssumption DEF Mask, Fds
<1>2. "OUT" \in Mask(kind, new) => "OUT" \in Mask(kind, fd)
  BY DEF Mask, Fds
<1> QED BY <1>1, <1>2 DEF Quiet

(* What each call may leave of the descriptor. *)
LEMMA RecvMsgLeaves ==
  ASSUME NEW kind, NEW fd \in Fds, NEW o \in RecvMsg(kind, fd)
  PROVE  \/ o.fd = fd
         \/ o.fd = [fd EXCEPT !.err = FALSE]
         \/ \E n \in 1..fd.in : o.fd = [fd EXCEPT !.in = @ - n]
<1>1. fd.in \in Nat /\ fd.err \in BOOLEAN /\ fd.eof \in BOOLEAN BY Bounds DEF Fds
<1>2. CASE fd.err /\ (kind = "UDP" \/ fd.in = 0)
  <2>1. o = Fail(ECONNRESET, [fd EXCEPT !.err = FALSE])
    BY <1>1, <1>2 DEF RecvMsg
  <2> QED BY <2>1 DEF Fail
<1>3. CASE fd.in > 0 /\ ~(kind = "UDP" /\ fd.err)
  <2>1. PICK n \in 1..(IF kind = "UDP" THEN 1 ELSE fd.in) :
          o = Ok(n, [fd EXCEPT !.in = @ - n])
    BY <1>1, <1>3 DEF RecvMsg
  <2>2. n \in 1..fd.in BY <1>1, <1>3
  <2> QED BY <2>1, <2>2 DEF Ok
<1>4. CASE fd.in = 0 /\ ~fd.err
  <2>1. \/ o = Ok(0, fd)
        \/ o = Fail(ENOTCONN, fd)
        \/ o \in WouldBlock(fd)
    BY <1>1, <1>4 DEF RecvMsg
  <2> QED BY <2>1 DEF Ok, Fail, WouldBlock
<1> QED BY <1>1, <1>2, <1>3, <1>4

LEMMA SendMsgLeaves ==
  ASSUME NEW fd \in Fds, NEW o \in SendMsg(fd)
  PROVE  \/ o.fd = fd
         \/ o.fd = [fd EXCEPT !.err = FALSE]
         \/ fd.room /\ \E b \in BOOLEAN : o.fd = [fd EXCEPT !.room = b]
<1>1. /\ fd.err \in BOOLEAN /\ fd.shutW \in BOOLEAN /\ fd.room \in BOOLEAN
  BY DEF Fds
<1>2. \/ o = Fail(ECONNRESET, [fd EXCEPT !.err = FALSE])
      \/ o = Fail(EPIPE, fd)
      \/ fd.room /\ \E b \in BOOLEAN : o = Ok(1, [fd EXCEPT !.room = b])
      \/ o \in WouldBlock(fd)
  BY <1>1 DEF SendMsg
<1>3. CASE o = Fail(ECONNRESET, [fd EXCEPT !.err = FALSE]) BY <1>3 DEF Fail
<1>4. CASE o = Fail(EPIPE, fd) BY <1>4 DEF Fail
<1>5. ASSUME fd.room, NEW b \in BOOLEAN, o = Ok(1, [fd EXCEPT !.room = b])
      PROVE o.fd = [fd EXCEPT !.room = b]
  BY <1>5 DEF Ok
<1>6. CASE o \in WouldBlock(fd) BY <1>6 DEF Fail, WouldBlock
<1> QED BY <1>2, <1>3, <1>4, <1>5, <1>6

LEMMA ConnectCallLeaves ==
  ASSUME NEW fd \in Fds, NEW o \in ConnectCall(fd)
  PROVE  \/ o.fd = fd
         \/ o.fd = [fd EXCEPT !.err = FALSE]
         \/ fd.conn = "idle" /\ o.fd = [fd EXCEPT !.conn = "syn"]
<1>0. fd.conn \in Conns BY DEF Fds
<1>1. CASE fd.conn = "idle"
  <2>1. \/ o = Fail(EINPROGRESS, [fd EXCEPT !.conn = "syn"])
        \/ o = Fail(ENETUNREACH, fd)
        \/ o = Fail(EAGAIN, fd)
    BY <1>1 DEF ConnectCall
  <2> QED BY <1>1, <2>1 DEF Fail
<1>2. CASE fd.conn = "syn" BY <1>2 DEF ConnectCall, Fail
<1>3. CASE fd.conn = "est" BY <1>3 DEF ConnectCall, Fail, Ok
<1>4. CASE fd.conn = "refused" BY <1>4 DEF ConnectCall, Fail
<1>5. CASE fd.conn = "reset" BY <1>5 DEF ConnectCall, Fail
<1> QED BY <1>0, <1>1, <1>2, <1>3, <1>4, <1>5 DEF Conns

LEMMA AcceptCallLeaves ==
  ASSUME NEW fd \in Fds, NEW o \in AcceptCall(fd)
  PROVE  \/ o.fd = fd
         \/ fd.in # 0 /\ o.fd = [fd EXCEPT !.in = @ - 1]
  BY DEF AcceptCall, WouldBlock, Ok, Fail

-----------------------------------------------------------------------------
(* What every step keeps of a descriptor of some kind, ...                 *)
Keeps(kind, fd, new) ==
  /\ kind \in CalmKinds /\ Calm(fd) => Calm(new)
  /\ kind # "TIMER" /\ ~fd.armed => ~new.armed
  /\ kind = "TIMER" /\ (fd.in > 0 => ~fd.armed) => (new.in > 0 => ~new.armed)
  /\ kind = "SIGNALFD" /\ ~fd.armed => new.in >= fd.in
  /\ kind = "TCP" => /\ Settled(fd) => Settled(new)
                     /\ Won(fd) => Won(new)
                     /\ Refusal(fd) => Refusal(new)
                     /\ new.err => fd.err \/ Settled(new)
  /\ new.err => fd.err \/ Faults \cap {"RST", "ICMP"} # {}

(* ... and what the environment and most calls leave as it is.             *)
Alike(fd, new) == new.open = fd.open /\ new.reg = fd.reg /\ new.nb = fd.nb

LEMMA KeepsSelf == ASSUME NEW kind, NEW fd \in Fds PROVE Keeps(kind, fd, fd) /\ Alike(fd, fd)
  BY Bounds DEF Keeps, Fds, Alike

LEMMA KeepsState ==
  ASSUME NEW kind, NEW fd \in Fds, NEW new \in Fds, new.err => fd.err,
         new.conn = fd.conn, new.eof = fd.eof, new.shutW = fd.shutW, new.in = fd.in,
         new.armed = fd.armed
  PROVE  Keeps(kind, fd, new)
<1>1. fd.in \in Int BY Bounds DEF Fds
<1> QED BY <1>1 DEF Keeps, Calm, Settled, Won, Refusal

LEMMA KeepsTaken ==
  ASSUME NEW kind \in {"TCP", "UDP", "LISTENER"}, NEW fd \in Fds, NEW new \in Fds,
         new.err => fd.err, new.conn = fd.conn, new.eof = fd.eof, new.shutW = fd.shutW,
         new.armed = fd.armed
  PROVE  Keeps(kind, fd, new)
  BY DEF Keeps, Calm, Settled, Won, Refusal

LEMMA RecvMsgKeeps ==
  ASSUME NEW kind \in {"TCP", "UDP"}, NEW fd \in Fds, NEW o \in RecvMsg(kind, fd)
  PROVE  Keeps(kind, fd, o.fd) /\ Alike(fd, o.fd)
<1>1. o.fd \in Fds BY RecvMsgTyped DEF Outcomes
<1>2. \/ o.fd = fd
      \/ o.fd = [fd EXCEPT !.err = FALSE]
      \/ \E n \in 1..fd.in : o.fd = [fd EXCEPT !.in = @ - n]
  BY RecvMsgLeaves
<1>3. /\ (o.fd.err => fd.err) /\ o.fd.conn = fd.conn /\ o.fd.eof = fd.eof
      /\ o.fd.shutW = fd.shutW /\ o.fd.armed = fd.armed /\ Alike(fd, o.fd)
  BY <1>2 DEF Fds, Alike
<1> QED BY <1>1, <1>3, KeepsTaken

LEMMA SendMsgKeeps ==
  ASSUME NEW kind \in {"TCP", "UDP"}, NEW fd \in Fds, NEW o \in SendMsg(fd)
  PROVE  Keeps(kind, fd, o.fd) /\ Alike(fd, o.fd)
<1>1. o.fd \in Fds BY SendMsgTyped DEF Outcomes
<1>2. \/ o.fd = fd
      \/ o.fd = [fd EXCEPT !.err = FALSE]
      \/ \E b \in BOOLEAN : o.fd = [fd EXCEPT !.room = b]
  BY SendMsgLeaves
<1>3. /\ (o.fd.err => fd.err) /\ o.fd.conn = fd.conn /\ o.fd.eof = fd.eof
      /\ o.fd.shutW = fd.shutW /\ o.fd.armed = fd.armed /\ Alike(fd, o.fd)
  BY <1>2 DEF Fds, Alike
<1> QED BY <1>1, <1>3, KeepsTaken

LEMMA AcceptCallKeeps ==
  ASSUME NEW fd \in Fds, NEW o \in AcceptCall(fd)
  PROVE  Keeps("LISTENER", fd, o.fd) /\ Alike(fd, o.fd)
<1>1. o.fd \in Fds BY AcceptCallTyped DEF Outcomes
<1>2. o.fd = fd \/ o.fd = [fd EXCEPT !.in = @ - 1]
  BY AcceptCallLeaves
<1>3. /\ (o.fd.err => fd.err) /\ o.fd.conn = fd.conn /\ o.fd.eof = fd.eof
      /\ o.fd.shutW = fd.shutW /\ o.fd.armed = fd.armed /\ Alike(fd, o.fd)
  BY <1>2 DEF Fds, Alike
<1> QED BY <1>1, <1>3, KeepsTaken

(* connect() only says that it is done on a connection that is there.      *)
LEMMA ConnectCallKeeps ==
  ASSUME NEW fd \in Fds, NEW o \in ConnectCall(fd)
  PROVE  /\ Keeps("TCP", fd, o.fd) /\ Alike(fd, o.fd)
         /\ IntResult(o) = 0 => Settled(o.fd) /\ Won(o.fd)
<1>1. o.fd \in Fds /\ fd.conn \in Conns BY ConnectCallTyped DEF Outcomes, Fds
<1>2. \/ o.fd = fd
      \/ o.fd = [fd EXCEPT !.err = FALSE]
      \/ fd.conn = "idle" /\ o.fd = [fd EXCEPT !.conn = "syn"]
  BY ConnectCallLeaves
<1>3. Keeps("TCP", fd, o.fd) /\ Alike(fd, o.fd)
  <2>1. CASE o.fd = fd \/ o.fd = [fd EXCEPT !.err = FALSE]
    <3>1. /\ (o.fd.err => fd.err) /\ o.fd.conn = fd.conn /\ o.fd.eof = fd.eof
          /\ o.fd.shutW = fd.shutW /\ o.fd.armed = fd.armed /\ Alike(fd, o.fd)
      BY <2>1 DEF Fds, Alike
    <3> QED BY <1>1, <3>1, KeepsTaken
  <2>2. CASE fd.conn = "idle" /\ o.fd = [fd EXCEPT !.conn = "syn"]
    <3>1. /\ o.fd.err = fd.err /\ o.fd.conn = "syn"
          /\ o.fd.armed = fd.armed /\ Alike(fd, o.fd)
      BY <2>2 DEF Fds, Alike
    <3> QED BY <2>2, <3>1 DEF Keeps, CalmKinds, Settled, Won, Refusal
  <2> QED BY <1>2, <2>1, <2>2
<1>4. ASSUME IntResult(o) = 0 PROVE Settled(o.fd) /\ Won(o.fd)
  <2>1. CASE fd.conn = "idle"
    <3>1. o.ret = -1 /\ o.errno \in {EINPROGRESS, ENETUNREACH, EAGAIN}
      BY <2>1 DEF ConnectCall, Fail
    <3> QED BY <1>4, <3>1 DEF IntResult, EINPROGRESS, ENETUNREACH, EAGAIN
  <2>2. CASE fd.conn = "syn"
    <3>1. o.ret = -1 /\ o.errno = EALREADY BY <2>2 DEF ConnectCall, Fail
    <3> QED BY <1>4, <3>1 DEF IntResult, EALREADY
  <2>3. CASE fd.conn = "est"
    <3>1. o.fd.conn = fd.conn BY <1>2, <2>3 DEF Fds
    <3> QED BY <2>3, <3>1 DEF Settled, Won
  <2>4. CASE fd.conn \in {"refused", "reset"}
    <3>1. o.ret = -1 /\ o.errno = ECONNREFUSED BY <2>4 DEF ConnectCall, Fail
    <3> QED BY <1>4, <3>1 DEF IntResult, ECONNREFUSED
  <2> QED BY <1>1, <2>1, <2>2, <2>3, <2>4 DEF Conns
<1> QED BY <1>3, <1>4

LEMMA SetTimeKeeps ==
  ASSUME NEW fd \in Fds, NEW zero \in BOOLEAN
  PROVE  Keeps("TIMER", fd, SetTime(fd, zero)) /\ Alike(fd, SetTime(fd, zero))
<1>1. /\ SetTime(fd, zero).in = 0 /\ SetTime(fd, zero).err = fd.err
      /\ SetTime(fd, zero).eof = fd.eof /\ SetTime(fd, zero).conn = fd.conn
      /\ Alike(fd, SetTime(fd, zero))
  BY DEF SetTime, Fds, Alike
<1> QED BY <1>1 DEF Keeps, Calm

LEMMA NewKeeps ==
  ASSUME NEW kind \in {"TCP", "UDP", "LISTENER"}, NEW fd \in Fds, NEW new \in {ClosedFd, AcceptedFd}
  PROVE  Keeps(kind, fd, new)
<1>1. ClosedFd.conn = "est" /\ ~ClosedFd.err /\ ~ClosedFd.eof /\ ~ClosedFd.armed
  BY DEF ClosedFd
<1>2. AcceptedFd = [ClosedFd EXCEPT !.open = TRUE, !.room = TRUE] /\ ClosedFd \in Fds
  BY ClosedFdTyped DEF AcceptedFd
<1>3. new.conn = "est" /\ ~new.err /\ ~new.eof /\ ~new.armed
  BY <1>1, <1>2 DEF Fds
<1> QED BY <1>3 DEF Keeps, Calm, Settled, Won, Refusal

(* Registration with epoll. *)
LEMMA PolledKeeps ==
  ASSUME NEW kind, NEW fd \in Fds, NEW new \in {EpollAdd(kind, fd), EpollDel(fd)}
  PROVE  /\ Keeps(kind, fd, new)
         /\ new.open = fd.open /\ new.nb = fd.nb /\ new.in = fd.in
<1>1. new \in Fds BY EpollAddTyped, EpollDelTyped
<1>2. /\ new.err = fd.err /\ new.conn = fd.conn /\ new.eof = fd.eof /\ new.in = fd.in
      /\ new.shutW = fd.shutW /\ new.armed = fd.armed /\ new.open = fd.open
      /\ new.nb = fd.nb
  BY DEF EpollAdd, EpollDel, Fds
<1> QED BY <1>1, <1>2, KeepsState

(* The environment: a timer that is armed has no tick, and gets one.       *)
Happens(kind, fd, new) ==
  /\ Keeps(kind, fd, new) /\ Alike(fd, new)
  /\ kind = "TIMER" /\ (fd.in > 0 => ~fd.armed) => new.in >= fd.in

LEMMA WakeLike ==
  ASSUME NEW kind, NEW fd \in Fds, NEW new \in Fds, Happens(kind, fd, new)
  PROVE  Happens(kind, fd, Wake(new))
<1> DEFINE w == Wake(new)
<1>1. /\ w.err = new.err /\ w.conn = new.conn /\ w.eof = new.eof /\ w.in = new.in
      /\ w.shutW = new.shutW /\ w.armed = new.armed /\ w.open = new.open /\ w.nb = new.nb /\ w.reg = new.reg
  BY DEF Wake, Fds
<1> HIDE DEF w
<1>2. Keeps(kind, fd, w) BY <1>1 DEF Happens, Keeps, Calm, Settled, Won, Refusal
<1> QED BY <1>1, <1>2 DEF Happens, Alike, w

LEMMA HappensHere ==
  ASSUME NEW kind \in Kinds, NEW fd \in Fds,
         NEW new \in Arrive(kind, fd) \cup PeerFin(kind, fd) \cup PeerReset(kind, fd)
                       \cup IcmpError(kind, fd) \cup Established(fd) \cup Drain(kind, fd)
                       \cup Expire(fd)
  PROVE  Happens(kind, fd, new)
<1>1. fd.in \in 0..MaxIn /\ MaxIn \in Nat BY Bounds DEF Fds
<1>2. CASE new \in Arrive(kind, fd)
  <2> DEFINE f == [fd EXCEPT !.in = @ + 1]
  <2>1. fd.in < MaxIn /\ kind # "TIMER" /\ new = Wake(f) BY <1>2 DEF Arrive
  <2>2. f \in Fds /\ f.in = fd.in + 1 /\ f.err = fd.err /\ f.conn = fd.conn
        /\ f.eof = fd.eof /\ f.shutW = fd.shutW /\ f.armed = fd.armed /\ Alike(fd, f)
    BY <1>1, <2>1 DEF Fds, Alike
  <2> HIDE DEF f
  <2>3. Keeps(kind, fd, f) BY <1>1, <2>1, <2>2 DEF Keeps, Calm, Settled, Won, Refusal
  <2>4. Happens(kind, fd, f) BY <2>1, <2>2, <2>3 DEF Happens
  <2> QED BY <2>1, <2>2, <2>4, WakeLike
<1>3. CASE new \in PeerFin(kind, fd)
  <2> DEFINE f == [fd EXCEPT !.eof = TRUE]
  <2>1. kind = "TCP" /\ new = Wake(f) BY <1>3 DEF PeerFin
  <2>2. f \in Fds /\ f.err = fd.err /\ f.conn = fd.conn /\ f.eof /\ f.shutW = fd.shutW
        /\ f.armed = fd.armed /\ Alike(fd, f)
    BY DEF Fds, Alike
  <2> HIDE DEF f
  <2>3. Happens(kind, fd, f)
    BY <2>1, <2>2 DEF Happens, Keeps, CalmKinds, Settled, Won, Refusal
  <2> QED BY <2>1, <2>2, <2>3, WakeLike
<1>4. CASE new \in PeerReset(kind, fd)
  <2> DEFINE c == IF fd.conn = "syn" THEN "refused" ELSE "reset"
             f == [fd EXCEPT !.conn = c, !.err = TRUE, !.eof = TRUE, !.shutW = TRUE]
  <2>1. kind = "TCP" /\ "RST" \in Faults /\ new = Wake(f) BY <1>4 DEF PeerReset
  <2>2. f \in Fds /\ f.conn = c /\ f.eof /\ f.shutW /\ f.armed = fd.armed /\ Alike(fd, f)
    BY DEF Fds, Conns, Alike
  <2>3. Settled(f) /\ Refusal(f) /\ (Won(fd) => Won(f))
    BY <2>2 DEF Settled, Won, Refusal
  <2> HIDE DEF f, c
  <2>4. Happens(kind, fd, f) BY <2>1, <2>2, <2>3 DEF Happens, Keeps, CalmKinds
  <2> QED BY <2>1, <2>2, <2>4, WakeLike
<1>5. CASE new \in IcmpError(kind, fd)
  <2> DEFINE f == [fd EXCEPT !.err = TRUE]
  <2>1. kind = "UDP" /\ "ICMP" \in Faults /\ new = Wake(f) BY <1>5 DEF IcmpError
  <2>2. f \in Fds /\ f.armed = fd.armed /\ Alike(fd, f)
    BY DEF Fds, Alike
  <2> HIDE DEF f
  <2>3. Happens(kind, fd, f) BY <2>1, <2>2 DEF Happens, Keeps, CalmKinds
  <2> QED BY <2>1, <2>2, <2>3, WakeLike
<1>6. CASE new \in Established(fd)
  <2> DEFINE f == [fd EXCEPT !.conn = "est"]
  <2>1. new = Wake(f) BY <1>6 DEF Established
  <2>2. f \in Fds /\ f.err = fd.err /\ f.conn = "est" /\ f.in = fd.in
        /\ f.eof = fd.eof /\ f.armed = fd.armed /\ Alike(fd, f)
    BY DEF Fds, Conns, Alike
  <2> HIDE DEF f
  <2>3. Happens(kind, fd, f) BY <1>1, <2>2 DEF Happens, Keeps, Calm, Settled, Won, Refusal
  <2> QED BY <2>1, <2>2, <2>3, WakeLike
<1>7. CASE new \in Drain(kind, fd)
  <2> DEFINE f == [fd EXCEPT !.room = TRUE]
  <2>1. kind # "TIMER" /\ new = Wake(f) BY <1>7 DEF Drain
  <2>2. f \in Fds /\ f.err = fd.err /\ f.conn = fd.conn /\ f.in = fd.in
        /\ f.eof = fd.eof /\ f.shutW = fd.shutW /\ f.armed = fd.armed /\ Alike(fd, f)
    BY DEF Fds, Alike
  <2> HIDE DEF f
  <2>3. Happens(kind, fd, f) BY <2>1, <2>2, KeepsState DEF Happens
  <2> QED BY <2>1, <2>2, <2>3, WakeLike
<1>8. CASE new \in Expire(fd)
  <2> DEFINE f == [fd EXCEPT !.in = 1, !.armed = FALSE]
  <2>1. fd.armed /\ new = Wake(f) BY <1>8 DEF Expire
  <2>2. f \in Fds /\ f.err = fd.err /\ f.conn = fd.conn /\ f.in = 1
        /\ f.eof = fd.eof /\ f.shutW = fd.shutW /\ ~f.armed /\ Alike(fd, f)
    BY Bounds DEF Fds, Alike
  <2> HIDE DEF f
  <2>3. Keeps(kind, fd, f) BY <1>1, <2>1, <2>2 DEF Keeps, Calm, Settled, Won, Refusal
  <2>4. Happens(kind, fd, f) BY <1>1, <2>1, <2>2, <2>3 DEF Happens
  <2> QED BY <2>1, <2>2, <2>4, WakeLike
<1> QED BY <1>2, <1>3, <1>4, <1>5, <1>6, <1>7, <1>8

-----------------------------------------------------------------------------
(* The values the helpers build.                                           *)

LEMMA NewSlotTyped == NewSlot \in Slots
  BY DEF NewSlot, Slots, Event, Events, Statuses, Types, InTypes, OutTypes

LEMMA SetTyped ==
  ASSUME NEW sl \in Slots, NEW type \in Types, NEW op \in Ops,
         NEW data \in Socks \cup {NoSock}
  PROVE /\ Set(sl, type, op, data) \in Slots
        /\ Set(sl, type, op, data).sock
        /\ Set(sl, type, op, data).type = type
        /\ Set(sl, type, op, data).ev = Event(op)
        /\ Set(sl, type, op, data).ev.cb = op
        /\ Set(sl, type, op, data).data = data
        /\ Set(sl, type, op, data).rp = sl.rp
        /\ Set(sl, type, op, data).wp = sl.wp
<1>1. Event(op) \in Events /\ Event(op).cb = op
  BY EventTyped
<1>2. ASSUME NEW ev \in Events, NEW new,
             new = [sl EXCEPT !.sock = TRUE, !.type = type, !.ev = ev, !.data = data]
      PROVE /\ new \in Slots
            /\ new.sock = TRUE /\ new.type = type /\ new.ev = ev /\ new.data = data
            /\ new.rp = sl.rp /\ new.wp = sl.wp
  BY <1>2 DEF Slots
<1> QED BY <1>1, <1>2, ZenonT(40) DEF Set

(* Clear() and the event that Wait stores back next to it. *)
LEMMA ClearTyped ==
  ASSUME NEW sl \in Slots, NEW new \in {Clear(sl)}
  PROVE /\ new \in Slots
        /\ new.sock = sl.sock /\ new.type = "NOOP"
        /\ new.ev = sl.ev /\ new.data = sl.data
        /\ new.rp = sl.rp /\ new.wp = sl.wp
<1>1. "NOOP" \in Types BY DEF Types
<1> QED BY <1>1 DEF Clear, Slots

LEMMA EvTyped ==
  ASSUME NEW sl \in Slots, NEW ev \in Events, NEW new \in {[sl EXCEPT !.ev = ev]}
  PROVE /\ new \in Slots
        /\ new.sock = sl.sock /\ new.type = sl.type
        /\ new.ev = ev /\ new.data = sl.data
        /\ new.rp = sl.rp /\ new.wp = sl.wp
  BY DEF Slots

LEMMA NewFdTyped == ASSUME NEW kind \in Kinds PROVE NewFd(kind) \in Fds
<1>1. ASSUME NEW c \in Conns, NEW b \in BOOLEAN
      PROVE [ClosedFd EXCEPT !.open = TRUE, !.nb = TRUE, !.conn = c, !.room = b] \in Fds
  BY ClosedFdTyped DEF Fds
<1>2. (IF kind = "TCP" THEN "idle" ELSE "est") \in Conns BY DEF Conns
<1>3. (kind \in {"TCP", "UDP"}) \in BOOLEAN OBVIOUS
<1> QED BY <1>1, <1>2, <1>3, EpollAddTyped DEF NewFd

LEMMA MinusOneAsSize == \A n \in Int : n + 1 = 0 => AsSize(n) = 65535
  BY DEF AsSize, SizeMod

(* The result of a call: a number that is never the negated EWOULDBLOCK    *)
(* when it went through a size_t.                                          *)
LEMMA SizeResultTyped ==
  ASSUME NEW o \in Outcomes
  PROVE SizeResult(o) \in Int /\ SizeResult(o) # -EAGAIN
<1>1. o.ret \in -1..MaxIn /\ MaxIn \in Nat /\ MaxIn < 32768
  BY Bounds, SizeAssumption DEF Outcomes, SizeMod
<1>2. CASE o.ret = -1
  <2>1. o.ret \in Int /\ o.ret + 1 = 0 BY <1>1, <1>2
  <2>2. AsSize(o.ret) = 65535 BY <2>1, MinusOneAsSize
  <2> QED BY <2>2 DEF SizeResult, AsInt, SizeMod, EAGAIN
<1>3. CASE o.ret # -1
  <2>1. o.ret \in 0..MaxIn BY <1>1, <1>3
  <2>2. AsSize(o.ret) = o.ret BY <1>1, <2>1 DEF AsSize, SizeMod
  <2>3. SizeResult(o) = o.ret BY <1>1, <2>1, <2>2 DEF SizeResult, AsInt, SizeMod
  <2> QED BY <2>1, <2>3, <1>1 DEF EAGAIN
<1> QED BY <1>2, <1>3

LEMMA IntResultTyped ==
  ASSUME NEW o \in Outcomes PROVE IntResult(o) \in Int
<1>1. o.errno \in Nat BY DEF Outcomes
<1>2. -o.errno \in Int BY <1>1
<1> QED BY <1>2 DEF IntResult

LEMMA TryTyped ==
  ASSUME TypeOK, NEW s \in Socks, NEW type \in InTypes \cup OutTypes,
         NEW t \in Try(s, type)
  PROVE /\ t.r \in Int /\ t.fd \in Fds
        /\ t.r = -EAGAIN => type = "ACCEPT"
<1>1. k[s] \in Fds BY DEF TypeOK
<1>2. CASE type \in {"READ", "RECVFROM"}
  <2>1. PICK o \in RecvMsg(Kind[s], k[s]) : t = [r |-> SizeResult(o), fd |-> o.fd]
    BY <1>2 DEF Try, OutTypes
  <2>2. o \in Outcomes BY <1>1, RecvMsgTyped
  <2>3. o.fd \in Fds BY <2>2 DEF Outcomes
  <2> QED BY <2>1, <2>2, <2>3, SizeResultTyped
<1>3. CASE type \in OutTypes
  <2>1. PICK o \in SendMsg(k[s]) : t = [r |-> SizeResult(o), fd |-> o.fd]
    BY <1>3 DEF Try, OutTypes
  <2>2. o \in Outcomes BY <1>1, SendMsgTyped
  <2>3. o.fd \in Fds BY <2>2 DEF Outcomes
  <2> QED BY <2>1, <2>2, <2>3, SizeResultTyped
<1>4. CASE type = "ACCEPT"
  <2>1. PICK o \in AcceptCall(k[s]) : t = [r |-> IntResult(o), fd |-> o.fd]
    BY <1>4 DEF Try, OutTypes
  <2>2. o \in Outcomes BY <1>1, AcceptCallTyped
  <2>3. o.fd \in Fds BY <2>2 DEF Outcomes
  <2> QED BY <1>4, <2>1, <2>2, <2>3, IntResultTyped
<1> QED BY <1>2, <1>3, <1>4 DEF InTypes

LEMMA KernelAfterTyped ==
  ASSUME TypeOK, NEW s \in Socks, NEW type, NEW t, t.fd \in Fds
  PROVE KernelAfter(s, type, t) \in [Socks -> Fds]
  BY AcceptedFdTyped DEF KernelAfter, TypeOK

LEMMA OutcomeTyped ==
  ASSUME NEW ev \in Events, NEW r \in Int
  PROVE Outcome(ev, r) \in Events /\ Outcome(ev, r).cb = ev.cb
<1>1. -r \in Int OBVIOUS
<1>2. ASSUME NEW e \in Int
      PROVE /\ [ev EXCEPT !.status = "ERR", !.error = e] \in Events
            /\ [ev EXCEPT !.status = "ERR", !.error = e].cb = ev.cb
  BY DEF Events, Statuses
<1>3. /\ [ev EXCEPT !.status = "COMPLETED", !.res = r] \in Events
      /\ [ev EXCEPT !.status = "COMPLETED", !.res = r].cb = ev.cb
  BY DEF Events, Statuses
<1> QED BY <1>1, <1>2, <1>3 DEF Outcome

LEMMA PendingInOps == ASSUME NEW s PROVE PendingIn(s) \subseteq Ops
  BY DEF PendingIn
LEMMA LoopTypesNext == LoopInv' => LoopTypeOK'
  BY LoopInvTypes, PTL

LEMMA FreshAreSocks == Fresh \subseteq Socks
  BY EpollAssumption

-----------------------------------------------------------------------------
(* Starting an operation.                                                  *)

(* A new operation is not referred to from any slot. *)
LEMMA UnissuedIsFree ==
  ASSUME StructInv, NEW op \in Ops, await[op] = Unissued,
         NEW x \in Socks, slot[x].sock
  PROVE slot[x].ev.cb # op
  BY EpollAssumption DEF StructInv, SlotInv, Unissued

LEMMA StartedAwait ==
  ASSUME StructInv, NEW s \in Socks, NEW type \in Types, NEW op \in Ops,
         NEW target \in Socks \cup {NoSock},
         await[op] = Unissued,
         Started(op, type, s, target),
         type = "ACCEPT" => target \in Fresh,
         waiting' \in [Socks -> Ops \cup {NoOp}],
         type = "ACCEPT" => waiting'[s] = op,
         \A x \in Socks : waiting'[x] # waiting[x] => type = "ACCEPT" /\ waiting'[x] = op
  PROVE /\ await' \in [Ops -> Awaits]
        /\ await'[op] = [type |-> type, sock |-> s, target |-> target]
        /\ \A p \in Ops \ {op} : await'[p] = await[p]
        /\ AwaitInv'
<1>1. await \in [Ops -> Awaits] BY DEF StructInv, TypeOK
<1>2. await' \in [Ops -> Awaits] BY <1>1 DEF Started, Awaits
<1>3. await'[op] = [type |-> type, sock |-> s, target |-> target]
  BY <1>1 DEF Started
<1>4. \A p \in Ops \ {op} : await'[p] = await[p] BY <1>1 DEF Started
<1>6. ASSUME NEW p \in Ops
      PROVE /\ await'[p] # Unissued => await'[p].sock \in Socks
            /\ await'[p].type = "ACCEPT" =>
                 /\ await'[p].target \in Fresh
                 /\ waiting'[await'[p].sock] \in Ops
                 /\ await'[waiting'[await'[p].sock]].type = "ACCEPT"
  <2>1. CASE p = op
    BY <1>1, <1>3, <2>1
  <2>2. CASE p # op
    <3>1. await'[p] = await[p] BY <1>4, <2>2
    <3>2. SUFFICES ASSUME await[p].type = "ACCEPT"
                   PROVE /\ waiting'[await[p].sock] \in Ops
                         /\ await'[waiting'[await[p].sock]].type = "ACCEPT"
      BY <3>1 DEF StructInv, AwaitInv
    <3>3. waiting[await[p].sock] \in Ops /\ await[waiting[await[p].sock]].type = "ACCEPT"
      BY <3>2 DEF StructInv, AwaitInv
    <3>4. await[p] # Unissued /\ await[waiting[await[p].sock]] # Unissued
      BY <3>2, <3>3 DEF Unissued
    <3>5. await[p].sock \in Socks /\ waiting[await[p].sock] # op
      BY <3>4 DEF StructInv, AwaitInv
    <3>6. CASE waiting'[await[p].sock] = waiting[await[p].sock]
      BY <3>3, <3>5, <3>6, <1>4
    <3>7. CASE waiting'[await[p].sock] = op /\ type = "ACCEPT"
      BY <3>7, <1>3
    <3> QED BY <3>5, <3>6, <3>7, <1>1
  <2> QED BY <2>1, <2>2
<1> QED BY <1>2, <1>3, <1>4, <1>6 DEF AwaitInv

(* The Set() of a Submit call. *)
LEMMA StartedSlot ==
  ASSUME StructInv, NEW s \in Socks, NEW type \in Types, NEW op \in Ops,
         NEW data \in Socks \cup {NoSock},
         await[op] = Unissued,
         Fits(Kind[s], type),
         type = "ACCEPT" => data \in Fresh,
         await'[op].sock = s,
         \A p \in Ops \ {op} : await'[p] = await[p],
         slot' = [slot EXCEPT ![s] = Set(slot[s], type, op, data)]
  PROVE slot' \in [Socks -> Slots] /\ SlotInv'
<1>1. slot \in [Socks -> Slots] BY DEF StructInv, TypeOK
<1>2. slot' \in [Socks -> Slots] BY <1>1, SetTyped
<1>3. /\ slot'[s].ev.cb = op /\ slot'[s].type = type /\ slot'[s].data = data
  BY <1>1, SetTyped
<1>4. ASSUME NEW x \in Socks, slot'[x].sock
      PROVE /\ slot'[x].ev.cb \in Ops
            /\ await'[slot'[x].ev.cb].sock = x
            /\ Fits(Kind[x], slot'[x].type)
            /\ slot'[x].type = "ACCEPT" => slot'[x].data \in Fresh
  <2>1. CASE x = s BY <1>3, <2>1
  <2>2. CASE x # s
    <3>1. slot'[x] = slot[x] BY <1>1, <2>2
    <3>2. slot[x].ev.cb # op BY <1>4, <3>1, UnissuedIsFree
    <3> QED BY <1>4, <3>1, <3>2 DEF StructInv, SlotInv
  <2> QED BY <2>1, <2>2
<1> QED BY <1>2, <1>4 DEF SlotInv

LEMMA PendingInSubset == ASSUME NEW s PROVE PendingIn(s) \subseteq Ops
  BY DEF PendingIn

(* One lemma per call of the program: it keeps StructInv. *)
LEMMA SubmitTransferStruct ==
  ASSUME StructInv, NEW s \in Socks, NEW type, NEW op \in Ops,
         SubmitTransfer(s, type, op)
  PROVE StructInv'
<1>1. TypeOK /\ LoopInv /\ BatchInv BY DEF StructInv
<1>2. /\ await[op] = Unissued /\ calling = NoOp /\ pc \in {"setup", "callback"}
      /\ type \in {"READ", "WRITE", "RECVFROM", "SENDTO"} /\ Fits(Kind[s], type)
  BY DEF SubmitTransfer, MayStart, InUser, Transfers, Fits
<1>3. type \in Types /\ type # "ACCEPT" BY <1>2 DEF Types, InTypes, OutTypes
<1>4. slot[s].data \in Socks \cup {NoSock} BY <1>1 DEF TypeOK, Slots
<1>5. /\ await' \in [Ops -> Awaits] /\ waiting' \in [Socks -> Ops \cup {NoOp}]
      /\ await'[op] = [type |-> type, sock |-> s, target |-> NoSock]
      /\ \A p \in Ops \ {op} : await'[p] = await[p]
      /\ AwaitInv'
  BY <1>1, <1>2, <1>3, StartedAwait DEF SubmitTransfer, TypeOK
<1>6. slot' \in [Socks -> Slots] /\ SlotInv'
  <2>1. slot' = [slot EXCEPT ![s] = Set(slot[s], type, op, slot[s].data)]
    BY DEF SubmitTransfer
  <2>2. await'[op].sock = s BY <1>5
  <2>3. type = "ACCEPT" => slot[s].data \in Fresh BY <1>3
  <2> QED BY <1>2, <1>3, <1>4, <1>5, <2>1, <2>2, <2>3, StartedSlot
<1>7. LoopInv' /\ LoopTypeOK' BY <1>1, LoopStepInv, LoopTypesNext DEF SubmitTransfer
<1>8. TypeOK'
  BY <1>1, <1>5, <1>6, <1>7, PendingInSubset DEF TypeOK, SubmitTransfer
<1>9. CallingInv'
  <2>1. SUFFICES ASSUME calling' = op,
                        (type \in InTypes /\ slot[s].rp) \/ (type \in OutTypes /\ slot[s].wp)
                 PROVE CallingInv'
    BY DEF SubmitTransfer, CallingInv
  <2>2. /\ slot'[s].sock /\ slot'[s].ev.cb = op /\ slot'[s].type = type
        /\ slot'[s].rp = slot[s].rp /\ slot'[s].wp = slot[s].wp
    BY <1>1, <1>3, <1>4, SetTyped DEF SubmitTransfer, TypeOK
  <2>3. await'[op].sock = s /\ await'[op].type = type BY <1>5
  <2>4. pc' = pc BY DEF SubmitTransfer, loopVars
  <2> QED BY <1>2, <2>1, <2>2, <2>3, <2>4, SMTT(40) DEF CallingInv
<1>10. BatchInv' BY <1>1 DEF BatchInv, SubmitTransfer, loopVars
<1> QED BY <1>5, <1>6, <1>7, <1>8, <1>9, <1>10 DEF StructInv

LEMMA SubmitAcceptStruct ==
  ASSUME StructInv, NEW s \in Socks, NEW target \in Socks, NEW op \in Ops,
         SubmitAccept(s, target, op)
  PROVE StructInv'
<1>1. TypeOK /\ LoopInv /\ BatchInv BY DEF StructInv
<1>2. /\ await[op] = Unissued /\ calling = NoOp /\ pc \in {"setup", "callback"}
      /\ target \in Fresh /\ Fits(Kind[s], "ACCEPT")
  BY DEF SubmitAccept, MayStart, InUser, FreeTarget, Fits
<1>3. "ACCEPT" \in Types /\ "ACCEPT" \in InTypes BY DEF Types, InTypes, OutTypes
<1>5. /\ await' \in [Ops -> Awaits] /\ waiting' \in [Socks -> Ops \cup {NoOp}]
      /\ await'[op] = [type |-> "ACCEPT", sock |-> s, target |-> target]
      /\ \A p \in Ops \ {op} : await'[p] = await[p]
      /\ AwaitInv'
  <2>1. /\ Started(op, "ACCEPT", s, target)
        /\ waiting'[s] = op /\ waiting' \in [Socks -> Ops \cup {NoOp}]
        /\ \A x \in Socks : waiting'[x] # waiting[x] => waiting'[x] = op
    BY <1>1 DEF SubmitAccept, TypeOK
  <2>2. target \in Socks \cup {NoSock} OBVIOUS
  <2> QED BY <1>2, <1>3, <2>1, <2>2, StartedAwait
<1>6. slot' \in [Socks -> Slots] /\ SlotInv'
  <2>1. slot' = [slot EXCEPT ![s] = Set(slot[s], "ACCEPT", op, target)]
    BY DEF SubmitAccept
  <2>2. await'[op].sock = s BY <1>5
  <2>3. target \in Socks \cup {NoSock} OBVIOUS
  <2> QED BY <1>2, <1>3, <1>5, <2>1, <2>2, <2>3, StartedSlot
<1>7. LoopInv' /\ LoopTypeOK' BY <1>1, LoopStepInv, LoopTypesNext DEF SubmitAccept
<1>8. TypeOK'
  BY <1>1, <1>5, <1>6, <1>7, PendingInSubset DEF TypeOK, SubmitAccept
<1>9. CallingInv'
  <2>1. SUFFICES ASSUME calling' = op, slot[s].rp PROVE CallingInv'
    BY DEF SubmitAccept, CallingInv
  <2>2. /\ slot'[s].sock /\ slot'[s].ev.cb = op /\ slot'[s].type = "ACCEPT"
        /\ slot'[s].rp
    BY <1>1, <1>3, <2>1, SetTyped DEF SubmitAccept, TypeOK
  <2>3. pc' = pc BY DEF SubmitAccept, loopVars
  <2>4. await'[op].sock = s /\ await'[op].type = "ACCEPT" BY <1>5
  <2> QED BY <1>2, <1>3, <2>1, <2>2, <2>3, <2>4, SMTT(40) DEF CallingInv
<1>10. BatchInv' BY <1>1 DEF BatchInv, SubmitAccept, loopVars
<1> QED BY <1>5, <1>6, <1>7, <1>8, <1>9, <1>10 DEF StructInv

LEMMA SubmitTimerStruct ==
  ASSUME StructInv, NEW s \in Socks, NEW zero \in BOOLEAN, NEW op \in Ops,
         SubmitTimer(s, zero, op)
  PROVE StructInv'
<1>1. TypeOK /\ LoopInv /\ BatchInv BY DEF StructInv
<1>2. await[op] = Unissued /\ calling = NoOp /\ Fits(Kind[s], "TIMETICK")
  BY DEF SubmitTimer, MayStart, InUser, Fits
<1>3. "TIMETICK" \in Types BY DEF Types
<1>4. slot[s].data \in Socks \cup {NoSock} BY <1>1 DEF TypeOK, Slots
<1>5. /\ await' \in [Ops -> Awaits] /\ waiting' \in [Socks -> Ops \cup {NoOp}]
      /\ await'[op] = [type |-> "TIMETICK", sock |-> s, target |-> NoSock]
      /\ \A p \in Ops \ {op} : await'[p] = await[p]
      /\ AwaitInv'
  BY <1>1, <1>2, <1>3, StartedAwait DEF SubmitTimer, TypeOK
<1>6. slot' \in [Socks -> Slots] /\ SlotInv'
  <2>1. slot' = [slot EXCEPT ![s] = Set(slot[s], "TIMETICK", op, slot[s].data)]
    BY DEF SubmitTimer
  <2>2. await'[op].sock = s BY <1>5
  <2>3. "TIMETICK" = "ACCEPT" => slot[s].data \in Fresh BY <1>3
  <2> QED BY <1>2, <1>3, <1>4, <1>5, <2>1, <2>2, <2>3, StartedSlot
<1>7. LoopInv' /\ LoopTypeOK' BY <1>1, LoopStepInv, LoopTypesNext DEF SubmitTimer
<1>8. k' \in [Socks -> Fds] BY <1>1, SetTimeTyped DEF TypeOK, SubmitTimer
<1>9. TypeOK'
  BY <1>1, <1>5, <1>6, <1>7, <1>8, PendingInSubset DEF TypeOK, SubmitTimer
<1>10. CallingInv' /\ BatchInv'
  BY <1>1, <1>2 DEF CallingInv, BatchInv, SubmitTimer, loopVars
<1> QED BY <1>5, <1>6, <1>7, <1>9, <1>10 DEF StructInv

LEMMA SubmitSignalStruct ==
  ASSUME StructInv, NEW s \in Socks, NEW op \in Ops, SubmitSignal(s, op)
  PROVE StructInv'
<1>1. TypeOK /\ LoopInv /\ BatchInv BY DEF StructInv
<1>2. await[op] = Unissued /\ calling = NoOp /\ Fits(Kind[s], "SIGNAL")
  BY DEF SubmitSignal, MayStart, InUser, Fits
<1>3. "SIGNAL" \in Types BY DEF Types
<1>4. slot[s].data \in Socks \cup {NoSock} BY <1>1 DEF TypeOK, Slots
<1>5. /\ await' \in [Ops -> Awaits] /\ waiting' \in [Socks -> Ops \cup {NoOp}]
      /\ await'[op] = [type |-> "SIGNAL", sock |-> s, target |-> NoSock]
      /\ \A p \in Ops \ {op} : await'[p] = await[p]
      /\ AwaitInv'
  BY <1>1, <1>2, <1>3, StartedAwait DEF SubmitSignal, TypeOK
<1>6. slot' \in [Socks -> Slots] /\ SlotInv'
  <2>1. slot' = [slot EXCEPT ![s] = Set(slot[s], "SIGNAL", op, slot[s].data)]
    BY DEF SubmitSignal
  <2>2. await'[op].sock = s BY <1>5
  <2>3. "SIGNAL" = "ACCEPT" => slot[s].data \in Fresh BY <1>3
  <2> QED BY <1>2, <1>3, <1>4, <1>5, <2>1, <2>2, <2>3, StartedSlot
<1>7. LoopInv' /\ LoopTypeOK' BY <1>1, LoopStepInv, LoopTypesNext DEF SubmitSignal
<1>8. k' \in [Socks -> Fds]
  <2>1. k[s].in \in 0..MaxIn BY <1>1 DEF TypeOK, Fds
  <2>2. [ClosedFd EXCEPT !.open = TRUE, !.nb = TRUE, !.in = k[s].in] \in Fds
    BY <2>1, ClosedFdTyped DEF Fds
  <2> QED BY <1>1, <2>2, EpollAddTyped DEF TypeOK, SubmitSignal
<1>9. TypeOK'
  BY <1>1, <1>5, <1>6, <1>7, <1>8, PendingInSubset DEF TypeOK, SubmitSignal
<1>10. CallingInv' /\ BatchInv'
  BY <1>1, <1>2 DEF CallingInv, BatchInv, SubmitSignal, loopVars
<1> QED BY <1>5, <1>6, <1>7, <1>9, <1>10 DEF StructInv

(* Clear() and the flags leave a slot in the hands of its operation. *)
LEMMA SlotKept ==
  ASSUME StructInv, NEW s \in Socks, NEW new \in Slots,
         slot' = [slot EXCEPT ![s] = new],
         \A op \in Ops : await[op] # Unissued => await'[op] = await[op],
         new.sock => slot[s].sock,
         new.ev.cb = slot[s].ev.cb,
         new.type \in {slot[s].type, "NOOP"},
         new.data = slot[s].data
  PROVE slot' \in [Socks -> Slots] /\ SlotInv'
<1>1. slot \in [Socks -> Slots] BY DEF StructInv, TypeOK
<1>2. slot' \in [Socks -> Slots] BY <1>1
<1>3. ASSUME NEW x \in Socks, slot'[x].sock
      PROVE /\ slot'[x].ev.cb \in Ops
            /\ await'[slot'[x].ev.cb].sock = x
            /\ Fits(Kind[x], slot'[x].type)
            /\ slot'[x].type = "ACCEPT" => slot'[x].data \in Fresh
  <2>1. slot[x].sock /\ slot'[x].ev.cb = slot[x].ev.cb BY <1>1, <1>3
  <2>2. slot[x].ev.cb \in Ops /\ await[slot[x].ev.cb].sock = x
    BY <2>1 DEF StructInv, SlotInv
  <2>3. await[slot[x].ev.cb] # Unissued BY <2>2, EpollAssumption DEF Unissued
  <2>4. slot'[x].type \in {slot[x].type, "NOOP"} /\ slot'[x].data = slot[x].data
    BY <1>1
  <2>5. Fits(Kind[x], slot'[x].type)
    BY <2>1, <2>4 DEF StructInv, SlotInv, Fits
  <2>6. slot'[x].type = "ACCEPT" => slot'[x].data \in Fresh
    BY <2>1, <2>4 DEF StructInv, SlotInv
  <2> QED BY <2>1, <2>2, <2>3, <2>5, <2>6
<1> QED BY <1>2, <1>3 DEF SlotInv

LEMMA SubmitConnectStruct ==
  ASSUME StructInv, NEW s \in Socks, NEW op \in Ops, SubmitConnect(s, op)
  PROVE StructInv'
<1>1. TypeOK /\ LoopInv /\ BatchInv BY DEF StructInv
<1>2. /\ await[op] = Unissued /\ calling = NoOp /\ pc \in {"setup", "callback"}
      /\ Fits(Kind[s], "CONNECT")
  BY DEF SubmitConnect, MayStart, InUser, Fits
<1>3. "CONNECT" \in Types BY DEF Types
<1>4. slot[s] \in Slots /\ slot[s].data \in Socks \cup {NoSock} /\ k[s] \in Fds
  BY <1>1 DEF TypeOK, Slots
<1>5. /\ await' \in [Ops -> Awaits] /\ waiting' \in [Socks -> Ops \cup {NoOp}]
      /\ await'[op] = [type |-> "CONNECT", sock |-> s, target |-> NoSock]
      /\ \A p \in Ops \ {op} : await'[p] = await[p]
      /\ AwaitInv'
  BY <1>1, <1>2, <1>3, StartedAwait DEF SubmitConnect, TypeOK
<1>6. PICK o \in ConnectCall(k[s]) :
        /\ k' = [k EXCEPT ![s] = o.fd]
        /\ \/ /\ slot' = [slot EXCEPT ![s] = Set(slot[s], "CONNECT", op, slot[s].data)]
              /\ waitset' = waitset
           \/ /\ waitset' = SubmitComplete(waitset, Outcome(Event(op), IntResult(o)))
              /\ slot' = [slot EXCEPT ![s] = Clear(slot[s])]
  BY DEF SubmitConnect
<1>7. o \in Outcomes /\ o.fd \in Fds
  BY <1>4, ConnectCallTyped DEF Outcomes
<1>8. slot' \in [Socks -> Slots] /\ SlotInv'
  <2>1. CASE slot' = [slot EXCEPT ![s] = Set(slot[s], "CONNECT", op, slot[s].data)]
    <3>1. await'[op].sock = s BY <1>5
    <3> QED BY <1>2, <1>3, <1>4, <1>5, <2>1, <3>1, StartedSlot
  <2>2. CASE slot' = [slot EXCEPT ![s] = Clear(slot[s])]
    <3>1. \A p \in Ops : await[p] # Unissued => await'[p] = await[p]
      BY <1>2, <1>5
    <3> QED BY <1>4, <2>2, <3>1, ClearTyped, SlotKept
  <2> QED BY <1>6, <2>1, <2>2
<1>9. LoopInv' /\ LoopTypeOK'
  <2>1. Event(op) \in Events /\ Event(op).cb = op BY EventTyped
  <2>2. /\ Outcome(Event(op), IntResult(o)) \in Events
        /\ Outcome(Event(op), IntResult(o)).cb \in Ops
    BY <1>7, <2>1, IntResultTyped, OutcomeTyped
  <2>3. UNCHANGED <<it, canContinue, pc>> BY DEF SubmitConnect
  <2>4. pc' \in Places /\ pc' # "wait" BY <1>1, <1>2, <2>3 DEF LoopInv
  <2>5. LoopInv' BY <1>1, <1>6, <2>1, <2>2, <2>3, <2>4, CompletionInv
  <2> QED BY <2>5, LoopTypesNext
<1>10. TypeOK'
  BY <1>1, <1>5, <1>6, <1>7, <1>8, <1>9, PendingInSubset DEF TypeOK, SubmitConnect
<1>11. CallingInv' /\ BatchInv'
  BY <1>1, <1>2 DEF CallingInv, BatchInv, SubmitConnect
<1> QED BY <1>5, <1>8, <1>9, <1>10, <1>11 DEF StructInv

(* The system call of a Submit call returns. *)
LEMMA TriedStruct == ASSUME StructInv, Tried PROVE StructInv'
<1> DEFINE s == await[calling].sock
           type == await[calling].type
<1>1. TypeOK /\ LoopInv /\ BatchInv BY DEF StructInv
<1>2. /\ calling \in Ops /\ s \in Socks /\ type \in InTypes \cup OutTypes
      /\ pc \in {"setup", "callback"}
      /\ slot[s].ev.cb = calling
  BY <1>1 DEF Tried, StructInv, CallingInv, TypeOK
<1>3. slot[s] \in Slots BY <1>1, <1>2 DEF TypeOK
<1>4. PICK t \in Try(s, type) :
        /\ k' = KernelAfter(s, type, t)
        /\ \/ /\ \/ slot' = [slot EXCEPT ![s].wp = FALSE]
                 \/ slot' = [slot EXCEPT ![s].rp = FALSE]
              /\ waitset' = waitset
           \/ /\ waitset' = SubmitComplete(waitset, Outcome(Event(calling), t.r))
              /\ slot' = [slot EXCEPT ![s] = Clear(slot[s])]
  BY DEF Tried
<1>5. t.r \in Int /\ t.fd \in Fds BY <1>1, <1>2, TryTyped
<1>6. k' \in [Socks -> Fds] BY <1>1, <1>2, <1>4, <1>5, KernelAfterTyped
<1>7. slot' \in [Socks -> Slots] /\ SlotInv'
  <2>1. await' = await BY DEF Tried, userVars
  <2>2. CASE slot' = [slot EXCEPT ![s] = Clear(slot[s])]
    BY <1>2, <1>3, <2>1, <2>2, ClearTyped, SlotKept
  <2>3. CASE slot' = [slot EXCEPT ![s].wp = FALSE]
    <3> DEFINE new == [slot[s] EXCEPT !.wp = FALSE]
    <3>1. /\ new \in Slots /\ new.sock = slot[s].sock /\ new.ev = slot[s].ev
          /\ new.type = slot[s].type /\ new.data = slot[s].data
      BY <1>3 DEF Slots
    <3>2. slot' = [slot EXCEPT ![s] = new] BY <2>3
    <3> HIDE DEF new
    <3> QED BY <1>2, <2>1, <3>1, <3>2, SlotKept
  <2>4. CASE slot' = [slot EXCEPT ![s].rp = FALSE]
    <3> DEFINE new == [slot[s] EXCEPT !.rp = FALSE]
    <3>1. /\ new \in Slots /\ new.sock = slot[s].sock /\ new.ev = slot[s].ev
          /\ new.type = slot[s].type /\ new.data = slot[s].data
      BY <1>3 DEF Slots
    <3>2. slot' = [slot EXCEPT ![s] = new] BY <2>4
    <3> HIDE DEF new
    <3> QED BY <1>2, <2>1, <3>1, <3>2, SlotKept
  <2> QED BY <1>4, <2>2, <2>3, <2>4
<1>8. LoopInv' /\ LoopTypeOK'
  <2>1. Event(calling) \in Events /\ Event(calling).cb = calling BY <1>2, EventTyped
  <2>2. /\ Outcome(Event(calling), t.r) \in Events
        /\ Outcome(Event(calling), t.r).cb \in Ops
    BY <1>2, <1>5, <2>1, OutcomeTyped
  <2>3. UNCHANGED <<it, canContinue, pc>> BY DEF Tried
  <2>4. pc' \in Places /\ pc' # "wait" BY <1>1, <1>2, <2>3 DEF LoopInv
  <2>5. LoopInv' BY <1>1, <1>2, <1>4, <2>1, <2>2, <2>3, <2>4, CompletionInv
  <2> QED BY <2>5, LoopTypesNext
<1>9. TypeOK'
  BY <1>1, <1>6, <1>7, <1>8 DEF TypeOK, Tried, userVars
<1>10. CallingInv' /\ BatchInv' /\ AwaitInv'
  BY <1>1 DEF CallingInv, BatchInv, AwaitInv, StructInv, Tried, userVars
<1> QED BY <1>7, <1>8, <1>9, <1>10 DEF StructInv

-----------------------------------------------------------------------------
(* Calls of the program and steps of the environment that change no more   *)
(* than descriptors.                                                       *)
LEMMA DescriptorsOnly ==
  ASSUME StructInv,
         k' \in [Socks -> Fds],
         missed' \subseteq Socks \X {"IN", "OUT"},
         UNCHANGED <<loopVars, slot, await, waiting, calling, batch, runs, displaced, redelivered>>
  PROVE StructInv'
<1>1. TypeOK /\ LoopInv BY DEF StructInv
<1>2. LoopInv' BY <1>1, LoopStepInv
<1>3. TypeOK' BY <1>1, <1>2, LoopTypesNext DEF TypeOK
<1> QED BY <1>2, <1>3 DEF StructInv, BatchInv, SlotInv, AwaitInv, CallingInv, loopVars

LEMMA DirectCallStruct == ASSUME StructInv, DirectCall PROVE StructInv'
<1>1. TypeOK BY DEF StructInv
<1>2. PICK s \in Socks :
        \/ SyncTransfer(s)
        \/ SyncConnect(s)
        \/ \E t \in Socks : SyncAccept(s, t)
        \/ \E r \in BOOLEAN, w \in BOOLEAN : Shutdown(s, r, w)
        \/ Close(s)
  BY DEF DirectCall
<1>3. k[s] \in Fds /\ k \in [Socks -> Fds] BY <1>1 DEF TypeOK
<1>4. CASE SyncTransfer(s)
  <2>1. PICK o \in RecvMsg(Kind[s], k[s]) \cup SendMsg(k[s]) : k' = [k EXCEPT ![s] = o.fd]
    BY <1>4 DEF SyncTransfer
  <2>2. o.fd \in Fds BY <1>3, RecvMsgTyped, SendMsgTyped DEF Outcomes
  <2> QED BY <1>1, <1>3, <1>4, <2>1, <2>2, DescriptorsOnly
          DEF SyncTransfer, userVars, TypeOK
<1>5. CASE SyncConnect(s)
  <2>1. PICK o \in ConnectCall(k[s]) : k' = [k EXCEPT ![s] = o.fd]
    BY <1>5 DEF SyncConnect
  <2>2. o.fd \in Fds BY <1>3, ConnectCallTyped DEF Outcomes
  <2> QED BY <1>1, <1>3, <1>5, <2>1, <2>2, DescriptorsOnly
          DEF SyncConnect, userVars, TypeOK
<1>6. CASE \E t \in Socks : SyncAccept(s, t)
  <2>1. PICK t \in Socks : SyncAccept(s, t) BY <1>6
  <2>2. PICK o \in AcceptCall(k[s]) :
          \/ k' = [k EXCEPT ![s] = o.fd, ![t] = EpollAdd("TCP", AcceptedFd)]
          \/ k' = [k EXCEPT ![s] = o.fd]
    BY <2>1 DEF SyncAccept
  <2>3. o.fd \in Fds /\ EpollAdd("TCP", AcceptedFd) \in Fds
    BY <1>3, AcceptCallTyped, AcceptedFdTyped, EpollAddTyped DEF Outcomes
  <2>4. k' \in [Socks -> Fds] BY <1>3, <2>2, <2>3
  <2> QED BY <1>1, <2>1, <2>4, DescriptorsOnly DEF SyncAccept, userVars, TypeOK
<1>7. CASE \E r \in BOOLEAN, w \in BOOLEAN : Shutdown(s, r, w)
  <2>1. PICK r \in BOOLEAN, w \in BOOLEAN : Shutdown(s, r, w) BY <1>7
  <2>2. [k[s] EXCEPT !.eof = @ \/ r, !.shutW = @ \/ w] \in Fds BY <1>3, ZenonT(40) DEF Fds
  <2>3. Wake([k[s] EXCEPT !.eof = @ \/ r, !.shutW = @ \/ w]) \in Fds BY <2>2, WakeTyped
  <2>4. k' = [k EXCEPT ![s] = Wake([k[s] EXCEPT !.eof = @ \/ r, !.shutW = @ \/ w])]
    BY <2>1 DEF Shutdown
  <2>5. k' \in [Socks -> Fds] BY <1>3, <2>3, <2>4
  <2> QED BY <1>1, <2>1, <2>5, DescriptorsOnly DEF Shutdown, userVars, TypeOK
<1>8. CASE Close(s)
  BY <1>1, <1>3, <1>8, ClosedFdTyped, DescriptorsOnly DEF Close, TypeOK
<1> QED BY <1>2, <1>4, <1>5, <1>6, <1>7, <1>8

(* What the environment may do wakes the descriptor; it never makes a      *)
(* listener anything but a listener.                                       *)
LEMMA EnvironmentWakes ==
  ASSUME TypeOK, Environment
  PROVE \E s \in Socks : \E fd \in Fds :
          /\ World(s, {fd})
          /\ Woken(k[s], fd)
          /\ k[s].conn = "est" /\ ~k[s].eof /\ Kind[s] = "LISTENER"
               => fd.conn = "est" /\ ~fd.eof
<1>1. PICK s \in Socks :
        \/ World(s, Arrive(Kind[s], k[s]))
        \/ World(s, PeerFin(Kind[s], k[s]))
        \/ World(s, PeerReset(Kind[s], k[s]))
        \/ World(s, IcmpError(Kind[s], k[s]))
        \/ World(s, Established(k[s]))
        \/ World(s, Drain(Kind[s], k[s]))
        \/ World(s, Expire(k[s]))
  BY DEF Environment, Tick
<1>2. k[s] \in Fds BY DEF TypeOK
<1> DEFINE Good(fd) == /\ Woken(k[s], fd)
                       /\ k[s].conn = "est" /\ ~k[s].eof /\ Kind[s] = "LISTENER"
                            => fd.conn = "est" /\ ~fd.eof
<1>3. \A fd : Woken(k[s], fd) => fd \in Fds BY DEF Woken
<1>4. \A fd \in Arrive(Kind[s], k[s]) : Good(fd) BY <1>2, ArriveWakes
<1>5. \A fd \in PeerFin(Kind[s], k[s]) : Good(fd) BY <1>2, PeerFinWakes
<1>6. \A fd \in PeerReset(Kind[s], k[s]) : Good(fd) BY <1>2, PeerResetWakes
<1>7. \A fd \in IcmpError(Kind[s], k[s]) : Good(fd) BY <1>2, IcmpErrorWakes
<1>8. \A fd \in Established(k[s]) : Good(fd) BY <1>2, EstablishedWakes
<1>9. \A fd \in Drain(Kind[s], k[s]) : Good(fd) BY <1>2, DrainWakes
<1>10. \A fd \in Expire(k[s]) : Good(fd) BY <1>2, ExpireWakes
<1>11. PICK fd : World(s, {fd}) /\ Good(fd)
  <2> HIDE DEF Good
  <2> QED BY <1>1, <1>4, <1>5, <1>6, <1>7, <1>8, <1>9, <1>10 DEF World
<1> QED BY <1>3, <1>11

LEMMA EnvironmentStruct == ASSUME StructInv, Environment PROVE StructInv'
<1>1. TypeOK BY DEF StructInv
<1>2. PICK s \in Socks, fd \in Fds : World(s, {fd}) BY <1>1, EnvironmentWakes
<1> QED BY <1>1, <1>2, DescriptorsOnly DEF World, userVars, TypeOK

-----------------------------------------------------------------------------
(* The loop.                                                               *)

LEMMA LoopOnly ==
  ASSUME StructInv, LoopInv',
         calling = NoOp \/ pc \notin {"setup", "callback"} \/ pc' = pc,
         pc # "dispatch" \/ pc' = pc,
         UNCHANGED <<k, slot, await, waiting, calling, batch, runs, displaced,
                     redelivered, missed>>
  PROVE StructInv'
<1>1. TypeOK' BY LoopTypesNext DEF StructInv, TypeOK
<1>2. CallingInv' BY DEF StructInv, CallingInv
<1>3. BatchInv' BY DEF StructInv, BatchInv
<1>4. SlotInv' /\ AwaitInv' BY DEF StructInv, SlotInv, AwaitInv
<1> QED BY <1>1, <1>2, <1>3, <1>4 DEF StructInv

LEMMA RunStruct ==
  ASSUME StructInv, StartRun \/ LoopTest \/ EndCallback \/ StartWait \/ UserEnd \/ Interrupted
  PROVE StructInv'
<1>1. LoopInv BY DEF StructInv
<1>2. CASE StartRun
  <2>1. LoopInv' BY <1>1, <1>2, LoopStepInv DEF StartRun
  <2> QED BY <1>2, <2>1, LoopOnly DEF StartRun, NotHere, userVars, Run
<1>3. CASE LoopTest
  <2>1. LoopInv' BY <1>1, <1>3, LoopStepInv DEF LoopTest
  <2> QED BY <1>3, <2>1, LoopOnly DEF LoopTest, NotHere, userVars, Enter
<1>4. CASE EndCallback
  <2>1. LoopInv' BY <1>1, <1>4, LoopStepInv DEF EndCallback
  <2> QED BY <1>4, <2>1, LoopOnly DEF EndCallback, NotHere, userVars, Return
<1>5. CASE StartWait
  <2>1. LoopInv' BY <1>1, <1>5, LoopStepInv DEF StartWait
  <2> QED BY <1>5, <2>1, LoopOnly DEF StartWait, NotHere, userVars, EnterWait
<1>6. CASE UserEnd
  <2>1. LoopInv' BY <1>1, <1>6, LoopStepInv DEF UserEnd
  <2> QED BY <1>6, <2>1, LoopOnly DEF UserEnd, NotHere, userVars, End
<1>7. CASE Interrupted
  <2>1. LoopInv' BY <1>1, <1>7, SMTT(40) DEF Interrupted, LoopInv, NothingDueInWait, Places
  <2> QED BY <1>7, <2>1, LoopOnly DEF Interrupted, NotHere, userVars
<1> QED BY <1>2, <1>3, <1>4, <1>5, <1>6, <1>7

(* The event under the iterator, and the operation its callback runs. *)
LEMMA CalleeIsOp ==
  ASSUME StructInv, Scan
  PROVE /\ waitset[it] \in CompletedEvents
        /\ waitset[it].cb \in Ops /\ Callee(waitset[it]) \in Ops
        /\ await[Callee(waitset[it])].type = "ACCEPT"
             => await[Callee(waitset[it])].target \in Fresh
<1>1. LoopInv BY DEF StructInv
<1>2. it \in 1..Len(waitset) BY <1>1 DEF Scan, LoopInv
<1>3. waitset[it] \in CompletedEvents BY <1>1, <1>2, ElementOfSeq DEF LoopInv
<1>4. waitset[it].cb \in Ops BY <1>3 DEF CompletedEvents
<1> QED BY <1>3, <1>4 DEF Callee, StructInv, AwaitInv

LEMMA StartCallbackStruct == ASSUME StructInv, StartCallback PROVE StructInv'
<1> DEFINE ev == waitset[it]
<1>1. /\ TypeOK /\ LoopInv /\ Scan /\ Called(ev)
      /\ UNCHANGED <<slot, await, waiting, calling, batch, missed>>
  <2>1. TypeOK /\ LoopInv /\ Scan BY DEF StructInv, StartCallback
  <2> QED BY <2>1, ScannedIsDue DEF StartCallback
<1>2. /\ ev.cb \in Ops /\ Callee(ev) \in Ops
      /\ await[Callee(ev)].type = "ACCEPT" => await[Callee(ev)].target \in Fresh
  BY <1>1, CalleeIsOp
<1>3. LoopInv' /\ LoopTypeOK' BY <1>1, LoopStepInv, LoopTypesNext
<1>4. k' \in [Socks -> Fds]
  <2>1. k' = Resumed(ev) BY <1>1 DEF Called
  <2> QED BY <1>1, <1>2, <2>1, FreshAreSocks, EpollAddTyped DEF Resumed, TypeOK
<1>5. runs' \in [Ops -> 0..2]
  <2>1. runs' = [runs EXCEPT ![Callee(ev)] = IF runs[Callee(ev)] = 2 THEN 2
                                             ELSE runs[Callee(ev)] + 1]
    BY <1>1 DEF Called
  <2> HIDE DEF ev
  <2> QED BY <1>1, <1>2, <2>1 DEF TypeOK
<1>6. displaced' \subseteq Ops /\ redelivered' \subseteq Ops
  BY <1>1, <1>2 DEF Called, TypeOK
<1>7. TypeOK'
  BY <1>1, <1>3, <1>4, <1>5, <1>6 DEF TypeOK
<1>8. pc = "scan" /\ UNCHANGED <<slot, await, waiting, calling, batch>>
  BY <1>1 DEF Scan
<1> QED BY <1>3, <1>7, <1>8
        DEF StructInv, BatchInv, SlotInv, AwaitInv, CallingInv

LEMMA HarvestStruct == ASSUME StructInv, Harvest PROVE StructInv'
<1>1. TypeOK /\ LoopInv BY DEF StructInv
<1>2. PICK S \in SUBSET Ready :
        /\ batch' = {[sock |-> s, events |-> Mask(Kind[s], k[s])] : s \in S}
        /\ k' = [s \in Socks |-> IF s \in Ready \ S THEN k[s]
                                 ELSE [k[s] EXCEPT !.ready = FALSE]]
  BY DEF Harvest
<1>3. batch' \subseteq Polled
  <2>1. \A s : Mask(Kind[s], k[s]) \subseteq {"IN", "OUT", "ERR", "HUP"} BY DEF Mask
  <2>2. S \subseteq Socks BY <1>2 DEF Ready
  <2>3. \A s \in S : [sock |-> s, events |-> Mask(Kind[s], k[s])] \in Polled
    BY <2>1, <2>2 DEF Polled
  <2> QED BY <1>2, <2>3
<1>4. k' \in [Socks -> Fds]
  <2>1. ASSUME NEW s \in Socks
        PROVE k[s] \in Fds /\ [k[s] EXCEPT !.ready = FALSE] \in Fds
    BY <1>1, ZenonT(40) DEF TypeOK, Fds
  <2> QED BY <1>2, <2>1
<1>5. /\ UNCHANGED <<waitset, it, canContinue, slot, calling, runs, await, waiting,
                     displaced, redelivered, missed>>
      /\ pc = "wait" /\ pc' = "dispatch"
  BY DEF Harvest, userVars
<1>6. LoopInv' /\ LoopTypeOK'
  <2>1. LoopInv' BY <1>1, <1>5 DEF LoopInv, NothingDueInWait, Places
  <2> QED BY <2>1, LoopTypesNext
<1>7. TypeOK' BY <1>1, <1>3, <1>4, <1>5, <1>6 DEF TypeOK
<1> QED BY <1>5, <1>6, <1>7
        DEF StructInv, BatchInv, SlotInv, AwaitInv, CallingInv

-----------------------------------------------------------------------------
(* Wait.                                                                   *)

(* One turn of the for loop: the slot is kept or completed. *)
LEMMA ServedStruct ==
  ASSUME StructInv, NEW b \in batch, Served(b),
         NEW new \in Slots,
         slot' = [slot EXCEPT ![b.sock] = new],
         new.sock = slot[b.sock].sock,
         new.ev.cb = slot[b.sock].ev.cb,
         new.type \in {slot[b.sock].type, "NOOP"},
         new.data = slot[b.sock].data,
         NEW ev \in Events, ev.cb = slot[b.sock].ev.cb,
         waitset' = SubmitComplete(waitset, ev) \/ waitset' = waitset,
         k' \in [Socks -> Fds],
         redelivered' \subseteq Ops,
         missed' \subseteq Socks \X {"IN", "OUT"}
  PROVE StructInv'
<1>1. TypeOK /\ LoopInv BY DEF StructInv
<1>2. b \in Polled /\ b.sock \in Socks BY <1>1 DEF TypeOK, Polled
<1>3. /\ UNCHANGED <<it, canContinue, calling, runs, await, waiting, displaced>>
      /\ pc = "dispatch" /\ pc' \in {"top", "dispatch"} /\ slot[b.sock].sock
      /\ batch' \subseteq batch
      /\ pc' # "dispatch" => batch' = {}
  BY DEF Served
<1>4. slot' \in [Socks -> Slots] /\ SlotInv' BY <1>2, <1>3, SlotKept
<1>5. ev.cb \in Ops BY <1>2, <1>3 DEF StructInv, SlotInv
<1>6. LoopInv' /\ LoopTypeOK'
  <2>1. LoopInv' BY <1>1, <1>3, <1>5, CompletionInv DEF Places
  <2> QED BY <2>1, LoopTypesNext
<1>7. TypeOK' BY <1>1, <1>3, <1>4, <1>6 DEF TypeOK
<1>8. CallingInv' /\ AwaitInv' /\ BatchInv'
  BY <1>3 DEF StructInv, CallingInv, AwaitInv, BatchInv
<1> QED BY <1>4, <1>6, <1>7, <1>8 DEF StructInv

LEMMA MissedTyped ==
  ASSUME TypeOK, NEW b \in batch, Swallowed(b) \/ Recorded(b)
  PROVE missed' \subseteq Socks \X {"IN", "OUT"}
<1>1. b.sock \in Socks BY DEF TypeOK, Polled
<1> QED BY <1>1 DEF TypeOK, Swallowed, Recorded

LEMMA FlaggedTyped ==
  ASSUME StructInv, NEW b \in batch, NEW new \in {Flagged(b)}
  PROVE /\ new \in Slots
        /\ new.sock = slot[b.sock].sock /\ new.type = slot[b.sock].type
        /\ new.ev = slot[b.sock].ev /\ new.data = slot[b.sock].data
        /\ new.rp = (slot[b.sock].rp \/ "IN" \in b.events)
        /\ new.wp = (slot[b.sock].wp \/ "OUT" \in b.events)
<1>1. slot[b.sock] \in Slots BY DEF StructInv, TypeOK, Polled
<1>2. ASSUME NEW sl \in Slots,
             new = [sl EXCEPT !.rp = @ \/ "IN" \in b.events, !.wp = @ \/ "OUT" \in b.events]
      PROVE /\ new \in Slots
            /\ new.sock = sl.sock /\ new.type = sl.type
            /\ new.ev = sl.ev /\ new.data = sl.data
            /\ new.rp = (sl.rp \/ "IN" \in b.events)
            /\ new.wp = (sl.wp \/ "OUT" \in b.events)
  BY <1>2 DEF Slots
<1> QED BY <1>1, <1>2 DEF Flagged

(* Clear() of a slot whose event Wait has completed. *)
LEMMA CompletedTyped ==
  ASSUME NEW sl \in Slots, NEW ev \in Events, NEW new \in {[Clear(sl) EXCEPT !.ev = ev]}
  PROVE /\ new \in Slots
        /\ new.sock = sl.sock /\ new.type = "NOOP"
        /\ new.ev = ev /\ new.data = sl.data
        /\ new.rp = sl.rp /\ new.wp = sl.wp
<1>1. PICK c \in Slots :
        /\ c = Clear(sl) /\ c.sock = sl.sock /\ c.type = "NOOP" /\ c.data = sl.data
        /\ c.rp = sl.rp /\ c.wp = sl.wp
  BY ClearTyped
<1>2. new = [c EXCEPT !.ev = ev] BY <1>1
<1>3. /\ new \in Slots /\ new.sock = c.sock /\ new.type = c.type /\ new.ev = ev
      /\ new.data = c.data /\ new.rp = c.rp /\ new.wp = c.wp
  BY <1>2 DEF Slots
<1> QED BY <1>1, <1>3

LEMMA StatusTyped ==
  ASSUME NEW ev \in Events, NEW st \in Statuses, NEW e \in Int, NEW r \in Int
  PROVE /\ [ev EXCEPT !.status = st, !.error = e] \in Events
        /\ [ev EXCEPT !.status = st, !.error = e].cb = ev.cb
        /\ [ev EXCEPT !.status = st, !.res = r] \in Events
        /\ [ev EXCEPT !.status = st, !.res = r].cb = ev.cb
        /\ [ev EXCEPT !.status = st] \in Events
        /\ [ev EXCEPT !.status = st].cb = ev.cb
  BY DEF Events

LEMMA DoneTyped ==
  ASSUME NEW ev \in Events, NEW r \in Int
  PROVE /\ [ev EXCEPT !.status = "COMPLETED", !.res = r] \in Events
        /\ [ev EXCEPT !.status = "COMPLETED", !.res = r].cb = ev.cb
  BY DEF Events, Statuses

LEMMA SlotOfBatch ==
  ASSUME StructInv, NEW b \in batch
  PROVE /\ b.sock \in Socks /\ slot[b.sock] \in Slots /\ slot[b.sock].ev \in Events
        /\ k[b.sock] \in Fds /\ k \in [Socks -> Fds] /\ slot \in [Socks -> Slots]
        /\ displaced \subseteq Ops /\ redelivered \subseteq Ops
  BY DEF StructInv, TypeOK, Polled, Slots

LEMMA DispatchNullStruct ==
  ASSUME StructInv, NEW b \in batch, DispatchNull(b) PROVE StructInv'
<1>1. TypeOK /\ LoopInv BY DEF StructInv
<1>2. /\ UNCHANGED <<waitset, it, canContinue, k, slot, calling, runs, await, waiting,
                     displaced, redelivered, missed>>
      /\ pc = "dispatch" /\ pc' = "crashed" /\ batch' = {}
  BY DEF DispatchNull, userVars
<1>3. LoopInv' /\ LoopTypeOK'
  <2>1. LoopInv' BY <1>1, <1>2 DEF LoopInv, NothingDueInWait, Places
  <2> QED BY <2>1, LoopTypesNext
<1>4. TypeOK' BY <1>1, <1>2, <1>3 DEF TypeOK
<1> QED BY <1>2, <1>3, <1>4
        DEF StructInv, BatchInv, SlotInv, AwaitInv, CallingInv

LEMMA DispatchErrorStruct ==
  ASSUME StructInv, NEW b \in batch, DispatchError(b) PROVE StructInv'
<1>1. TypeOK BY DEF StructInv
<1>2. PICK e \in Errnos :
        /\ waitset' = SubmitComplete(waitset, [slot[b.sock].ev EXCEPT !.status = "ERR", !.error = e])
        /\ slot' = [slot EXCEPT ![b.sock] =
             [Clear(slot[b.sock]) EXCEPT
                !.ev = [slot[b.sock].ev EXCEPT !.status = "ERR", !.error = e]]]
  BY DEF DispatchError
<1> DEFINE ev == [slot[b.sock].ev EXCEPT !.status = "ERR", !.error = e]
           new == [Clear(slot[b.sock]) EXCEPT !.ev = ev]
<1>3. ev \in Events /\ ev.cb = slot[b.sock].ev.cb
  <2>1. e \in Int BY EpollAssumption
  <2> QED BY <2>1, SlotOfBatch, StatusTyped DEF Statuses
<1>4. slot' = [slot EXCEPT ![b.sock] = new] /\ waitset' = SubmitComplete(waitset, ev)
  BY <1>2
<1> HIDE DEF ev
<1>5. /\ new \in Slots /\ new.sock = slot[b.sock].sock /\ new.ev = ev
      /\ new.type = "NOOP" /\ new.data = slot[b.sock].data
  BY <1>3, SlotOfBatch, CompletedTyped
<1> HIDE DEF new
<1>6. Served(b) /\ k' = k BY DEF DispatchError
<1>7. redelivered' \subseteq Ops
  <2>1. slot[b.sock].ev.cb \in Ops BY <1>6, SlotOfBatch DEF Served, StructInv, SlotInv
  <2> QED BY <1>1, <2>1 DEF DispatchError, TypeOK
<1>8. missed' \subseteq Socks \X {"IN", "OUT"} BY <1>1, MissedTyped DEF DispatchError
<1> QED BY <1>3, <1>4, <1>5, <1>6, <1>7, <1>8, SlotOfBatch, ServedStruct

LEMMA CompletedStruct ==
  ASSUME StructInv, NEW b \in batch, Edge(b),
         NEW sl \in Slots, sl.sock = slot[b.sock].sock, sl.data = slot[b.sock].data,
         NEW ev \in Events, ev.cb = slot[b.sock].ev.cb,
         Completed(b, ev, sl),
         k' \in [Socks -> Fds]
  PROVE StructInv'
<1> DEFINE new == [Clear(sl) EXCEPT !.ev = ev]
<1>1. /\ new \in Slots /\ new.sock = slot[b.sock].sock /\ new.ev = ev
      /\ new.type = "NOOP" /\ new.data = slot[b.sock].data
  BY CompletedTyped
<1>2. /\ slot' = [slot EXCEPT ![b.sock] = new]
      /\ waitset' = SubmitComplete(waitset, ev)
      /\ redelivered' = redelivered
  BY DEF Completed
<1> HIDE DEF new
<1>3. missed' \subseteq Socks \X {"IN", "OUT"} BY MissedTyped DEF Edge, StructInv
<1> QED BY <1>1, <1>2, <1>3, SlotOfBatch, ServedStruct DEF Edge

LEMMA DispatchHangupStruct ==
  ASSUME StructInv, NEW b \in batch, DispatchHangup(b) PROVE StructInv'
<1> DEFINE ev == [slot[b.sock].ev EXCEPT !.status = "ERR", !.error = 144]
           new == [Clear(slot[b.sock]) EXCEPT !.ev = ev]
<1>1. \/ /\ slot' = [slot EXCEPT ![b.sock] = new]
         /\ waitset' = SubmitComplete(waitset, ev)
      \/ UNCHANGED <<slot, waitset>>
  BY SMTT(40) DEF DispatchHangup
<1>2. ev \in Events /\ ev.cb = slot[b.sock].ev.cb
  <2>1. slot[b.sock].ev \in Events BY SlotOfBatch
  <2> DEFINE code == 144
  <2>2. "ERR" \in Statuses /\ code \in Int BY DEF Statuses
  <2>3. ev = [slot[b.sock].ev EXCEPT !.status = "ERR", !.error = code] OBVIOUS
  <2> HIDE DEF ev, code
  <2> QED BY <2>1, <2>2, <2>3, StatusTyped, ZenonT(40)
<1> HIDE DEF ev
<1>3. /\ new \in Slots /\ new.sock = slot[b.sock].sock /\ new.ev = ev
      /\ new.type = "NOOP" /\ new.data = slot[b.sock].data
  BY <1>2, SlotOfBatch, CompletedTyped
<1> HIDE DEF new
<1>4. /\ Served(b) /\ k' \in [Socks -> Fds] /\ redelivered' \subseteq Ops
  BY SlotOfBatch DEF DispatchHangup
<1>5. missed' \subseteq Socks \X {"IN", "OUT"}
  BY MissedTyped DEF DispatchHangup, StructInv
<1>6. CASE slot' = [slot EXCEPT ![b.sock] = new] /\ waitset' = SubmitComplete(waitset, ev)
  BY <1>2, <1>3, <1>4, <1>5, <1>6, ServedStruct
<1>7. CASE UNCHANGED <<slot, waitset>>
  <2>1. slot' = [slot EXCEPT ![b.sock] = slot[b.sock]] BY <1>7, SlotOfBatch
  <2> QED BY <1>4, <1>5, <1>7, <2>1, SlotOfBatch, ServedStruct
<1> QED BY <1>1, <1>6, <1>7

LEMMA DispatchIdleStruct ==
  ASSUME StructInv, NEW b \in batch, DispatchIdle(b) PROVE StructInv'
<1> DEFINE new == Flagged(b)
<1>1. /\ new \in Slots /\ new.sock = slot[b.sock].sock /\ new.ev = slot[b.sock].ev
      /\ new.type = slot[b.sock].type /\ new.data = slot[b.sock].data
  BY FlaggedTyped
<1>2. slot' = [slot EXCEPT ![b.sock] = new] /\ waitset' = waitset
  BY DEF DispatchIdle
<1> HIDE DEF new
<1>3. /\ Served(b) /\ k' \in [Socks -> Fds] /\ redelivered' \subseteq Ops
  BY SlotOfBatch DEF DispatchIdle, Edge
<1>4. missed' \subseteq Socks \X {"IN", "OUT"}
  BY MissedTyped DEF DispatchIdle, Edge, StructInv
<1> QED BY <1>1, <1>2, <1>3, <1>4, SlotOfBatch, ServedStruct

LEMMA DispatchTransferStruct ==
  ASSUME StructInv, NEW b \in batch, DispatchTransfer(b) PROVE StructInv'
<1> DEFINE s == b.sock
           type == slot[s].type
           fl == Flagged(b)
<1>1. TypeOK /\ s \in Socks /\ Edge(b) /\ type \in InTypes \cup OutTypes
  BY SlotOfBatch DEF DispatchTransfer, StructInv
<1>2. PICK t \in Try(s, type) :
        /\ k' = KernelAfter(s, type, t)
        /\ \/ /\ \/ slot' = [slot EXCEPT ![s] = [fl EXCEPT !.wp = FALSE]]
                 \/ slot' = [slot EXCEPT ![s] = [fl EXCEPT !.rp = FALSE]]
              /\ UNCHANGED <<waitset, redelivered>>
           \/ Completed(b, Outcome(slot[s].ev, t.r), fl)
  BY DEF DispatchTransfer
<1>3. t.r \in Int /\ t.fd \in Fds BY <1>1, TryTyped
<1>4. k' \in [Socks -> Fds] BY <1>1, <1>2, <1>3, KernelAfterTyped
<1>5. /\ fl \in Slots /\ fl.sock = slot[s].sock /\ fl.ev = slot[s].ev
      /\ fl.type = slot[s].type /\ fl.data = slot[s].data
  BY FlaggedTyped
<1> HIDE DEF fl
<1>6. CASE Completed(b, Outcome(slot[s].ev, t.r), fl)
  <2>1. /\ Outcome(slot[s].ev, t.r) \in Events
        /\ Outcome(slot[s].ev, t.r).cb = slot[s].ev.cb
    BY <1>3, SlotOfBatch, OutcomeTyped
  <2> QED BY <1>1, <1>4, <1>5, <1>6, <2>1, CompletedStruct
<1>7. ASSUME NEW new \in {[fl EXCEPT !.wp = FALSE], [fl EXCEPT !.rp = FALSE]},
             slot' = [slot EXCEPT ![s] = new], UNCHANGED <<waitset, redelivered>>
      PROVE StructInv'
  <2>1. /\ new \in Slots /\ new.sock = slot[s].sock /\ new.ev = slot[s].ev
        /\ new.type = slot[s].type /\ new.data = slot[s].data
    BY <1>5 DEF Slots
  <2>2. missed' \subseteq Socks \X {"IN", "OUT"} BY <1>1, MissedTyped DEF Edge
  <2>3. redelivered' \subseteq Ops BY <1>7, SlotOfBatch
  <2>4. Served(b) BY <1>1 DEF Edge
  <2> QED BY <1>4, <1>7, <2>1, <2>2, <2>3, <2>4, SlotOfBatch, ServedStruct
<1> QED BY <1>2, <1>6, <1>7

LEMMA DispatchRestStruct ==
  ASSUME StructInv, NEW b \in batch,
         DispatchConnect(b) \/ DispatchTimer(b) \/ DispatchSignal(b)
  PROVE StructInv'
<1> DEFINE s == b.sock
           fl == Flagged(b)
           nr == [fl EXCEPT !.rp = FALSE]
<1>1. /\ fl \in Slots /\ fl.sock = slot[s].sock /\ fl.data = slot[s].data
  BY FlaggedTyped
<1>2. ASSUME NEW ev, NEW sl \in {fl, nr}, Completed(b, ev, sl),
             ev \in Events, ev.cb = slot[s].ev.cb, Edge(b), k' \in [Socks -> Fds]
      PROVE StructInv'
  <2> HIDE DEF fl
  <2>1. nr \in Slots /\ nr.sock = slot[s].sock /\ nr.data = slot[s].data
    BY <1>1 DEF Slots
  <2> HIDE DEF nr
  <2> QED BY <1>1, <1>2, <2>1, CompletedStruct
<1>3. CASE DispatchConnect(b)
  <2> DEFINE ev == [slot[s].ev EXCEPT !.status = "COMPLETED"]
  <2>1. Completed(b, ev, fl) /\ Edge(b) /\ k' = k BY <1>3 DEF DispatchConnect
  <2>2. ev \in Events /\ ev.cb = slot[s].ev.cb
    <3>1. slot[s].ev \in Events BY SlotOfBatch
    <3> QED BY <3>1 DEF Events, Statuses
  <2> HIDE DEF ev, fl, nr
  <2> QED BY <1>2, <2>1, <2>2, SlotOfBatch
<1>4. CASE DispatchTimer(b)
  <2> DEFINE ev == [slot[s].ev EXCEPT !.status = "COMPLETED", !.res = 0]
  <2>1. Completed(b, ev, nr) /\ Edge(b) /\ k' = k BY <1>4 DEF DispatchTimer
  <2>2. ev \in Events /\ ev.cb = slot[s].ev.cb
    <3>1. slot[s].ev \in Events BY SlotOfBatch
    <3>2. 0 \in Int OBVIOUS
    <3> QED BY <3>1, <3>2, DoneTyped, Zenon
  <2> HIDE DEF ev, fl, nr
  <2> QED BY <1>2, <2>1, <2>2, SlotOfBatch
<1>5. CASE DispatchSignal(b)
  <2>1. PICK signo \in {0, 1} :
          Completed(b, [slot[s].ev EXCEPT !.status = "COMPLETED", !.res = signo], nr)
    BY <1>5 DEF DispatchSignal
  <2> DEFINE ev == [slot[s].ev EXCEPT !.status = "COMPLETED", !.res = signo]
  <2>2. Completed(b, ev, nr) BY <2>1
  <2>3. ev \in Events /\ ev.cb = slot[s].ev.cb
    <3>1. slot[s].ev \in Events BY SlotOfBatch
    <3>2. signo \in Int OBVIOUS
    <3> QED BY <3>1, <3>2, DoneTyped, Zenon
  <2>4. Edge(b) /\ k' = [k EXCEPT ![s] = EpollDel(k[s])] BY <1>5 DEF DispatchSignal
  <2>5. k' \in [Socks -> Fds] BY <2>4, SlotOfBatch, EpollDelTyped
  <2> HIDE DEF ev, fl, nr
  <2> QED BY <1>2, <2>2, <2>3, <2>4, <2>5
<1> QED BY <1>3, <1>4, <1>5

-----------------------------------------------------------------------------
LEMMA InitStruct == Init => StructInv
<1> SUFFICES ASSUME Init PROVE StructInv
  OBVIOUS
<1>1. LoopInv /\ LoopTypeOK BY LoopInitInv, LoopInvTypes DEF Init
<1>2. slot \in [Socks -> Slots] BY NewSlotTyped DEF Init
<1>3. k \in [Socks -> Fds]
  <2>1. \A s \in Socks : NewFd(Kind[s]) \in Fds BY NewFdTyped, EpollAssumption
  <2> QED BY <2>1, ClosedFdTyped DEF Init
<1>4. await \in [Ops -> Awaits] BY DEF Init, Unissued, Awaits, Types
<1>5. TypeOK BY <1>1, <1>2, <1>3, <1>4 DEF Init, TypeOK
<1>6. SlotInv BY DEF Init, SlotInv, NewSlot
<1>7. AwaitInv BY DEF Init, AwaitInv, Unissued
<1> QED BY <1>1, <1>5, <1>6, <1>7 DEF StructInv, BatchInv, CallingInv, Init

LEMMA NextStruct == StructInv /\ [Next]_vars => StructInv'
<1> SUFFICES ASSUME StructInv, [Next]_vars PROVE StructInv'
  OBVIOUS
<1>1. ASSUME NEW op \in Ops, Submit(op) PROVE StructInv'
  <2>1. PICK s \in Socks :
          \/ \E type \in {"READ", "WRITE", "RECVFROM", "SENDTO"} : SubmitTransfer(s, type, op)
          \/ \E t \in Socks : SubmitAccept(s, t, op)
          \/ SubmitConnect(s, op)
          \/ \E zero \in BOOLEAN : SubmitTimer(s, zero, op)
          \/ SubmitSignal(s, op)
    BY <1>1 DEF Submit
  <2> QED BY <2>1, SubmitTransferStruct, SubmitAcceptStruct, SubmitConnectStruct,
             SubmitTimerStruct, SubmitSignalStruct
<1>2. CASE DirectCall BY <1>2, DirectCallStruct
<1>3. CASE StartRun \/ EndCallback \/ UserEnd \/ LoopTest \/ StartWait \/ Interrupted
  BY <1>3, RunStruct
<1>4. CASE StartCallback BY <1>4, StartCallbackStruct
<1>5. CASE Harvest BY <1>5, HarvestStruct
<1>6. CASE Dispatch
  BY <1>6, DispatchNullStruct, DispatchErrorStruct, DispatchHangupStruct,
     DispatchIdleStruct, DispatchTransferStruct, DispatchRestStruct DEF Dispatch
<1>7. CASE Tried BY <1>7, TriedStruct
<1>8. CASE Environment BY <1>8, EnvironmentStruct
<1>9. CASE UNCHANGED vars
  <2>1. LoopInv' BY <1>9, LoopStepInv DEF StructInv, vars, loopVars
  <2> QED BY <1>9, <2>1, LoopOnly DEF vars
<1> QED BY <1>1, <1>2, <1>3, <1>4, <1>5, <1>6, <1>7, <1>8, <1>9 DEF Next, LoopStep

(* Every reachable state is structurally sound: see StructInv. *)
THEOREM Structure == Spec => []StructInv
  BY InitStruct, NextStruct, PTL DEF Spec

(* The type invariant holds for all sockets, operations and environments.  *)
THEOREM TypeCorrect == Spec => []TypeOK
<1>1. StructInv => TypeOK BY DEF StructInv
<1> QED BY <1>1, Structure, PTL

(* Run enters Wait with an empty list only. *)
THEOREM NoCompletionSleeps == Spec => []NothingDueInWait
<1>1. StructInv => NothingDueInWait BY DEF StructInv, LoopInv
<1> QED BY <1>1, Structure, PTL

-----------------------------------------------------------------------------
(* Readiness: the edge-triggered protocol between Wait, the slot flags and *)
(* the kernel loses no readiness but what EPOLLERR and EPOLLHUP drop; no   *)
(* operation waits for a direction already flagged; a careful program      *)
(* never makes Wait follow a null socket.                                  *)
(* System calls are quiet. *)
LEMMA RecvMsgQuiet ==
  ASSUME NEW kind, NEW fd \in Fds, NEW o \in RecvMsg(kind, fd)
  PROVE /\ Quiet(kind, fd, o.fd)
        /\ o.fd.conn = fd.conn /\ o.fd.eof = fd.eof
<1>1. o.fd \in Fds BY RecvMsgTyped DEF Outcomes
<1>2. \/ o.fd = fd
      \/ o.fd = [fd EXCEPT !.err = FALSE]
      \/ \E n \in 1..fd.in : o.fd = [fd EXCEPT !.in = @ - n]
  BY RecvMsgLeaves
<1>3. ASSUME NEW n \in 1..fd.in, o.fd = [fd EXCEPT !.in = @ - n]
      PROVE /\ o.fd.in <= fd.in /\ o.fd.reg = fd.reg /\ o.fd.ready = fd.ready
            /\ o.fd.conn = fd.conn /\ o.fd.eof = fd.eof /\ o.fd.room = fd.room
            /\ o.fd.shutW = fd.shutW
  <2>1. fd.in \in Nat /\ fd.in - n <= fd.in BY Bounds DEF Fds
  <2> QED BY <1>3, <2>1 DEF Fds
<1>4. CASE o.fd = fd BY <1>4, QuietSelf
<1>5. CASE o.fd = [fd EXCEPT !.err = FALSE]
  <2>1. /\ o.fd.in = fd.in /\ o.fd.reg = fd.reg /\ o.fd.ready = fd.ready
        /\ o.fd.conn = fd.conn /\ o.fd.eof = fd.eof /\ o.fd.room = fd.room
        /\ o.fd.shutW = fd.shutW
    BY <1>5 DEF Fds
  <2>2. o.fd.in <= fd.in BY <2>1, Bounds DEF Fds
  <2> QED BY <1>1, <2>1, <2>2, QuietLess
<1>6. CASE \E n \in 1..fd.in : o.fd = [fd EXCEPT !.in = @ - n]
  BY <1>1, <1>3, <1>6, QuietLess
<1> QED BY <1>2, <1>4, <1>5, <1>6

LEMMA SendMsgQuiet ==
  ASSUME NEW kind, NEW fd \in Fds, NEW o \in SendMsg(fd)
  PROVE /\ Quiet(kind, fd, o.fd)
        /\ o.fd.conn = fd.conn /\ o.fd.eof = fd.eof
<1>1. o.fd \in Fds BY SendMsgTyped DEF Outcomes
<1>2. \/ o.fd = fd
      \/ o.fd = [fd EXCEPT !.err = FALSE]
      \/ fd.room /\ \E b \in BOOLEAN : o.fd = [fd EXCEPT !.room = b]
  BY SendMsgLeaves
<1>3. /\ o.fd.in = fd.in /\ o.fd.reg = fd.reg /\ o.fd.ready = fd.ready
      /\ o.fd.conn = fd.conn /\ o.fd.eof = fd.eof /\ (o.fd.room => fd.room)
      /\ o.fd.shutW = fd.shutW
  BY <1>2 DEF Fds
<1>4. o.fd.in <= fd.in BY <1>3, Bounds DEF Fds
<1>5. Quiet(kind, fd, o.fd) BY <1>1, <1>3, <1>4, QuietLess
<1> QED BY <1>3, <1>5

LEMMA AcceptCallQuiet ==
  ASSUME NEW kind, NEW fd \in Fds, NEW o \in AcceptCall(fd)
  PROVE /\ Quiet(kind, fd, o.fd)
        /\ o.fd.conn = fd.conn /\ o.fd.eof = fd.eof
        /\ IntResult(o) = -EAGAIN => fd.in = 0 /\ o.fd = fd
<1>1. o.fd \in Fds BY AcceptCallTyped DEF Outcomes
<1>2. \/ o.fd = fd
      \/ fd.in # 0 /\ o.fd = [fd EXCEPT !.in = @ - 1]
  BY AcceptCallLeaves
<1>3. ASSUME fd.in # 0, o.fd = [fd EXCEPT !.in = @ - 1]
      PROVE /\ o.fd.in <= fd.in /\ o.fd.reg = fd.reg /\ o.fd.ready = fd.ready
            /\ o.fd.conn = fd.conn /\ o.fd.eof = fd.eof /\ o.fd.room = fd.room
            /\ o.fd.shutW = fd.shutW
  <2>1. fd.in \in Nat /\ fd.in - 1 <= fd.in BY Bounds DEF Fds
  <2> QED BY <1>3, <2>1 DEF Fds
<1>6. Quiet(kind, fd, o.fd) /\ o.fd.conn = fd.conn /\ o.fd.eof = fd.eof
  <2>1. CASE o.fd = fd BY <2>1, QuietSelf
  <2>2. CASE fd.in # 0 /\ o.fd = [fd EXCEPT !.in = @ - 1]
    <3>1. Quiet(kind, fd, o.fd) BY <1>1, <1>3, <2>2, QuietLess
    <3> QED BY <1>3, <2>2, <3>1
  <2> QED BY <1>2, <2>1, <2>2
<1>7. ASSUME IntResult(o) = -EAGAIN PROVE fd.in = 0 /\ o.fd = fd
  <2>1. CASE fd.in = 0 BY <2>1 DEF AcceptCall, WouldBlock, Fail
  <2>2. CASE fd.in # 0
    <3>1. \/ o.ret = 0
          \/ o.ret = -1 /\ o.errno = 24
      BY <2>2 DEF AcceptCall, Ok, Fail, EMFILE
    <3> QED BY <1>7, <3>1 DEF IntResult, EAGAIN
  <2> QED BY <2>1, <2>2
<1> QED BY <1>6, <1>7

LEMMA ConnectCallQuiet ==
  ASSUME NEW fd \in Fds, NEW o \in ConnectCall(fd)
  PROVE Quiet("TCP", fd, o.fd)
<1>1. o.fd \in Fds /\ fd.conn \in Conns BY ConnectCallTyped DEF Outcomes, Fds
<1>2. \/ o.fd = fd
      \/ o.fd = [fd EXCEPT !.err = FALSE]
      \/ o.fd = [fd EXCEPT !.conn = "syn"]
  BY ConnectCallLeaves
<1>3. CASE o.fd = fd BY <1>3, QuietSelf
<1>4. CASE o.fd = [fd EXCEPT !.err = FALSE]
  <2>1. /\ o.fd.in = fd.in /\ o.fd.reg = fd.reg /\ o.fd.ready = fd.ready
        /\ o.fd.conn = fd.conn /\ o.fd.eof = fd.eof /\ o.fd.room = fd.room
        /\ o.fd.shutW = fd.shutW
    BY <1>4 DEF Fds
  <2>2. o.fd.in <= fd.in BY <2>1, Bounds DEF Fds
  <2> QED BY <1>1, <2>1, <2>2, QuietLess
<1>5. CASE o.fd = [fd EXCEPT !.conn = "syn"]
  <2>1. /\ o.fd.reg = fd.reg /\ o.fd.ready = fd.ready /\ o.fd.conn = "syn"
    BY <1>5 DEF Fds
  <2>2. Mask("TCP", o.fd) \cap {"IN", "OUT"} = {} BY <2>1 DEF Mask
  <2> QED BY <1>1, <2>1, <2>2 DEF Quiet
<1> QED BY <1>2, <1>3, <1>4, <1>5

(* A Try... call: only accept() reports that it would block, and it does   *)
(* so only when nothing is queued.                                         *)
LEMMA TryQuiet ==
  ASSUME TypeOK, NEW s \in Socks, NEW type \in InTypes \cup OutTypes,
         NEW t \in Try(s, type)
  PROVE /\ Quiet(Kind[s], k[s], t.fd)
        /\ t.fd.conn = k[s].conn /\ t.fd.eof = k[s].eof
        /\ t.r = -EAGAIN => type = "ACCEPT" /\ k[s].in = 0 /\ t.fd = k[s]
<1>1. k[s] \in Fds BY DEF TypeOK
<1>2. CASE type \in {"READ", "RECVFROM"}
  <2>1. PICK o \in RecvMsg(Kind[s], k[s]) : t = [r |-> SizeResult(o), fd |-> o.fd]
    BY <1>2 DEF Try, OutTypes
  <2>2. o \in Outcomes BY <1>1, RecvMsgTyped
  <2> QED BY <1>1, <2>1, <2>2, RecvMsgQuiet, SizeResultTyped
<1>3. CASE type \in OutTypes
  <2>1. PICK o \in SendMsg(k[s]) : t = [r |-> SizeResult(o), fd |-> o.fd]
    BY <1>3 DEF Try, OutTypes
  <2>2. o \in Outcomes BY <1>1, SendMsgTyped
  <2> QED BY <1>1, <2>1, <2>2, SendMsgQuiet, SizeResultTyped
<1>4. CASE type = "ACCEPT"
  <2>1. PICK o \in AcceptCall(k[s]) : t = [r |-> IntResult(o), fd |-> o.fd]
    BY <1>4 DEF Try, OutTypes
  <2> QED BY <1>1, <1>4, <2>1, AcceptCallQuiet
<1> QED BY <1>2, <1>3, <1>4 DEF InTypes

-----------------------------------------------------------------------------
(* What a step makes of a descriptor: it stays as ready as it was, or it   *)
(* wakes, or nobody polls it.                                              *)
Sound(s, fd) ==
  /\ fd.ready => fd.reg
  /\ Kind[s] = "LISTENER" => ~fd.eof /\ fd.conn = "est"
  /\ \/ Quiet(Kind[s], k[s], fd)
     \/ ~fd.reg
     \/ fd.ready
     \/ Mask(Kind[s], fd) \cap {"IN", "OUT"} = {}

LEMMA SoundSelf ==
  ASSUME TypeOK, DescriptorInv, NEW s \in Socks PROVE Sound(s, k[s])
<1>1. k[s] \in Fds BY DEF TypeOK
<1> QED BY <1>1, QuietSelf DEF Sound, DescriptorInv

LEMMA SoundQuiet ==
  ASSUME TypeOK, DescriptorInv, NEW s \in Socks, NEW fd, Quiet(Kind[s], k[s], fd),
         Kind[s] = "LISTENER" => fd.eof = k[s].eof /\ fd.conn = k[s].conn
  PROVE Sound(s, fd)
  BY DEF Sound, DescriptorInv, Quiet

LEMMA SoundAdd ==
  ASSUME NEW s \in Socks, NEW fd \in Fds, fd.open, ~fd.reg, Kind[s] # "LISTENER"
  PROVE Sound(s, EpollAdd(Kind[s], fd))
<1> DEFINE b == Mask(Kind[s], fd) # {}
           new == [fd EXCEPT !.reg = TRUE, !.ready = b]
<1>1. EpollAdd(Kind[s], fd) = new BY DEF EpollAdd
<1>2. /\ new.reg /\ new.ready = b /\ new.conn = fd.conn /\ new.in = fd.in
      /\ new.eof = fd.eof /\ new.room = fd.room /\ new.shutW = fd.shutW
      /\ new.err = fd.err
  BY DEF Fds
<1>3. Mask(Kind[s], new) = Mask(Kind[s], fd)
  <2> HIDE DEF new
  <2> QED BY <1>2 DEF Mask
<1> QED BY <1>1, <1>2, <1>3 DEF Sound

LEMMA WakeStep ==
  ASSUME NoLostWakeup, pc # "crashed",
         \A s \in Socks : Sound(s, k'[s]),
         \A s \in Socks, d \in {"IN", "OUT"} :
           Noted(s, d) /\ Kind[s] \in {"TCP", "UDP", "LISTENER"}
             => Noted(s, d)' \/ d \notin Mask(Kind[s], k'[s]) \/ ~k'[s].reg
  PROVE DescriptorInv' /\ NoLostWakeup'
<1>1. DescriptorInv' BY DEF DescriptorInv, Sound
<1>2. ASSUME NEW s \in Socks, NEW d \in {"IN", "OUT"},
             k'[s].reg, Kind[s] \in {"TCP", "UDP", "LISTENER"}, d \in Mask(Kind[s], k'[s])
      PROVE k'[s].ready \/ Noted(s, d)'
  <2>1. CASE k'[s].ready BY <2>1
  <2>2. CASE Quiet(Kind[s], k[s], k'[s])
    <3>1. k[s].reg /\ d \in Mask(Kind[s], k[s]) /\ k'[s].ready = k[s].ready
      BY <1>2, <2>2 DEF Quiet
    <3> QED BY <1>2, <3>1 DEF NoLostWakeup
  <2> QED BY <1>2, <2>1, <2>2 DEF Sound
<1>3. NoLostWakeup' BY <1>2 DEF NoLostWakeup
<1> QED BY <1>1, <1>3

(* Steps that leave what Wait knows alone. *)
LEMMA WakeStepQuietly ==
  ASSUME NoLostWakeup, pc # "crashed",
         \A s \in Socks : Sound(s, k'[s]),
         \A s \in Socks : slot'[s].rp = slot[s].rp /\ slot'[s].wp = slot[s].wp,
         UNCHANGED <<batch, missed>>
  PROVE DescriptorInv' /\ NoLostWakeup'
<1>1. \A s \in Socks, d \in {"IN", "OUT"} : Noted(s, d) => Noted(s, d)'
  BY DEF Noted
<1> QED BY <1>1, WakeStep

LEMMA SubmitWake ==
  ASSUME WakeInv, NEW op \in Ops, Submit(op) PROVE DescriptorInv' /\ NoLostWakeup'
<1>1. /\ TypeOK /\ DescriptorInv /\ NoLostWakeup
      /\ k \in [Socks -> Fds] /\ slot \in [Socks -> Slots]
  BY DEF WakeInv, StructInv, TypeOK
<1>2. \A s \in Socks : Sound(s, k[s]) BY <1>1, SoundSelf
<1>3. ASSUME NEW s \in Socks, NEW type \in Types, NEW data \in Socks \cup {NoSock},
             \/ slot' = [slot EXCEPT ![s] = Set(slot[s], type, op, data)]
             \/ slot' = [slot EXCEPT ![s] = Clear(slot[s])]
      PROVE \A x \in Socks : slot'[x].rp = slot[x].rp /\ slot'[x].wp = slot[x].wp
  <2>1. /\ Set(slot[s], type, op, data).rp = slot[s].rp
        /\ Set(slot[s], type, op, data).wp = slot[s].wp
    BY <1>1, SetTyped
  <2>2. Clear(slot[s]).rp = slot[s].rp /\ Clear(slot[s]).wp = slot[s].wp
    BY <1>1, ClearTyped
  <2> QED BY <1>1, <1>3, <2>1, <2>2
<1>4. \A s \in Socks : slot[s].data \in Socks \cup {NoSock} BY <1>1 DEF Slots
<1>5. PICK s \in Socks :
        \/ \E type \in {"READ", "WRITE", "RECVFROM", "SENDTO"} : SubmitTransfer(s, type, op)
        \/ \E t \in Socks : SubmitAccept(s, t, op)
        \/ SubmitConnect(s, op)
        \/ \E zero \in BOOLEAN : SubmitTimer(s, zero, op)
        \/ SubmitSignal(s, op)
  BY DEF Submit
<1>6. ASSUME NEW type \in {"READ", "WRITE", "RECVFROM", "SENDTO"}, SubmitTransfer(s, type, op)
      PROVE DescriptorInv' /\ NoLostWakeup'
  <2>1. /\ slot' = [slot EXCEPT ![s] = Set(slot[s], type, op, slot[s].data)]
        /\ type \in Types /\ k' = k /\ pc # "crashed"
        /\ UNCHANGED <<batch, missed>>
    BY <1>6 DEF SubmitTransfer, MayStart, InUser, Types, InTypes, OutTypes
  <2> QED BY <1>1, <1>2, <1>3, <1>4, <2>1, WakeStepQuietly
<1>7. ASSUME NEW t \in Socks, SubmitAccept(s, t, op)
      PROVE DescriptorInv' /\ NoLostWakeup'
  <2>1. /\ slot' = [slot EXCEPT ![s] = Set(slot[s], "ACCEPT", op, t)]
        /\ "ACCEPT" \in Types /\ k' = k /\ pc # "crashed"
        /\ UNCHANGED <<batch, missed>>
    BY <1>7 DEF SubmitAccept, MayStart, InUser, Types, InTypes
  <2> QED BY <1>1, <1>2, <1>3, <2>1, WakeStepQuietly
<1>8. CASE SubmitConnect(s, op)
  <2>1. PICK o \in ConnectCall(k[s]) : k' = [k EXCEPT ![s] = o.fd]
    BY <1>8 DEF SubmitConnect
  <2>2. /\ \/ slot' = [slot EXCEPT ![s] = Set(slot[s], "CONNECT", op, slot[s].data)]
           \/ slot' = [slot EXCEPT ![s] = Clear(slot[s])]
        /\ "CONNECT" \in Types /\ pc # "crashed" /\ Kind[s] = "TCP"
        /\ UNCHANGED <<batch, missed>>
    BY <1>8 DEF SubmitConnect, MayStart, InUser, Types
  <2>3. Sound(s, o.fd) BY <1>1, <2>2, ConnectCallQuiet, SoundQuiet
  <2>4. \A x \in Socks : Sound(x, k'[x]) BY <1>1, <1>2, <2>1, <2>3
  <2> QED BY <1>1, <1>3, <1>4, <2>2, <2>4, WakeStepQuietly
<1>9. ASSUME NEW zero \in BOOLEAN, SubmitTimer(s, zero, op)
      PROVE DescriptorInv' /\ NoLostWakeup'
  <2>1. /\ slot' = [slot EXCEPT ![s] = Set(slot[s], "TIMETICK", op, slot[s].data)]
        /\ "TIMETICK" \in Types /\ pc # "crashed" /\ Kind[s] = "TIMER"
        /\ k' = [k EXCEPT ![s] = SetTime(k[s], zero)]
        /\ UNCHANGED <<batch, missed>>
    BY <1>9 DEF SubmitTimer, MayStart, InUser, Types
  <2>2. Sound(s, SetTime(k[s], zero))
    <3> DEFINE fd == SetTime(k[s], zero)
    <3>1. fd \in Fds BY <1>1, SetTimeTyped
    <3>2. /\ fd.reg = k[s].reg /\ fd.ready = k[s].ready /\ fd.conn = k[s].conn
          /\ fd.eof = k[s].eof /\ fd.room = k[s].room /\ fd.shutW = k[s].shutW /\ fd.in = 0
      BY <1>1 DEF SetTime, Fds
    <3>3. fd.in <= k[s].in
      <4> HIDE DEF fd
      <4> QED BY <1>1, <3>2, Bounds DEF Fds
    <3> HIDE DEF fd
    <3>4. Quiet(Kind[s], k[s], fd) BY <1>1, <3>1, <3>2, <3>3, QuietLess
    <3> QED BY <1>1, <2>1, <3>4, SoundQuiet DEF fd
  <2>3. \A x \in Socks : Sound(x, k'[x]) BY <1>1, <1>2, <2>1, <2>2
  <2> QED BY <1>1, <1>3, <1>4, <2>1, <2>3, WakeStepQuietly
<1>10. CASE SubmitSignal(s, op)
  <2> DEFINE fd == [ClosedFd EXCEPT !.open = TRUE, !.nb = TRUE, !.in = k[s].in]
  <2>1. /\ slot' = [slot EXCEPT ![s] = Set(slot[s], "SIGNAL", op, slot[s].data)]
        /\ "SIGNAL" \in Types /\ pc # "crashed" /\ Kind[s] = "SIGNALFD"
        /\ k' = [k EXCEPT ![s] = EpollAdd("SIGNALFD", fd)]
        /\ UNCHANGED <<batch, missed>>
    BY <1>10 DEF SubmitSignal, MayStart, InUser, Types
  <2>2. fd \in Fds /\ fd.open /\ ~fd.reg
    <3>1. k[s].in \in 0..MaxIn BY <1>1 DEF Fds
    <3>2. fd \in Fds BY <3>1, ClosedFdTyped DEF Fds
    <3> QED BY <3>2 DEF ClosedFd
  <2>3. Sound(s, EpollAdd("SIGNALFD", fd))
    <3> HIDE DEF fd
    <3> QED BY <2>1, <2>2, SoundAdd
  <2>4. \A x \in Socks : Sound(x, k'[x]) BY <1>1, <1>2, <2>1, <2>3
  <2> QED BY <1>1, <1>3, <1>4, <2>1, <2>4, WakeStepQuietly
<1> QED BY <1>5, <1>6, <1>7, <1>8, <1>9, <1>10

LEMMA FreshIsTcp == ASSUME NEW t \in Fresh PROVE t \in Socks /\ Kind[t] = "TCP"
  BY EpollAssumption

LEMMA SoundWoken ==
  ASSUME NEW s \in Socks, NEW fd, Woken(k[s], fd),
         Kind[s] = "LISTENER" => ~fd.eof /\ fd.conn = "est"
  PROVE Sound(s, fd)
<1>1. fd.ready = fd.reg /\ fd.ready \in BOOLEAN /\ fd.reg \in BOOLEAN
  BY DEF Woken, Fds
<1> QED BY <1>1 DEF Sound

LEMMA SoundKernelAfter ==
  ASSUME TypeOK, DescriptorInv, NEW s \in Socks, NEW type \in InTypes \cup OutTypes,
         NEW t \in Try(s, type),
         type = "ACCEPT" => slot[s].data \in Fresh,
         k' = KernelAfter(s, type, t)
  PROVE \A x \in Socks : Sound(x, k'[x])
<1> TAKE x \in Socks
<1>1. Sound(s, t.fd) BY TryQuiet, SoundQuiet
<1>2. Sound(x, k[x]) BY SoundSelf
<1>3. ASSUME x \in Fresh PROVE Sound(x, AcceptedFd)
  <2>1. Kind[x] = "TCP" BY <1>3, FreshIsTcp
  <2>2. ~AcceptedFd.reg /\ ~AcceptedFd.ready BY DEF AcceptedFd, ClosedFd
  <2> QED BY <2>1, <2>2 DEF Sound
<1>4. \/ x = s /\ k'[x] = t.fd
      \/ x \in Fresh /\ k'[x] = AcceptedFd
      \/ k'[x] = k[x]
  BY DEF KernelAfter
<1> QED BY <1>1, <1>2, <1>3, <1>4

LEMMA TriedWake == ASSUME WakeInv, Tried PROVE DescriptorInv' /\ NoLostWakeup'
<1> DEFINE s == await[calling].sock
           type == await[calling].type
<1>1. /\ StructInv /\ TypeOK /\ DescriptorInv /\ NoLostWakeup
      /\ k \in [Socks -> Fds] /\ slot \in [Socks -> Slots]
  BY DEF WakeInv, StructInv, TypeOK
<1>2. /\ calling \in Ops /\ s \in Socks /\ type \in InTypes \cup OutTypes
      /\ pc # "crashed" /\ slot[s].sock /\ slot[s].type = type
  BY <1>1 DEF Tried, StructInv, CallingInv, TypeOK
<1>3. /\ type = "ACCEPT" => slot[s].data \in Fresh
      /\ type = "ACCEPT" => Kind[s] = "LISTENER"
  BY <1>1, <1>2 DEF StructInv, SlotInv, Fits
<1>4. PICK t \in Try(s, type) :
        /\ k' = KernelAfter(s, type, t)
        /\ \/ /\ t.r = -EAGAIN /\ type = "WRITE"
           \/ /\ t.r = -EAGAIN /\ slot' = [slot EXCEPT ![s].rp = FALSE]
           \/ /\ slot' = [slot EXCEPT ![s] = Clear(slot[s])]
  BY DEF Tried
<1>5. t.r = -EAGAIN => type = "ACCEPT" /\ k[s].in = 0 /\ t.fd = k[s]
  BY <1>1, <1>2, TryQuiet
<1>6. \A x \in Socks : Sound(x, k'[x]) BY <1>1, <1>2, <1>3, <1>4, SoundKernelAfter
<1>7. UNCHANGED <<batch, missed>> BY DEF Tried, userVars
<1>8. CASE slot' = [slot EXCEPT ![s] = Clear(slot[s])]
  <2>1. Clear(slot[s]).rp = slot[s].rp /\ Clear(slot[s]).wp = slot[s].wp
    BY <1>1, <1>2, ClearTyped
  <2>2. \A x \in Socks : slot'[x].rp = slot[x].rp /\ slot'[x].wp = slot[x].wp
    BY <1>1, <1>8, <2>1
  <2> QED BY <1>1, <1>2, <1>6, <1>7, <2>2, WakeStepQuietly
<1>9. CASE t.r = -EAGAIN /\ slot' = [slot EXCEPT ![s].rp = FALSE]
  <2>1. k'[s] = k[s] BY <1>2, <1>4, <1>5, <1>9 DEF KernelAfter
  <2>2. "IN" \notin Mask(Kind[s], k'[s])
    BY <1>1, <1>2, <1>3, <1>5, <1>9, <2>1 DEF DescriptorInv, Mask
  <2>3. /\ slot'[s].wp = slot[s].wp
        /\ \A x \in Socks \ {s} : slot'[x] = slot[x]
    BY <1>1, <1>2, <1>9 DEF Slots
  <2>4. ASSUME NEW x \in Socks, NEW d \in {"IN", "OUT"}, Noted(x, d)
        PROVE Noted(x, d)' \/ d \notin Mask(Kind[x], k'[x])
    BY <1>7, <2>2, <2>3, <2>4 DEF Noted
  <2> QED BY <1>1, <1>2, <1>6, <2>4, WakeStep
<1> QED BY <1>4, <1>5, <1>8, <1>9

LEMMA DirectCallWake ==
  ASSUME WakeInv, DirectCall PROVE DescriptorInv' /\ NoLostWakeup'
<1>1. /\ TypeOK /\ DescriptorInv /\ NoLostWakeup
      /\ k \in [Socks -> Fds] /\ slot \in [Socks -> Slots]
  BY DEF WakeInv, StructInv, TypeOK
<1>2. \A s \in Socks : Sound(s, k[s]) BY <1>1, SoundSelf
<1>3. PICK s \in Socks :
        \/ SyncTransfer(s)
        \/ SyncConnect(s)
        \/ \E t \in Socks : SyncAccept(s, t)
        \/ \E r \in BOOLEAN, w \in BOOLEAN : Shutdown(s, r, w)
        \/ Close(s)
  BY DEF DirectCall
<1>4. pc # "crashed" /\ slot' = slot /\ batch' = batch
  BY <1>3 DEF SyncTransfer, SyncConnect, SyncAccept, Shutdown, Close, InUser
<1>5. ASSUME \A x \in Socks : Sound(x, k'[x]), missed' = missed
      PROVE DescriptorInv' /\ NoLostWakeup'
  BY <1>1, <1>4, <1>5, WakeStepQuietly
<1>6. CASE SyncTransfer(s)
  <2>1. PICK o \in RecvMsg(Kind[s], k[s]) \cup SendMsg(k[s]) : k' = [k EXCEPT ![s] = o.fd]
    BY <1>6 DEF SyncTransfer
  <2>2. Sound(s, o.fd) BY <1>1, RecvMsgQuiet, SendMsgQuiet, SoundQuiet
  <2>3. missed' = missed BY <1>6 DEF SyncTransfer, userVars
  <2>4. \A x \in Socks : Sound(x, k'[x]) BY <1>1, <1>2, <2>1, <2>2
  <2> QED BY <1>5, <2>3, <2>4
<1>7. CASE SyncConnect(s)
  <2>1. PICK o \in ConnectCall(k[s]) : k' = [k EXCEPT ![s] = o.fd]
    BY <1>7 DEF SyncConnect
  <2>2. Kind[s] = "TCP" /\ missed' = missed BY <1>7 DEF SyncConnect, userVars
  <2>3. Sound(s, o.fd) BY <1>1, <2>2, ConnectCallQuiet, SoundQuiet
  <2>4. \A x \in Socks : Sound(x, k'[x]) BY <1>1, <1>2, <2>1, <2>3
  <2> QED BY <1>5, <2>2, <2>4
<1>8. ASSUME NEW t \in Socks, SyncAccept(s, t) PROVE DescriptorInv' /\ NoLostWakeup'
  <2>1. PICK o \in AcceptCall(k[s]) :
          \/ k' = [k EXCEPT ![s] = o.fd, ![t] = EpollAdd("TCP", AcceptedFd)]
          \/ k' = [k EXCEPT ![s] = o.fd]
    BY <1>8 DEF SyncAccept
  <2>2. t \in Fresh /\ missed' = missed BY <1>8 DEF SyncAccept, FreeTarget, userVars
  <2>3. Sound(s, o.fd)
    <3>1. k[s] \in Fds BY <1>1
    <3>2. /\ Quiet(Kind[s], k[s], o.fd)
          /\ o.fd.conn = k[s].conn /\ o.fd.eof = k[s].eof
      BY <3>1, AcceptCallQuiet
    <3> QED BY <1>1, <3>2, SoundQuiet
  <2>4. Sound(t, EpollAdd("TCP", AcceptedFd))
    <3>1. AcceptedFd.open /\ ~AcceptedFd.reg BY DEF AcceptedFd, ClosedFd
    <3> QED BY <2>2, <3>1, FreshIsTcp, AcceptedFdTyped, SoundAdd
  <2>5. \A x \in Socks : Sound(x, k'[x]) BY <1>1, <1>2, <2>1, <2>3, <2>4
  <2> QED BY <1>5, <2>2, <2>5
<1>9. ASSUME NEW r \in BOOLEAN, NEW w \in BOOLEAN, Shutdown(s, r, w)
      PROVE DescriptorInv' /\ NoLostWakeup'
  <2> DEFINE fd == [k[s] EXCEPT !.eof = @ \/ r, !.shutW = @ \/ w]
  <2>1. k' = [k EXCEPT ![s] = Wake(fd)] /\ missed' = missed /\ Kind[s] = "TCP"
    BY <1>9 DEF Shutdown, userVars
  <2>2. fd \in Fds /\ fd.reg = k[s].reg BY <1>1, ZenonT(40) DEF Fds
  <2> HIDE DEF fd
  <2>3. Sound(s, Wake(fd)) BY <1>1, <2>1, <2>2, WakeWakes, SoundWoken
  <2>4. \A x \in Socks : Sound(x, k'[x]) BY <1>1, <1>2, <2>1, <2>3
  <2> QED BY <1>5, <2>1, <2>4
<1>10. CASE Close(s)
  <2>1. /\ k' = [k EXCEPT ![s] = ClosedFd]
        /\ missed' = {m \in missed : m[1] # s}
    BY <1>10 DEF Close
  <2>2. ~ClosedFd.reg /\ ~ClosedFd.ready /\ ~ClosedFd.eof /\ ClosedFd.conn = "est"
    BY DEF ClosedFd
  <2>3. \A x \in Socks : Sound(x, k'[x]) BY <1>1, <1>2, <2>1, <2>2 DEF Sound
  <2>4. ASSUME NEW x \in Socks, NEW d \in {"IN", "OUT"}, Noted(x, d)
        PROVE Noted(x, d)' \/ ~k'[x].reg
    <3>1. CASE x = s BY <1>1, <2>1, <2>2, <3>1
    <3>2. CASE x # s
      <4>1. <<x, d>> \in missed => <<x, d>> \in missed' BY <2>1, <3>2
      <4> QED BY <1>4, <2>4, <4>1 DEF Noted
    <3> QED BY <3>1, <3>2
  <2> QED BY <1>1, <1>4, <2>3, <2>4, WakeStep
<1> QED BY <1>3, <1>6, <1>7, <1>8, <1>9, <1>10

LEMMA EnvironmentWake ==
  ASSUME WakeInv, Environment PROVE DescriptorInv' /\ NoLostWakeup'
<1>1. /\ TypeOK /\ DescriptorInv /\ NoLostWakeup /\ k \in [Socks -> Fds]
  BY DEF WakeInv, StructInv, TypeOK
<1>2. PICK s \in Socks, fd \in Fds :
        /\ World(s, {fd})
        /\ Woken(k[s], fd)
        /\ k[s].conn = "est" /\ ~k[s].eof /\ Kind[s] = "LISTENER"
             => fd.conn = "est" /\ ~fd.eof
  BY <1>1, EnvironmentWakes
<1>3. Sound(s, fd) BY <1>1, <1>2, SoundWoken DEF DescriptorInv
<1>4. /\ k' = [k EXCEPT ![s] = fd] /\ pc # "crashed"
      /\ UNCHANGED <<slot, batch, missed>>
  BY <1>2 DEF World, userVars
<1>5. \A x \in Socks : Sound(x, k'[x]) BY <1>1, <1>3, <1>4, SoundSelf
<1> QED BY <1>1, <1>4, <1>5, WakeStepQuietly

LEMMA RunWake ==
  ASSUME WakeInv,
         StartRun \/ LoopTest \/ EndCallback \/ StartWait \/ UserEnd \/ Interrupted
  PROVE DescriptorInv' /\ NoLostWakeup'
<1>1. TypeOK /\ DescriptorInv /\ NoLostWakeup BY DEF WakeInv, StructInv
<1>2. pc # "crashed" /\ UNCHANGED <<k, slot, batch, missed>>
  BY DEF StartRun, LoopTest, EndCallback, StartWait, UserEnd, Interrupted, Run, Enter,
         Return, EnterWait, End, NotHere, userVars
<1>3. \A s \in Socks : Sound(s, k'[s]) BY <1>1, <1>2, SoundSelf
<1> QED BY <1>1, <1>2, <1>3, WakeStepQuietly

(* The descriptor AcceptAwait::Resume may register. *)
LEMMA StartCallbackWake ==
  ASSUME WakeInv, StartCallback PROVE DescriptorInv' /\ NoLostWakeup'
<1> DEFINE t == await[Callee(waitset[it])].target
<1>1. /\ TypeOK /\ DescriptorInv /\ NoLostWakeup /\ k \in [Socks -> Fds]
  BY DEF WakeInv, StructInv, TypeOK
<1>2. pc # "crashed" /\ UNCHANGED <<slot, batch, missed>>
  BY DEF StartCallback, Scan
<1>3. \/ k' = k
      \/ t \in Fresh /\ k' = [k EXCEPT ![t] = EpollAdd("TCP", k[t])]
  <2>1. k' = Resumed(waitset[it])
    <3>1. LoopInv /\ Scan BY DEF WakeInv, StructInv, StartCallback
    <3> QED BY <3>1, ScannedIsDue DEF StartCallback, Called
  <2>2. await[Callee(waitset[it])].type = "ACCEPT" => t \in Fresh
    BY CalleeIsOp DEF WakeInv, StartCallback
  <2> QED BY <2>1, <2>2 DEF Resumed
<1>4. ASSUME t \in Fresh PROVE Sound(t, EpollAdd("TCP", k[t]))
  <2>1. t \in Socks /\ Kind[t] = "TCP" /\ k[t] \in Fds BY <1>1, <1>4, FreshIsTcp
  <2>2. CASE k[t].open /\ ~k[t].reg BY <2>1, <2>2, SoundAdd
  <2>3. CASE ~(k[t].open /\ ~k[t].reg)
    <3>1. EpollAdd("TCP", k[t]) = k[t] BY <2>3 DEF EpollAdd
    <3> QED BY <1>1, <2>1, <3>1, SoundSelf
  <2> QED BY <2>2, <2>3
<1>5. \A s \in Socks : Sound(s, k'[s])
  <2>1. \A s \in Socks : Sound(s, k[s]) BY <1>1, SoundSelf
  <2> QED BY <1>1, <1>3, <1>4, <2>1
<1> QED BY <1>1, <1>2, <1>5, WakeStepQuietly

LEMMA HarvestWake ==
  ASSUME WakeInv, Harvest PROVE DescriptorInv' /\ NoLostWakeup'
<1>1. /\ TypeOK /\ DescriptorInv /\ NoLostWakeup /\ BatchInv /\ k \in [Socks -> Fds]
  BY DEF WakeInv, StructInv, TypeOK
<1>2. PICK S \in SUBSET Ready :
        /\ batch' = {[sock |-> s, events |-> Mask(Kind[s], k[s])] : s \in S}
        /\ k' = [s \in Socks |-> IF s \in Ready \ S THEN k[s]
                                 ELSE [k[s] EXCEPT !.ready = FALSE]]
  BY DEF Harvest
<1>3. pc = "wait" /\ batch = {} /\ UNCHANGED <<slot, missed>>
  BY <1>1 DEF Harvest, BatchInv, userVars
<1>4. ASSUME NEW s \in Socks
      PROVE /\ k'[s].reg = k[s].reg /\ k'[s].eof = k[s].eof /\ k'[s].conn = k[s].conn
            /\ k'[s].ready => k[s].ready
            /\ Mask(Kind[s], k'[s]) = Mask(Kind[s], k[s])
  <2>1. /\ k'[s].reg = k[s].reg /\ k'[s].eof = k[s].eof /\ k'[s].conn = k[s].conn
        /\ k'[s].in = k[s].in /\ k'[s].room = k[s].room /\ k'[s].shutW = k[s].shutW
        /\ k'[s].err = k[s].err
    BY <1>1, <1>2 DEF Fds
  <2>2. k'[s].ready => k[s].ready BY <1>1, <1>2 DEF Fds
  <2> QED BY <2>1, <2>2 DEF Mask
<1>5. DescriptorInv' BY <1>1, <1>4 DEF DescriptorInv
<1>6. ASSUME NEW s \in Socks, NEW d \in {"IN", "OUT"}, k[s].reg,
             Kind[s] \in {"TCP", "UDP", "LISTENER"}, d \in Mask(Kind[s], k[s])
      PROVE k'[s].ready \/ Noted(s, d)'
  <2>1. k[s].ready \/ Noted(s, d) BY <1>1, <1>3, <1>6 DEF NoLostWakeup
  <2>2. CASE Noted(s, d) BY <1>3, <2>2 DEF Noted
  <2>3. CASE k[s].ready
    <3>1. s \in Ready BY <1>6, <2>3 DEF Ready
    <3>2. CASE s \in S
      <4>1. [sock |-> s, events |-> Mask(Kind[s], k[s])] \in batch' BY <1>2, <3>2
      <4> QED BY <1>6, <4>1 DEF Noted
    <3>3. CASE s \notin S BY <1>2, <2>3, <3>1, <3>3
    <3> QED BY <3>2, <3>3
  <2> QED BY <2>1, <2>2, <2>3
<1>7. NoLostWakeup' BY <1>4, <1>6 DEF NoLostWakeup
<1> QED BY <1>5, <1>7

(* One turn of Wait's loop: what the batch knew of the socket is now in    *)
(* its flags, or was dropped.                                              *)
LEMMA ServedWake ==
  ASSUME WakeInv, NEW b \in batch, Served(b), NEW new,
         slot' = [slot EXCEPT ![b.sock] = new],
         \A s \in Socks : Sound(s, k'[s]),
         Kind[b.sock] \in {"TCP", "UDP", "LISTENER"} =>
           \/ /\ Swallowed(b)
              /\ new.rp = slot[b.sock].rp /\ new.wp = slot[b.sock].wp
           \/ /\ Recorded(b)
              /\ new.rp = (slot[b.sock].rp \/ "IN" \in b.events)
              /\ new.wp = (slot[b.sock].wp \/ "OUT" \in b.events),
         Swallowed(b) \/ Recorded(b)
  PROVE DescriptorInv' /\ NoLostWakeup'
<1>1. /\ NoLostWakeup /\ b.sock \in Socks /\ slot \in [Socks -> Slots]
  BY SlotOfBatch DEF WakeInv
<1>2. pc # "crashed" /\ batch' = batch \ {b} BY DEF Served
<1>3. ASSUME NEW s \in Socks, NEW d \in {"IN", "OUT"}, Noted(s, d),
             Kind[s] \in {"TCP", "UDP", "LISTENER"}
      PROVE Noted(s, d)'
  <2>1. CASE s # b.sock
    <3>1. slot'[s] = slot[s] BY <1>1, <2>1
    <3>2. <<s, d>> \in missed => <<s, d>> \in missed'
      BY <2>1 DEF Swallowed, Recorded
    <3>3. \A c \in batch : c.sock = s => c \in batch' BY <1>2, <2>1
    <3> QED BY <1>3, <3>1, <3>2, <3>3 DEF Noted
  <2>2. CASE s = b.sock
    <3>1. slot'[s] = new BY <1>1, <2>2
    <3>2. CASE Swallowed(b) /\ new.rp = slot[s].rp /\ new.wp = slot[s].wp
      <4>1. <<s, d>> \in missed => <<s, d>> \in missed' BY <3>2 DEF Swallowed
      <4>2. d \in b.events => <<s, d>> \in missed' BY <2>2, <3>2 DEF Swallowed
      <4> QED BY <1>2, <1>3, <3>1, <3>2, <4>1, <4>2 DEF Noted
    <3>3. CASE /\ Recorded(b)
               /\ new.rp = (slot[s].rp \/ "IN" \in b.events)
               /\ new.wp = (slot[s].wp \/ "OUT" \in b.events)
      <4>1. <<s, d>> \in missed => <<s, d>> \in missed' \/ d \in b.events
        BY <3>3 DEF Recorded
      <4>2. d \in b.events => Noted(s, d)' BY <3>1, <3>3 DEF Noted
      <4> QED BY <1>2, <1>3, <3>1, <3>3, <4>1, <4>2 DEF Noted
    <3> QED BY <1>3, <2>2, <3>2, <3>3
  <2> QED BY <2>1, <2>2
<1> QED BY <1>1, <1>2, <1>3, WakeStep DEF WakeInv

LEMMA DispatchFailedWake ==
  ASSUME WakeInv, NEW b \in batch, DispatchError(b) \/ DispatchHangup(b)
  PROVE DescriptorInv' /\ NoLostWakeup'
<1>1. /\ StructInv /\ TypeOK /\ DescriptorInv /\ NoLostWakeup
      /\ b.sock \in Socks /\ slot[b.sock] \in Slots /\ slot[b.sock].ev \in Events
      /\ slot \in [Socks -> Slots]
  BY SlotOfBatch DEF WakeInv, StructInv
<1>2. Served(b) /\ Swallowed(b) /\ k' = k BY DEF DispatchError, DispatchHangup
<1>3. \A s \in Socks : Sound(s, k'[s]) BY <1>1, <1>2, SoundSelf, SMTT(40)
<1>4. \E ev : \/ slot' = [slot EXCEPT ![b.sock] = [Clear(slot[b.sock]) EXCEPT !.ev = ev]]
              \/ slot' = slot
  BY DEF DispatchError, DispatchHangup
<1>5. \E new : /\ slot' = [slot EXCEPT ![b.sock] = new]
               /\ new.rp = slot[b.sock].rp /\ new.wp = slot[b.sock].wp
  <2>1. PICK ev : \/ slot' = [slot EXCEPT ![b.sock] = [Clear(slot[b.sock]) EXCEPT !.ev = ev]]
                  \/ slot' = slot
    BY <1>4
  <2>2. CASE slot' = slot
    <3>1. slot' = [slot EXCEPT ![b.sock] = slot[b.sock]] BY <1>1, <2>2
    <3> QED BY <3>1
  <2>3. CASE slot' = [slot EXCEPT ![b.sock] = [Clear(slot[b.sock]) EXCEPT !.ev = ev]]
    <3> DEFINE new == [Clear(slot[b.sock]) EXCEPT !.ev = ev]
    <3>1. new.rp = slot[b.sock].rp /\ new.wp = slot[b.sock].wp
      BY <1>1 DEF Clear, Slots
    <3>2. slot' = [slot EXCEPT ![b.sock] = new] BY <2>3
    <3> HIDE DEF new
    <3> QED BY <3>1, <3>2
  <2> QED BY <2>1, <2>2, <2>3
<1>6. PICK new : /\ slot' = [slot EXCEPT ![b.sock] = new]
                 /\ new.rp = slot[b.sock].rp /\ new.wp = slot[b.sock].wp
  BY <1>5
<1> QED BY <1>2, <1>3, <1>6, ServedWake

(* The branches of EPOLLIN and EPOLLOUT: what they make of slot and kernel.*)
LEMMA EdgeWake ==
  ASSUME WakeInv, NEW b \in batch, Edge(b), NEW new,
         slot' = [slot EXCEPT ![b.sock] = new],
         \A s \in Socks : Sound(s, k'[s]),
         Kind[b.sock] \in {"TCP", "UDP", "LISTENER"} =>
           /\ new.rp = (slot[b.sock].rp \/ "IN" \in b.events)
           /\ new.wp = (slot[b.sock].wp \/ "OUT" \in b.events)
  PROVE DescriptorInv' /\ NoLostWakeup'
  BY ServedWake DEF Edge

LEMMA DispatchIdleWake ==
  ASSUME WakeInv, NEW b \in batch, DispatchIdle(b)
  PROVE DescriptorInv' /\ NoLostWakeup'
<1> DEFINE new == Flagged(b)
<1>1. StructInv /\ TypeOK /\ DescriptorInv BY DEF WakeInv, StructInv
<1>2. /\ new.rp = (slot[b.sock].rp \/ "IN" \in b.events)
      /\ new.wp = (slot[b.sock].wp \/ "OUT" \in b.events)
  BY <1>1, FlaggedTyped
<1>3. Edge(b) /\ slot' = [slot EXCEPT ![b.sock] = new] /\ k' = k BY DEF DispatchIdle
<1>4. \A s \in Socks : Sound(s, k'[s]) BY <1>1, <1>3, SoundSelf
<1> HIDE DEF new
<1> QED BY <1>2, <1>3, <1>4, EdgeWake

(* A transfer that Wait tries is over: only accept() may report that it    *)
(* would block, and Wait takes that for an error.                          *)
LEMMA TransferCompletes ==
  ASSUME StructInv, NEW b \in batch, DispatchTransfer(b)
  PROVE \E t \in Try(b.sock, slot[b.sock].type) :
          /\ k' = KernelAfter(b.sock, slot[b.sock].type, t)
          /\ t.r \in Int
          /\ Completed(b, Outcome(slot[b.sock].ev, t.r), Flagged(b))
<1>1. TypeOK /\ b.sock \in Socks /\ slot[b.sock].type \in InTypes \cup OutTypes
  BY SlotOfBatch DEF StructInv, DispatchTransfer
<1>2. PICK t \in Try(b.sock, slot[b.sock].type) :
        /\ k' = KernelAfter(b.sock, slot[b.sock].type, t)
        /\ \/ t.r = -EAGAIN /\ slot[b.sock].type \in OutTypes
           \/ Completed(b, Outcome(slot[b.sock].ev, t.r), Flagged(b))
  BY DEF DispatchTransfer
<1>3. t.r \in Int /\ (t.r = -EAGAIN => slot[b.sock].type = "ACCEPT")
  BY <1>1, TryTyped
<1> QED BY <1>2, <1>3 DEF OutTypes

(* A slot that Wait completed keeps the flags it was given. *)
LEMMA CompletedSlot ==
  ASSUME NEW sl \in Slots, NEW ev \in Events, NEW b, Completed(b, ev, sl)
  PROVE \E new \in Slots :
          /\ slot' = [slot EXCEPT ![b.sock] = new]
          /\ new.type = "NOOP" /\ new.rp = sl.rp /\ new.wp = sl.wp
          /\ new.sock = sl.sock /\ new.ev = ev
<1> DEFINE new == [Clear(sl) EXCEPT !.ev = ev]
<1>1. /\ new \in Slots /\ new.type = "NOOP" /\ new.rp = sl.rp /\ new.wp = sl.wp
      /\ new.sock = sl.sock /\ new.ev = ev
  BY CompletedTyped
<1>2. slot' = [slot EXCEPT ![b.sock] = new] BY DEF Completed
<1> HIDE DEF new
<1> QED BY <1>1, <1>2

LEMMA DispatchTransferWake ==
  ASSUME WakeInv, NEW b \in batch, DispatchTransfer(b)
  PROVE DescriptorInv' /\ NoLostWakeup'
<1>1. /\ StructInv /\ TypeOK /\ DescriptorInv /\ b.sock \in Socks
      /\ slot[b.sock].ev \in Events
  BY SlotOfBatch DEF WakeInv, StructInv
<1>2. PICK t \in Try(b.sock, slot[b.sock].type) :
        /\ k' = KernelAfter(b.sock, slot[b.sock].type, t)
        /\ t.r \in Int
        /\ Completed(b, Outcome(slot[b.sock].ev, t.r), Flagged(b))
  BY <1>1, TransferCompletes
<1>3. Outcome(slot[b.sock].ev, t.r) \in Events BY <1>1, <1>2, OutcomeTyped
<1>4. /\ Flagged(b) \in Slots
      /\ Flagged(b).rp = (slot[b.sock].rp \/ "IN" \in b.events)
      /\ Flagged(b).wp = (slot[b.sock].wp \/ "OUT" \in b.events)
  BY <1>1, FlaggedTyped
<1>5. PICK new \in Slots :
        /\ slot' = [slot EXCEPT ![b.sock] = new]
        /\ new.rp = Flagged(b).rp /\ new.wp = Flagged(b).wp
  BY <1>2, <1>3, <1>4, CompletedSlot
<1>6. /\ Edge(b) /\ slot[b.sock].type \in InTypes \cup OutTypes
      /\ slot[b.sock].sock
  BY DEF DispatchTransfer, Edge, Served
<1>7. slot[b.sock].type = "ACCEPT" => slot[b.sock].data \in Fresh
  BY <1>1, <1>6 DEF StructInv, SlotInv
<1>8. \A s \in Socks : Sound(s, k'[s])
  BY <1>1, <1>2, <1>6, <1>7, SoundKernelAfter
<1> QED BY <1>4, <1>5, <1>6, <1>8, EdgeWake

LEMMA DispatchConnectWake ==
  ASSUME WakeInv, NEW b \in batch, DispatchConnect(b)
  PROVE DescriptorInv' /\ NoLostWakeup'
<1> DEFINE ev == [slot[b.sock].ev EXCEPT !.status = "COMPLETED"]
<1>1. /\ StructInv /\ TypeOK /\ DescriptorInv /\ b.sock \in Socks
      /\ slot[b.sock].ev \in Events
  BY SlotOfBatch DEF WakeInv, StructInv
<1>2. Completed(b, ev, Flagged(b)) /\ Edge(b) /\ k' = k BY DEF DispatchConnect
<1>3. ev \in Events BY <1>1 DEF Events, Statuses
<1>4. /\ Flagged(b) \in Slots
      /\ Flagged(b).rp = (slot[b.sock].rp \/ "IN" \in b.events)
      /\ Flagged(b).wp = (slot[b.sock].wp \/ "OUT" \in b.events)
  BY <1>1, FlaggedTyped
<1> HIDE DEF ev
<1>5. PICK new \in Slots :
        /\ slot' = [slot EXCEPT ![b.sock] = new]
        /\ new.rp = Flagged(b).rp /\ new.wp = Flagged(b).wp
  BY <1>2, <1>3, <1>4, CompletedSlot
<1>6. \A s \in Socks : Sound(s, k'[s]) BY <1>1, <1>2, SoundSelf
<1> QED BY <1>2, <1>4, <1>5, <1>6, EdgeWake

(* Timers and signals are not transfers: resetting rp loses nothing. *)
LEMMA DispatchOtherWake ==
  ASSUME WakeInv, NEW b \in batch, DispatchTimer(b) \/ DispatchSignal(b)
  PROVE DescriptorInv' /\ NoLostWakeup'
<1>1. /\ StructInv /\ TypeOK /\ DescriptorInv /\ b.sock \in Socks
      /\ k \in [Socks -> Fds]
  BY SlotOfBatch DEF WakeInv, StructInv
<1>2. Edge(b) /\ Kind[b.sock] \in {"TIMER", "SIGNALFD"}
  BY <1>1 DEF DispatchTimer, DispatchSignal, Edge, Served, StructInv, SlotInv, Fits
<1>3. \E new : slot' = [slot EXCEPT ![b.sock] = new]
  BY DEF DispatchTimer, DispatchSignal, Completed
<1>4. k' = k \/ k' = [k EXCEPT ![b.sock] = EpollDel(k[b.sock])]
  BY DEF DispatchTimer, DispatchSignal
<1>5. Sound(b.sock, EpollDel(k[b.sock]))
  <2>1. ~EpollDel(k[b.sock]).reg /\ ~EpollDel(k[b.sock]).ready
    BY <1>1 DEF EpollDel, Fds
  <2> QED BY <1>2, <2>1 DEF Sound
<1>6. \A s \in Socks : Sound(s, k'[s])
  <2>1. \A s \in Socks : Sound(s, k[s]) BY <1>1, SoundSelf
  <2> QED BY <1>1, <1>4, <1>5, <2>1
<1> QED BY <1>2, <1>3, <1>6, EdgeWake

LEMMA DispatchWake == ASSUME WakeInv, Dispatch PROVE DescriptorInv' /\ NoLostWakeup'
<1>1. PICK b \in batch :
        \/ DispatchNull(b) \/ DispatchError(b) \/ DispatchHangup(b) \/ DispatchIdle(b)
        \/ DispatchTransfer(b) \/ DispatchConnect(b) \/ DispatchTimer(b)
        \/ DispatchSignal(b)
  BY DEF Dispatch
<1>2. CASE DispatchNull(b)
  <2>1. k' = k /\ pc' = "crashed" BY <1>2 DEF DispatchNull
  <2> QED BY <2>1 DEF WakeInv, DescriptorInv, NoLostWakeup
<1> QED BY <1>1, <1>2, DispatchFailedWake, DispatchIdleWake, DispatchTransferWake,
           DispatchConnectWake, DispatchOtherWake

LEMMA InitWake == Init => WakeInv
<1> SUFFICES ASSUME Init PROVE WakeInv
  OBVIOUS
<1>1. StructInv BY InitStruct
<1>2. ASSUME NEW s \in Socks
      PROVE /\ k[s].ready => k[s].reg
            /\ Kind[s] = "LISTENER" => ~k[s].eof /\ k[s].conn = "est"
            /\ k[s].reg /\ Mask(Kind[s], k[s]) \cap {"IN", "OUT"} # {} => k[s].ready
  <2> DEFINE c == IF Kind[s] = "TCP" THEN "idle" ELSE "est"
             r == Kind[s] \in {"TCP", "UDP"}
             fd == [ClosedFd EXCEPT !.open = TRUE, !.nb = TRUE, !.conn = c, !.room = r]
             b == Mask(Kind[s], fd) # {}
             new == [fd EXCEPT !.reg = TRUE, !.ready = b]
  <2>1. /\ fd.open /\ ~fd.reg /\ ~fd.eof /\ fd.conn = c /\ fd.in = 0 /\ fd.room = r
        /\ ~fd.shutW /\ ~fd.err
    BY SMTT(40) DEF ClosedFd
  <2>2. k[s] = ClosedFd \/ k[s] = new
    BY <2>1 DEF Init, NewFd, EpollAdd
  <2>3. CASE k[s] = ClosedFd BY <2>3 DEF ClosedFd
  <2>4. CASE k[s] = new
    <3>1. /\ new.reg /\ new.ready = b /\ new.eof = fd.eof /\ new.conn = fd.conn
          /\ new.in = fd.in /\ new.room = fd.room /\ new.shutW = fd.shutW
          /\ new.err = fd.err
      BY DEF ClosedFd
    <3>2. Mask(Kind[s], new) = Mask(Kind[s], fd)
      <4> HIDE DEF fd, new, b
      <4> QED BY <3>1 DEF Mask
    <3>3. Kind[s] = "LISTENER" => ~fd.eof /\ fd.conn = "est" BY <2>1
    <3> HIDE DEF fd, new
    <3> QED BY <2>4, <3>1, <3>2, <3>3
  <2> QED BY <2>2, <2>3, <2>4
<1>3. DescriptorInv BY <1>2 DEF DescriptorInv
<1>4. NoLostWakeup BY <1>2 DEF NoLostWakeup
<1> QED BY <1>1, <1>3, <1>4 DEF WakeInv

LEMMA NextWake == WakeInv /\ [Next]_vars => WakeInv'
<1> SUFFICES ASSUME WakeInv, [Next]_vars PROVE WakeInv'
  OBVIOUS
<1>1. StructInv' BY NextStruct DEF WakeInv
<1>2. DescriptorInv' /\ NoLostWakeup'
  <2>1. CASE UNCHANGED vars
    BY <2>1 DEF vars, WakeInv, DescriptorInv, NoLostWakeup, Noted
  <2> QED BY <2>1, SubmitWake, DirectCallWake, EnvironmentWake, RunWake,
             StartCallbackWake, HarvestWake, TriedWake, DispatchWake
          DEF Next, LoopStep
<1> QED BY <1>1, <1>2 DEF WakeInv

LEMMA WakeInvariant == Spec => []WakeInv
  BY InitWake, NextWake, PTL DEF Spec

(* The edge-triggered protocol loses no wake-up, for every set of sockets, *)
(* every program and every network, except the edges that the EPOLLERR and *)
(* EPOLLHUP branches of Wait drop (epollimpl.h:171-186).                   *)
THEOREM WakeupsAreKept == Spec => []NoLostWakeup
<1>1. WakeInv => NoLostWakeup BY DEF WakeInv
<1> QED BY <1>1, WakeInvariant, PTL

-----------------------------------------------------------------------------
(* What a step may do to a slot: the flags of a transfer only ever get     *)
(* set, no operation is left to wait for a flag that is set, and a slot    *)
(* that refers to its socket keeps doing so.  The safety of careful        *)
(* programs follows, and with it the whole of Inv.                         *)

(* The operation in the slot of s, unless its Submit call is under way,    *)
(* does not wait for a flag that is set.                                   *)
Heeds(s) ==
  (slot[s].sock /\ calling # slot[s].ev.cb) =>
    /\ slot[s].type \in InTypes => ~slot[s].rp
    /\ slot[s].type \in OutTypes => ~slot[s].wp

Evolves(s) ==
  /\ slot[s].sock => slot'[s].sock
  /\ Kind[s] \in {"TCP", "UDP"} =>
       (slot[s].rp => slot'[s].rp) /\ (slot[s].wp => slot'[s].wp)
  /\ Heeds(s) => Heeds(s)'

LEMMA EvolvesUnchanged ==
  ASSUME NEW s \in Socks, slot'[s] = slot[s],
         slot[s].sock => calling' = calling \/ calling # slot[s].ev.cb
  PROVE Evolves(s)
  BY DEF Evolves, Heeds

(* Set(), with the flag of the direction found set only by a call that     *)
(* goes on to try the transfer.                                            *)
LEMMA EvolvesSet ==
  ASSUME StructInv, NEW s \in Socks, NEW type \in Types, NEW op \in Ops,
         NEW data \in Socks \cup {NoSock},
         slot' = [slot EXCEPT ![s] = Set(slot[s], type, op, data)],
         calling = NoOp,
         \/ calling' = op
         \/ /\ calling' = NoOp
            /\ type \in InTypes => ~slot[s].rp
            /\ type \in OutTypes => ~slot[s].wp
  PROVE \A x \in Socks : Evolves(x)
<1>1. slot \in [Socks -> Slots] BY DEF StructInv, TypeOK
<1>2. /\ slot'[s].sock /\ slot'[s].type = type /\ slot'[s].ev.cb = op
      /\ slot'[s].rp = slot[s].rp /\ slot'[s].wp = slot[s].wp
  BY <1>1, SetTyped
<1>3. Evolves(s) BY <1>2 DEF Evolves, Heeds
<1>4. ASSUME NEW x \in Socks, x # s PROVE Evolves(x)
  <2>1. slot'[x] = slot[x] BY <1>1, <1>4
  <2>2. slot[x].sock => calling # slot[x].ev.cb
    BY NoOpAssumption DEF StructInv, SlotInv
  <2> QED BY <2>1, <2>2, EvolvesUnchanged
<1> QED BY <1>3, <1>4

(* Clear(), whatever else is stored, ends the wait. *)
LEMMA EvolvesCleared ==
  ASSUME StructInv, NEW s \in Socks, NEW new,
         slot' = [slot EXCEPT ![s] = new],
         new.type = "NOOP", new.sock = slot[s].sock,
         Kind[s] \in {"TCP", "UDP"} =>
           (slot[s].rp => new.rp) /\ (slot[s].wp => new.wp),
         \A x \in Socks : slot[x].sock /\ x # s =>
           calling' = calling \/ calling # slot[x].ev.cb
  PROVE \A x \in Socks : Evolves(x)
<1>1. slot \in [Socks -> Slots] BY DEF StructInv, TypeOK
<1>2. slot'[s] = new BY <1>1
<1>3. Evolves(s) BY <1>2 DEF Evolves, Heeds, InTypes, OutTypes
<1>4. ASSUME NEW x \in Socks, x # s PROVE Evolves(x)
  <2>1. slot'[x] = slot[x] BY <1>1, <1>4
  <2> QED BY <1>4, <2>1, EvolvesUnchanged
<1> QED BY <1>3, <1>4

LEMMA SubmitEvolves ==
  ASSUME StructInv, NEW op \in Ops, Submit(op) PROVE \A x \in Socks : Evolves(x)
<1>1. slot \in [Socks -> Slots] /\ \A s \in Socks : slot[s].data \in Socks \cup {NoSock}
  BY DEF StructInv, TypeOK, Slots
<1>2. PICK s \in Socks :
        \/ \E type \in {"READ", "WRITE", "RECVFROM", "SENDTO"} : SubmitTransfer(s, type, op)
        \/ \E t \in Socks : SubmitAccept(s, t, op)
        \/ SubmitConnect(s, op)
        \/ \E zero \in BOOLEAN : SubmitTimer(s, zero, op)
        \/ SubmitSignal(s, op)
  BY DEF Submit
<1>3. ASSUME NEW type \in {"READ", "WRITE", "RECVFROM", "SENDTO"}, SubmitTransfer(s, type, op)
      PROVE \A x \in Socks : Evolves(x)
  <2>1. /\ slot' = [slot EXCEPT ![s] = Set(slot[s], type, op, slot[s].data)]
        /\ type \in Types /\ calling = NoOp
    BY <1>3 DEF SubmitTransfer, MayStart, InUser, Types, InTypes, OutTypes
  <2>2. \/ calling' = op
        \/ /\ calling' = NoOp
           /\ type \in InTypes => ~slot[s].rp
           /\ type \in OutTypes => ~slot[s].wp
    BY <1>3 DEF SubmitTransfer
  <2> QED BY <1>1, <2>1, <2>2, EvolvesSet
<1>4. ASSUME NEW t \in Socks, SubmitAccept(s, t, op)
      PROVE \A x \in Socks : Evolves(x)
  <2>1. /\ slot' = [slot EXCEPT ![s] = Set(slot[s], "ACCEPT", op, t)]
        /\ "ACCEPT" \in Types /\ "ACCEPT" \notin OutTypes /\ calling = NoOp
    BY <1>4 DEF SubmitAccept, MayStart, InUser, Types, InTypes, OutTypes
  <2>2. calling' = op \/ (calling' = NoOp /\ ~slot[s].rp)
    BY <1>4 DEF SubmitAccept
  <2> QED BY <1>1, <2>1, <2>2, EvolvesSet
<1>5. ASSUME NEW type \in {"CONNECT", "TIMETICK", "SIGNAL"},
             slot' = [slot EXCEPT ![s] = Set(slot[s], type, op, slot[s].data)],
             calling = NoOp, calling' = NoOp
      PROVE \A x \in Socks : Evolves(x)
  <2>1. type \in Types /\ type \notin InTypes /\ type \notin OutTypes
    BY DEF Types, InTypes, OutTypes
  <2> QED BY <1>1, <1>5, <2>1, EvolvesSet
<1>6. CASE SubmitConnect(s, op)
  <2>1. /\ \/ slot' = [slot EXCEPT ![s] = Set(slot[s], "CONNECT", op, slot[s].data)]
           \/ slot' = [slot EXCEPT ![s] = Clear(slot[s])]
        /\ calling = NoOp /\ calling' = NoOp
    BY <1>6 DEF SubmitConnect, MayStart, InUser
  <2>2. CASE slot' = [slot EXCEPT ![s] = Clear(slot[s])]
    <3>1. /\ Clear(slot[s]).type = "NOOP" /\ Clear(slot[s]).sock = slot[s].sock
          /\ Clear(slot[s]).rp = slot[s].rp /\ Clear(slot[s]).wp = slot[s].wp
      BY <1>1, ClearTyped
    <3> QED BY <2>1, <2>2, <3>1, EvolvesCleared
  <2> QED BY <1>5, <2>1, <2>2
<1>7. ASSUME NEW zero \in BOOLEAN, SubmitTimer(s, zero, op)
      PROVE \A x \in Socks : Evolves(x)
  BY <1>5, <1>7 DEF SubmitTimer, MayStart, InUser
<1>8. CASE SubmitSignal(s, op)
  BY <1>5, <1>8 DEF SubmitSignal, MayStart, InUser
<1> QED BY <1>2, <1>3, <1>4, <1>6, <1>7, <1>8

LEMMA TriedEvolves ==
  ASSUME StructInv, Tried PROVE \A x \in Socks : Evolves(x)
<1> DEFINE type == await[calling].type
<1>0. PICK s \in Socks : s = await[calling].sock
  BY DEF Tried, StructInv, CallingInv
<1>1. TypeOK /\ slot \in [Socks -> Slots] BY DEF StructInv, TypeOK
<1>2. /\ calling \in Ops /\ type \in InTypes \cup OutTypes
      /\ slot[s].sock /\ slot[s].type = type
  BY <1>0, <1>1 DEF Tried, StructInv, CallingInv, TypeOK
<1>3. \A x \in Socks : slot[x].sock /\ x # s => calling # slot[x].ev.cb
  BY <1>0 DEF StructInv, SlotInv
<1>4. PICK t \in Try(s, type) :
        \/ t.r = -EAGAIN /\ type = "WRITE"
        \/ t.r = -EAGAIN /\ slot' = [slot EXCEPT ![s].rp = FALSE]
        \/ slot' = [slot EXCEPT ![s] = Clear(slot[s])]
  BY <1>0 DEF Tried
<1>5. t.r = -EAGAIN => type = "ACCEPT" BY <1>1, <1>2, TryTyped
<1>6. CASE slot' = [slot EXCEPT ![s] = Clear(slot[s])]
  <2>1. /\ Clear(slot[s]).type = "NOOP" /\ Clear(slot[s]).sock = slot[s].sock
        /\ Clear(slot[s]).rp = slot[s].rp /\ Clear(slot[s]).wp = slot[s].wp
    BY <1>1, <1>2, ClearTyped
  <2> QED BY <1>2, <1>3, <1>6, <2>1, EvolvesCleared
<1>7. CASE t.r = -EAGAIN /\ slot' = [slot EXCEPT ![s].rp = FALSE]
  <2>1. /\ slot'[s].sock = slot[s].sock /\ slot'[s].type = "ACCEPT" /\ ~slot'[s].rp
        /\ \A x \in Socks \ {s} : slot'[x] = slot[x]
    BY <1>1, <1>2, <1>5, <1>7 DEF Slots
  <2>2. Kind[s] = "LISTENER" BY <1>2, <1>5, <1>7 DEF StructInv, SlotInv, Fits
  <2>3. Evolves(s) BY <2>1, <2>2 DEF Evolves, Heeds, OutTypes
  <2>4. \A x \in Socks \ {s} : Evolves(x) BY <1>3, <2>1, EvolvesUnchanged
  <2> QED BY <2>3, <2>4
<1> QED BY <1>4, <1>5, <1>6, <1>7

LEMMA DispatchEvolves ==
  ASSUME StructInv, NEW b \in batch,
         \/ DispatchError(b) \/ DispatchHangup(b) \/ DispatchIdle(b) \/ DispatchTransfer(b)
         \/ DispatchConnect(b) \/ DispatchTimer(b) \/ DispatchSignal(b)
  PROVE \A x \in Socks : Evolves(x)
<1>1. /\ TypeOK /\ b.sock \in Socks /\ slot \in [Socks -> Slots]
      /\ slot[b.sock] \in Slots /\ slot[b.sock].ev \in Events
  BY SlotOfBatch, SMTT(40) DEF StructInv
<1>2. Served(b) /\ slot[b.sock].sock /\ calling' = calling
  BY DEF DispatchError, DispatchHangup, DispatchIdle, DispatchTransfer, DispatchConnect,
         DispatchTimer, DispatchSignal, Edge, Served
<1>3. /\ Flagged(b) \in Slots /\ Flagged(b).sock = slot[b.sock].sock
      /\ Flagged(b).type = slot[b.sock].type /\ Flagged(b).ev = slot[b.sock].ev
      /\ Flagged(b).rp = (slot[b.sock].rp \/ "IN" \in b.events)
      /\ Flagged(b).wp = (slot[b.sock].wp \/ "OUT" \in b.events)
  BY FlaggedTyped
<1>4. ASSUME NEW sl \in Slots, NEW ev, sl.sock = slot[b.sock].sock,
             Kind[b.sock] \in {"TCP", "UDP"} =>
               (slot[b.sock].rp => sl.rp) /\ (slot[b.sock].wp => sl.wp),
             slot' = [slot EXCEPT ![b.sock] = [Clear(sl) EXCEPT !.ev = ev]]
      PROVE \A x \in Socks : Evolves(x)
  <2> DEFINE new == [Clear(sl) EXCEPT !.ev = ev]
  <2>1. /\ new.type = "NOOP" /\ new.sock = sl.sock /\ new.rp = sl.rp /\ new.wp = sl.wp
    BY DEF Clear, Slots
  <2>2. slot' = [slot EXCEPT ![b.sock] = new] BY <1>4
  <2> HIDE DEF new
  <2> QED BY <1>1, <1>2, <1>4, <2>1, <2>2, EvolvesCleared
<1>5. ASSUME slot' = slot PROVE \A x \in Socks : Evolves(x)
  BY <1>2, <1>5, EvolvesUnchanged
<1>6. CASE DispatchError(b)
  BY <1>1, <1>4, <1>6 DEF DispatchError
<1>7. CASE DispatchHangup(b)
  BY <1>1, <1>4, <1>5, <1>7 DEF DispatchHangup
<1>8. CASE DispatchIdle(b)
  <2>1. slot' = [slot EXCEPT ![b.sock] = Flagged(b)] /\ ~Awaited(b) BY <1>8 DEF DispatchIdle
  <2>2. slot'[b.sock] = Flagged(b) BY <1>1, <2>1
  <2>3. /\ slot[b.sock].type \in InTypes => "IN" \notin b.events
        /\ slot[b.sock].type \in OutTypes => "OUT" \notin b.events
    BY <2>1 DEF Awaited
  <2>4. Evolves(b.sock) BY <1>2, <1>3, <2>2, <2>3 DEF Evolves, Heeds
  <2>5. ASSUME NEW x \in Socks, x # b.sock PROVE Evolves(x)
    <3>1. slot'[x] = slot[x] BY <1>1, <2>1, <2>5
    <3> QED BY <1>2, <3>1, EvolvesUnchanged
  <2> QED BY <2>4, <2>5
<1>9. CASE DispatchTransfer(b)
  <2>1. \E ev : Completed(b, ev, Flagged(b)) BY <1>9, TransferCompletes
  <2> QED BY <1>3, <1>4, <2>1 DEF Completed
<1>10. CASE DispatchConnect(b)
  BY <1>3, <1>4, <1>10 DEF DispatchConnect, Completed
<1>11. CASE DispatchTimer(b) \/ DispatchSignal(b)
  <2> DEFINE nr == [Flagged(b) EXCEPT !.rp = FALSE]
  <2>1. \E ev : slot' = [slot EXCEPT ![b.sock] = [Clear(nr) EXCEPT !.ev = ev]]
    BY <1>11 DEF DispatchTimer, DispatchSignal, Completed
  <2>2. nr \in Slots /\ nr.sock = slot[b.sock].sock BY <1>3 DEF Slots
  <2>3. Kind[b.sock] \in {"TIMER", "SIGNALFD"}
    BY <1>1, <1>2, <1>11 DEF DispatchTimer, DispatchSignal, StructInv, SlotInv, Fits
  <2> HIDE DEF nr
  <2> QED BY <1>4, <2>1, <2>2, <2>3
<1> QED BY <1>6, <1>7, <1>8, <1>9, <1>10, <1>11

LEMMA NextEvolves ==
  ASSUME StructInv, Next PROVE \A x \in Socks : Evolves(x)
<1>1. ASSUME slot' = slot, calling' = calling PROVE \A x \in Socks : Evolves(x)
  BY <1>1, EvolvesUnchanged, SMTT(40)
<1>2. CASE DirectCall \/ Environment
  BY <1>1, <1>2 DEF DirectCall, SyncTransfer, SyncConnect, SyncAccept, Shutdown, Close,
     Environment, Tick, World
<1>3. CASE StartRun \/ EndCallback \/ UserEnd \/ Interrupted \/ LoopTest \/ StartWait
  BY <1>1, <1>3 DEF StartRun, EndCallback, UserEnd, Interrupted, LoopTest, StartWait, NotHere
<1>4. CASE StartCallback \/ Harvest
  BY <1>1, <1>4 DEF StartCallback, Harvest
<1>5. CASE Dispatch
  <2>1. PICK b \in batch :
          \/ DispatchNull(b) \/ DispatchError(b) \/ DispatchHangup(b) \/ DispatchIdle(b)
          \/ DispatchTransfer(b) \/ DispatchConnect(b) \/ DispatchTimer(b)
          \/ DispatchSignal(b)
    BY <1>5 DEF Dispatch
  <2>2. CASE DispatchNull(b) BY <1>1, <2>2, SMTT(40) DEF DispatchNull
  <2> QED BY <2>1, <2>2, DispatchEvolves
<1> QED BY <1>2, <1>3, <1>4, <1>5, SubmitEvolves, TriedEvolves DEF Next, LoopStep

-----------------------------------------------------------------------------
(* Careful programs.                                                       *)

LEMMA StartedIssued ==
  ASSUME StructInv, NEW op \in Ops, NEW s \in Socks, NEW type, NEW target,
         Started(op, type, s, target)
  PROVE  /\ Issued(op)' /\ await'[op] = [type |-> type, sock |-> s, target |-> target]
         /\ \A q \in Ops : q # op => await'[q] = await[q] /\ (Issued(q)' <=> Issued(q))
<1>1. await'[op] = [type |-> type, sock |-> s, target |-> target]
  BY DEF Started, StructInv, TypeOK
<1>2. await'[op].sock = s /\ s # NoSock BY <1>1, EpollAssumption
<1>3. \A q \in Ops : q # op => await'[q] = await[q] BY DEF Started, StructInv, TypeOK
<1> QED BY <1>1, <1>2, <1>3 DEF Issued, Unissued

(* A Submit call stores the socket in its slot, or is a connect. *)
LEMMA SubmitGives ==
  ASSUME StructInv, NEW op \in Ops, Submit(op)
  PROVE  /\ \A q \in Ops : q # op => await'[q] = await[q] /\ (Issued(q)' <=> Issued(q))
         /\ await'[op].type # "CONNECT" => slot'[await'[op].sock].sock
<1>1. slot \in [Socks -> Slots] BY DEF StructInv, TypeOK
<1>2. PICK s \in Socks :
        \/ \E type \in {"READ", "WRITE", "RECVFROM", "SENDTO"} : SubmitTransfer(s, type, op)
        \/ \E t \in Socks : SubmitAccept(s, t, op)
        \/ SubmitConnect(s, op)
        \/ \E zero \in BOOLEAN : SubmitTimer(s, zero, op)
        \/ SubmitSignal(s, op)
  BY DEF Submit
<1>3. \E type, target : /\ Started(op, type, s, target)
                        /\ \/ type = "CONNECT"
                           \/ \E data : slot' = [slot EXCEPT ![s] = Set(slot[s], type, op, data)]
  BY <1>2 DEF SubmitTransfer, SubmitAccept, SubmitConnect, SubmitTimer, SubmitSignal
<1>4. PICK type, target : /\ Started(op, type, s, target)
                          /\ \/ type = "CONNECT"
                             \/ \E data :
                                  slot' = [slot EXCEPT ![s] = Set(slot[s], type, op, data)]
  BY <1>3
<1>5. /\ await'[op] = [type |-> type, sock |-> s, target |-> target]
      /\ \A q \in Ops : q # op => await'[q] = await[q] /\ (Issued(q)' <=> Issued(q))
  BY <1>4, StartedIssued
<1>6. await'[op].type = type /\ await'[op].sock = s BY <1>5
<1>7. ASSUME NEW data, slot' = [slot EXCEPT ![s] = Set(slot[s], type, op, data)]
      PROVE  slot'[s].sock
  <2>1. slot[s] \in Slots BY <1>1
  <2>2. Set(slot[s], type, op, data).sock BY <2>1 DEF Set, Slots
  <2> QED BY <1>1, <1>7, <2>2
<1> QED BY <1>4, <1>5, <1>6, <1>7

LEMMA DispatchRegisters ==
  ASSUME WakeInv, NEW b \in batch,
         \/ DispatchError(b) \/ DispatchHangup(b) \/ DispatchIdle(b) \/ DispatchTransfer(b)
         \/ DispatchConnect(b) \/ DispatchTimer(b) \/ DispatchSignal(b)
  PROVE \A s \in Socks : k'[s].reg => k[s].reg
<1>1. StructInv /\ TypeOK /\ b.sock \in Socks /\ k \in [Socks -> Fds]
  BY SlotOfBatch DEF WakeInv, StructInv
<1>2. CASE DispatchTransfer(b)
  <2>1. PICK t \in Try(b.sock, slot[b.sock].type) :
          k' = KernelAfter(b.sock, slot[b.sock].type, t)
    BY <1>2 DEF DispatchTransfer
  <2>2. slot[b.sock].type \in InTypes \cup OutTypes BY <1>2 DEF DispatchTransfer
  <2>3. t.fd.reg = k[b.sock].reg BY <1>1, <2>2, TryQuiet DEF Quiet
  <2>4. ~AcceptedFd.reg BY DEF AcceptedFd, ClosedFd
  <2> QED BY <1>1, <2>1, <2>3, <2>4 DEF KernelAfter
<1>3. CASE DispatchSignal(b)
  <2>1. k' = [k EXCEPT ![b.sock] = EpollDel(k[b.sock])] BY <1>3 DEF DispatchSignal
  <2>2. ~EpollDel(k[b.sock]).reg BY <1>1 DEF EpollDel, Fds
  <2> QED BY <1>1, <2>1, <2>2
<1> QED BY <1>2, <1>3 DEF DispatchError, DispatchHangup, DispatchIdle, DispatchConnect,
                        DispatchTimer

LEMMA NextCareful ==
  ASSUME WakeInv, CarefulInv, Next PROVE CarefulInv'
<1> SUFFICES ASSUME CarefulUser PROVE CarefulInv'
  BY DEF CarefulInv
<1>1. /\ StructInv /\ TypeOK /\ DescriptorInv /\ batch \subseteq Polled
      /\ k \in [Socks -> Fds]
  BY DEF WakeInv, StructInv, TypeOK
<1>2. \A s \in Socks : slot[s].sock => slot'[s].sock
  BY <1>1, NextEvolves DEF Evolves
<1>3. /\ \A op \in Ops :
           Issued(op) /\ await[op].type # "CONNECT" => slot[await[op].sock].sock
      /\ pc \notin {"setup", "callback"} => \A s \in Socks : k[s].reg => slot[s].sock
      /\ \A b \in batch : slot[b.sock].sock
      /\ pc # "crashed"
  BY DEF CarefulInv
<1>4. /\ \A b \in batch : b.sock \in Socks
      /\ \A op \in Ops : Issued(op) => await[op].sock \in Socks
  BY <1>1 DEF Polled, StructInv, AwaitInv, Issued
<1>given. \A op \in Ops :
          Issued(op)' /\ await'[op].type # "CONNECT" => slot'[await'[op].sock].sock
  <2>1. CASE await' = await BY <1>2, <1>3, <1>4, <2>1 DEF Issued
  <2>2. ASSUME NEW op \in Ops, Submit(op)
        PROVE  \A q \in Ops :
                 Issued(q)' /\ await'[q].type # "CONNECT" => slot'[await'[q].sock].sock
    <3>1. /\ \A q \in Ops : q # op => await'[q] = await[q] /\ (Issued(q)' <=> Issued(q))
          /\ await'[op].type # "CONNECT" => slot'[await'[op].sock].sock
      BY <1>1, <2>2, SubmitGives
    <3> QED BY <1>2, <1>3, <1>4, <3>1
  <2>3. CASE DirectCall \/ UserEnd \/ StartRun \/ EndCallback
    <3>1. await' = await
      BY <2>3 DEF DirectCall, SyncTransfer, SyncConnect, SyncAccept, Shutdown, Close, UserEnd,
         StartRun, EndCallback, userVars
    <3> QED BY <2>1, <3>1
  <2>4. CASE Interrupted \/ Environment \/ LoopTest \/ StartCallback \/ StartWait \/ Harvest
             \/ Tried
    <3>1. await' = await
      BY <2>4 DEF Interrupted, Environment, Tick, World, LoopTest, StartCallback, StartWait,
         Harvest, Tried, userVars
    <3> QED BY <2>1, <3>1
  <2>5. CASE Dispatch
    <3>1. await' = await
      BY <2>5, ZenonT(40) DEF Dispatch, DispatchNull, DispatchError, DispatchHangup, DispatchIdle,
         DispatchTransfer, DispatchConnect, DispatchTimer, DispatchSignal, Edge, Served, userVars
    <3> QED BY <2>1, <3>1
  <2> QED BY <2>2, <2>3, <2>4, <2>5 DEF Next, LoopStep
<1>5. ASSUME batch' \subseteq batch, pc' # "crashed",
             \/ pc' \in {"setup", "callback"}
             \/ \A s \in Socks : k'[s].reg => slot'[s].sock
      PROVE CarefulInv'
  BY <1>2, <1>3, <1>4, <1>given, <1>5 DEF CarefulInv
<1>6. CASE (\E op \in Ops : Submit(op)) \/ DirectCall \/ Tried \/ UserEnd
  <2> DEFINE Stays == pc \in {"setup", "callback"} /\ pc' = pc /\ batch' = batch
  <2>1. ASSUME NEW op \in Ops, Submit(op) PROVE Stays
    <3>1. InUser BY <2>1 DEF Submit, SubmitTransfer, SubmitAccept, SubmitConnect, SubmitTimer,
                             SubmitSignal, MayStart
    <3>2. pc' = pc /\ batch' = batch
      BY <2>1 DEF Submit, SubmitTransfer, SubmitAccept, SubmitConnect, SubmitTimer,
                  SubmitSignal, loopVars
    <3> QED BY <3>1, <3>2 DEF InUser
  <2>2. ASSUME DirectCall PROVE Stays
    <3>1. InUser BY <2>2, ZenonT(40) DEF DirectCall, SyncTransfer, SyncConnect, SyncAccept, Shutdown, Close
    <3>2. pc' = pc /\ batch' = batch
      BY <2>2 DEF DirectCall, SyncTransfer, SyncConnect, SyncAccept, Shutdown, Close, loopVars
    <3> QED BY <3>1, <3>2 DEF InUser
  <2>3. ASSUME Tried PROVE Stays
    BY <1>1, <2>3 DEF Tried, StructInv, CallingInv
  <2>4. ASSUME UserEnd PROVE Stays
    BY <2>4 DEF UserEnd, End, NotHere
  <2> QED BY <1>5, <1>6, <2>1, <2>2, <2>3, <2>4
<1>7. CASE StartRun \/ EndCallback
  <2>1. /\ \A s \in Socks : k[s].reg => Given(s)
        /\ pc' \in {"top", "scan"}
        /\ UNCHANGED <<batch, k, slot>>
    BY <1>7 DEF StartRun, EndCallback, MayLeave, Run, Return, NotHere
  <2>2. \A s \in Socks : Given(s) => slot[s].sock
    BY <1>3, EpollAssumption DEF Given, Issued, Unissued
  <2> QED BY <1>5, <2>1, <2>2
<1>8. CASE LoopTest \/ StartWait \/ Interrupted
  <2>1. /\ pc \in {"top", "scan", "wait"} /\ pc' \in {"scan", "done", "wait", "top"}
        /\ UNCHANGED <<batch, k, slot>>
    BY <1>8 DEF LoopTest, StartWait, Interrupted, Enter, EnterWait, NotHere
  <2> QED BY <1>3, <1>5, <2>1
<1>9. CASE StartCallback
  <2>1. pc' \in {"callback", "scan"} /\ UNCHANGED <<batch, slot>> /\ pc = "scan"
    BY <1>9 DEF StartCallback, Scan
  <2>2. pc' = "callback"
    BY <1>1, <1>9, ScannedIsDue DEF StructInv, StartCallback
  <2> QED BY <1>5, <2>1, <2>2
<1>10. CASE Harvest
  <2>1. PICK S \in SUBSET Ready :
          /\ batch' = {[sock |-> s, events |-> Mask(Kind[s], k[s])] : s \in S}
          /\ k' = [s \in Socks |-> IF s \in Ready \ S THEN k[s]
                                   ELSE [k[s] EXCEPT !.ready = FALSE]]
    BY <1>10 DEF Harvest
  <2>2. pc = "wait" /\ pc' = "dispatch" /\ slot' = slot BY <1>10 DEF Harvest
  <2>3. \A s \in Socks : k'[s].reg = k[s].reg BY <1>1, <2>1 DEF Fds
  <2>4. \A s \in Ready : s \in Socks /\ k[s].reg BY <1>1 DEF Ready, DescriptorInv
  <2>5. \A b \in batch' : slot'[b.sock].sock
    BY <1>3, <2>1, <2>2, <2>4
  <2> QED BY <1>3, <1>given, <2>2, <2>3, <2>5 DEF CarefulInv
<1>11. CASE Dispatch
  <2>1. PICK b \in batch :
          \/ DispatchNull(b) \/ DispatchError(b) \/ DispatchHangup(b) \/ DispatchIdle(b)
          \/ DispatchTransfer(b) \/ DispatchConnect(b) \/ DispatchTimer(b)
          \/ DispatchSignal(b)
    BY <1>11 DEF Dispatch
  <2>2. ~DispatchNull(b) BY <1>3, SMTT(40) DEF DispatchNull
  <2>3. Served(b)
    BY <2>1, <2>2 DEF DispatchError, DispatchHangup, DispatchIdle, DispatchTransfer,
                      DispatchConnect, DispatchTimer, DispatchSignal, Edge
  <2>4. pc = "dispatch" /\ pc' \in {"top", "dispatch"} /\ batch' \subseteq batch
    BY <2>3 DEF Served
  <2>5. \A s \in Socks : k'[s].reg => k[s].reg BY <2>1, <2>2, DispatchRegisters
  <2> QED BY <1>2, <1>3, <1>5, <2>4, <2>5
<1>12. CASE Environment
  <2>1. PICK s \in Socks, fd \in Fds : World(s, {fd}) /\ Woken(k[s], fd)
    BY <1>1, <1>12, EnvironmentWakes
  <2>2. k' = [k EXCEPT ![s] = fd] /\ UNCHANGED <<pc, batch, slot>>
    BY <2>1 DEF World, loopVars
  <2>3. \A x \in Socks : k'[x].reg = k[x].reg BY <1>1, <2>1, <2>2 DEF Woken
  <2> QED BY <1>3, <1>5, <2>2, <2>3
<1> QED BY <1>6, <1>7, <1>8, <1>9, <1>10, <1>11, <1>12 DEF Next, LoopStep

-----------------------------------------------------------------------------
LEMMA InitInv == Init => Inv
<1> SUFFICES ASSUME Init PROVE Inv
  OBVIOUS
<1>1. WakeInv BY InitWake
<1>2. NothingWaitsForTheFlag BY DEF Init, NothingWaitsForTheFlag, NewSlot
<1>3. CarefulInv BY DEF Init, LoopInit, CarefulInv, Issued
<1> QED BY <1>1, <1>2, <1>3 DEF Inv

LEMMA NextInv == Inv /\ [Next]_vars => Inv'
<1> SUFFICES ASSUME Inv, [Next]_vars PROVE Inv'
  OBVIOUS
<1>1. WakeInv' BY NextWake DEF Inv
<1>2. CASE Next
  <2>1. \A s \in Socks : Heeds(s) BY DEF Inv, NothingWaitsForTheFlag, Heeds
  <2>2. \A s \in Socks : Heeds(s)'
    BY <1>2, <2>1, NextEvolves DEF Inv, WakeInv, Evolves
  <2>3. NothingWaitsForTheFlag' BY <2>2 DEF NothingWaitsForTheFlag, Heeds
  <2>4. CarefulInv' BY <1>2, NextCareful DEF Inv
  <2> QED BY <1>1, <2>3, <2>4 DEF Inv
<1>3. CASE UNCHANGED vars
  <2>1. NothingWaitsForTheFlag' /\ CarefulInv'
    BY <1>3 DEF Inv, NothingWaitsForTheFlag, CarefulInv, Issued, vars
  <2> QED BY <1>1, <2>1 DEF Inv
<1> QED BY <1>2, <1>3

(* The inductive invariant of the back end, for all constants. *)
THEOREM Invariant == Spec => []Inv
  BY InitInv, NextInv, PTL DEF Spec

(* No operation sleeps in its slot although its direction was reported     *)
(* ready (epollimpl.h:23-63, 83-150, 187-293).                             *)
THEOREM FlagsAreHeeded == Spec => []NothingWaitsForTheFlag
<1>1. Inv => NothingWaitsForTheFlag BY DEF Inv
<1> QED BY <1>1, Invariant, PTL

(* A program that gives each registered socket an operation other than a   *)
(* connect before it goes back to the loop never has Wait follow a null    *)
(* socket: such a Submit call stores the socket in the slot, and nothing   *)
(* takes it out again (epoll.h:33-38, epollimpl.h:23-150, 156-165, 171).   *)
THEOREM CarefulProgramsAreSafe == Spec => []NoNullSocket
<1>1. Inv => NoNullSocket BY DEF Inv, CarefulInv, NoNullSocket
<1> QED BY <1>1, Invariant, PTL

(* The would-block branches of the transfers are dead code: a flag of a    *)
(* TCP or UDP socket is never reset (linuxsock.h:275-279, 291-295).        *)
THEOREM FlagsOnlyRise == Spec => TransferNeverWaitsAgain
<1> DEFINE Rise == \A s \in Socks : Kind[s] \in {"TCP", "UDP"} =>
                     (slot[s].rp => slot'[s].rp) /\ (slot[s].wp => slot'[s].wp)
<1>1. Inv /\ [Next]_vars => [Rise]_vars
  BY NextEvolves DEF Inv, WakeInv, Evolves
<1> QED BY <1>1, Invariant, PTL DEF Spec, TransferNeverWaitsAgain

-----------------------------------------------------------------------------
(* What a step does to operations.                                         *)

Same(sl, new) ==
  new.sock = sl.sock /\ new.type = sl.type /\ new.ev = sl.ev /\ new.data = sl.data

(* Nothing. *)
Stays ==
  /\ UNCHANGED <<waitset, it, await, waiting, runs, displaced, redelivered>>
  /\ pc' = "callback" <=> pc = "callback"
  /\ \A s \in Socks : Same(slot[s], slot'[s])

(* A Submit call starts op, which takes the place of what waited in the    *)
(* slot.                                                                   *)
Begins(op, s, type, target) ==
  /\ MayStart(op, s)
  /\ type \in Types \ {"NOOP"} /\ Fits(Kind[s], type)
  /\ type = "ACCEPT" => FreeTarget(target)
  /\ target \in Socks \cup {NoSock}
  /\ Started(op, type, s, target)
  /\ waiting' = IF type = "ACCEPT" THEN [waiting EXCEPT ![s] = op] ELSE waiting
  /\ displaced' = displaced \cup PendingIn(s)
  /\ \A x \in Socks : x # s => slot'[x] = slot[x]
  /\ UNCHANGED <<it, pc, runs, redelivered>>

Waits(op, s, type, target) ==
  /\ Begins(op, s, type, target)
  /\ slot'[s].sock /\ slot'[s].type = type /\ slot'[s].ev = Event(op)
  /\ type = "ACCEPT" => slot'[s].data = target
  /\ waitset' = waitset

(* A connect that did not start is completed within the call. *)
Fails(op, s, ev) ==
  /\ Begins(op, s, "CONNECT", NoSock)
  /\ slot'[s].type = "NOOP"
  /\ ev \in Events /\ ev.cb = op
  /\ waitset' = SubmitComplete(waitset, ev)

(* The operation in the slot of s completes. *)
Clears(s, ev) ==
  /\ slot[s].sock
  /\ slot'[s].sock /\ slot'[s].type = "NOOP"
  /\ slot'[s].ev.cb = slot[s].ev.cb /\ slot'[s].data = slot[s].data
  /\ \A x \in Socks : x # s => slot'[x] = slot[x]
  /\ ev \in Events /\ ev.cb = slot[s].ev.cb
  /\ waitset' = SubmitComplete(waitset, ev)
  /\ pc' = "callback" <=> pc = "callback"
  /\ UNCHANGED <<it, await, waiting, runs, displaced>>

Ends(s, ev) ==
  /\ slot[s].type # "NOOP"
  /\ Clears(s, ev)
  /\ redelivered' = redelivered

(* EPOLLERR completes the last operation of an idle slot again. *)
EndsAgain(s, ev) ==
  /\ slot[s].type = "NOOP"
  /\ Clears(s, ev)
  /\ redelivered' = redelivered \cup {slot[s].ev.cb}
  /\ \E b \in batch : b.sock = s /\ "ERR" \in b.events
  /\ ev.status = "ERR" /\ ev.error \in Errnos

(* The callback of the first completed event starts ... *)
Calls ==
  /\ pc = "scan" /\ pc' = "callback" /\ waitset # <<>>
  /\ Called(waitset[1])
  /\ UNCHANGED <<waitset, it, slot, await, waiting, calling, batch, missed>>

(* ... and returns. *)
Returns ==
  /\ pc = "callback" /\ pc' = "scan"
  /\ waitset' = Tail(waitset)
  /\ UNCHANGED <<it, await, waiting, runs, displaced, redelivered, k, slot>>

LEMMA SameRefl == ASSUME NEW sl PROVE Same(sl, sl)
  BY DEF Same

-----------------------------------------------------------------------------
LEMMA SubmitWaits ==
  ASSUME StructInv, NEW s \in Socks, NEW op \in Ops
  PROVE  /\ \A type \in {"READ", "WRITE", "RECVFROM", "SENDTO"} :
              SubmitTransfer(s, type, op) => Waits(op, s, type, NoSock)
         /\ \A t \in Socks : SubmitAccept(s, t, op) => Waits(op, s, "ACCEPT", t)
         /\ \A zero \in BOOLEAN :
              SubmitTimer(s, zero, op) => Waits(op, s, "TIMETICK", NoSock)
         /\ SubmitSignal(s, op) => Waits(op, s, "SIGNAL", NoSock)
<1>1. slot \in [Socks -> Slots] /\ slot[s] \in Slots /\ slot[s].data \in Socks \cup {NoSock}
  BY DEF StructInv, TypeOK, Slots
<1>2. ASSUME NEW type \in Types, NEW data \in Socks \cup {NoSock},
             slot' = [slot EXCEPT ![s] = Set(slot[s], type, op, data)]
      PROVE  /\ \A x \in Socks : x # s => slot'[x] = slot[x]
             /\ slot'[s].sock /\ slot'[s].type = type /\ slot'[s].ev = Event(op)
             /\ slot'[s].data = data
  BY <1>1, <1>2, SetTyped
<1>3. ASSUME NEW type \in {"READ", "WRITE", "RECVFROM", "SENDTO"}, SubmitTransfer(s, type, op)
      PROVE  Waits(op, s, type, NoSock)
  <2>1. type \in Types \ {"NOOP"} /\ type # "ACCEPT" BY DEF Types, InTypes, OutTypes
  <2>2. Fits(Kind[s], type) BY <1>3 DEF SubmitTransfer, Transfers, Fits
  <2>3. slot' = [slot EXCEPT ![s] = Set(slot[s], type, op, slot[s].data)]
    BY <1>3 DEF SubmitTransfer
  <2>4. /\ \A x \in Socks : x # s => slot'[x] = slot[x]
        /\ slot'[s].sock /\ slot'[s].type = type /\ slot'[s].ev = Event(op)
        /\ slot'[s].data = slot[s].data
    BY <1>1, <1>2, <2>1, <2>3
  <2>5. Begins(op, s, type, NoSock)
    BY <1>3, <2>1, <2>2, <2>4 DEF SubmitTransfer, Begins, loopVars
  <2> QED BY <1>3, <2>1, <2>4, <2>5 DEF Waits, SubmitTransfer, loopVars
<1>4. ASSUME NEW t \in Socks, SubmitAccept(s, t, op) PROVE Waits(op, s, "ACCEPT", t)
  <2>1. "ACCEPT" \in Types \ {"NOOP"} BY DEF Types, InTypes, OutTypes
  <2>2. Fits(Kind[s], "ACCEPT") BY <1>4 DEF SubmitAccept, Fits
  <2>3. slot' = [slot EXCEPT ![s] = Set(slot[s], "ACCEPT", op, t)]
    BY <1>4 DEF SubmitAccept
  <2>4. /\ \A x \in Socks : x # s => slot'[x] = slot[x]
        /\ slot'[s].sock /\ slot'[s].type = "ACCEPT" /\ slot'[s].ev = Event(op)
        /\ slot'[s].data = t
    BY <1>1, <1>2, <2>1, <2>3
  <2>5. Begins(op, s, "ACCEPT", t)
    BY <1>4, <2>1, <2>2, <2>4 DEF SubmitAccept, Begins, loopVars
  <2> QED BY <1>4, <2>1, <2>4, <2>5 DEF Waits, SubmitAccept, loopVars
<1>5. ASSUME NEW zero \in BOOLEAN, SubmitTimer(s, zero, op)
      PROVE  Waits(op, s, "TIMETICK", NoSock)
  <2>1. "TIMETICK" \in Types \ {"NOOP"} BY DEF Types
  <2>2. Fits(Kind[s], "TIMETICK") BY <1>5 DEF SubmitTimer, Fits
  <2>3. slot' = [slot EXCEPT ![s] = Set(slot[s], "TIMETICK", op, slot[s].data)]
    BY <1>5 DEF SubmitTimer
  <2>4. /\ \A x \in Socks : x # s => slot'[x] = slot[x]
        /\ slot'[s].sock /\ slot'[s].type = "TIMETICK" /\ slot'[s].ev = Event(op)
        /\ slot'[s].data = slot[s].data
    BY <1>1, <1>2, <2>1, <2>3
  <2>5. Begins(op, s, "TIMETICK", NoSock)
    BY <1>5, <2>1, <2>2, <2>4 DEF SubmitTimer, Begins, loopVars
  <2> QED BY <1>5, <2>1, <2>4, <2>5 DEF Waits, SubmitTimer, loopVars
<1>6. ASSUME SubmitSignal(s, op) PROVE Waits(op, s, "SIGNAL", NoSock)
  <2>1. "SIGNAL" \in Types \ {"NOOP"} BY DEF Types
  <2>2. Fits(Kind[s], "SIGNAL") BY <1>6 DEF SubmitSignal, Fits
  <2>3. slot' = [slot EXCEPT ![s] = Set(slot[s], "SIGNAL", op, slot[s].data)]
    BY <1>6 DEF SubmitSignal
  <2>4. /\ \A x \in Socks : x # s => slot'[x] = slot[x]
        /\ slot'[s].sock /\ slot'[s].type = "SIGNAL" /\ slot'[s].ev = Event(op)
        /\ slot'[s].data = slot[s].data
    BY <1>1, <1>2, <2>1, <2>3
  <2>5. Begins(op, s, "SIGNAL", NoSock)
    BY <1>6, <2>1, <2>2, <2>4 DEF SubmitSignal, Begins, loopVars
  <2> QED BY <1>6, <2>1, <2>4, <2>5 DEF Waits, SubmitSignal, loopVars
<1> QED BY <1>3, <1>4, <1>5, <1>6

LEMMA SubmitConnectShape ==
  ASSUME StructInv, NEW s \in Socks, NEW op \in Ops, SubmitConnect(s, op)
  PROVE  \/ Waits(op, s, "CONNECT", NoSock)
         \/ \E ev \in Events :
              /\ Fails(op, s, ev)
              /\ ev.error = 0 => \E o \in ConnectCall(k[s]) : IntResult(o) = 0 /\ k'[s] = o.fd
<1>1. /\ slot \in [Socks -> Slots] /\ slot[s] \in Slots /\ slot[s].data \in Socks \cup {NoSock}
      /\ k[s] \in Fds /\ k \in [Socks -> Fds]
  BY DEF StructInv, TypeOK, Slots
<1>2. PICK o \in ConnectCall(k[s]) :
        /\ k' = [k EXCEPT ![s] = o.fd]
        /\ IF IntResult(o) = -EAGAIN
           THEN /\ slot' = [slot EXCEPT ![s] = Set(slot[s], "CONNECT", op, slot[s].data)]
                /\ UNCHANGED waitset
           ELSE /\ waitset' = SubmitComplete(waitset, Outcome(Event(op), IntResult(o)))
                /\ slot' = [slot EXCEPT ![s] = Clear(slot[s])]
  BY DEF SubmitConnect
<1>3. /\ MayStart(op, s) /\ Fits(Kind[s], "CONNECT") /\ "CONNECT" \in Types \ {"NOOP"}
      /\ Started(op, "CONNECT", s, NoSock)
      /\ displaced' = displaced \cup PendingIn(s)
      /\ UNCHANGED <<it, pc, waiting, runs, redelivered>>
  BY DEF SubmitConnect, Fits, Types
<1>4. (\A x \in Socks : x # s => slot'[x] = slot[x]) => Begins(op, s, "CONNECT", NoSock)
  BY <1>3 DEF Begins
<1>5. CASE IntResult(o) = -EAGAIN
  BY <1>1, <1>2, <1>3, <1>4, <1>5, SetTyped DEF Waits
<1>6. CASE IntResult(o) # -EAGAIN
  <2> DEFINE ev == Outcome(Event(op), IntResult(o))
  <2>1. o \in Outcomes BY <1>1, ConnectCallTyped
  <2>2. IntResult(o) \in Int BY <2>1, IntResultTyped
  <2>3. Event(op) \in Events /\ Event(op).cb = op BY EventTyped
  <2>4. ev \in Events /\ ev.cb = op BY <2>2, <2>3, OutcomeTyped
  <2>5. ev.error = 0 => IntResult(o) = 0
    <3>1. o.ret \in Int /\ o.errno \in Nat BY <2>1, Bounds DEF Outcomes
    <3>2. CASE IntResult(o) < 0
      <4>1. ev.error = -IntResult(o) BY <2>3, <3>2 DEF Outcome, Events
      <4> QED BY <2>2, <3>2, <4>1
    <3>3. CASE ~(IntResult(o) < 0)
      BY <3>1, <3>3 DEF IntResult
    <3> QED BY <3>2, <3>3
  <2>6. k'[s] = o.fd BY <1>1, <1>2
  <2>7. slot' = [slot EXCEPT ![s] = Clear(slot[s])] /\ waitset' = SubmitComplete(waitset, ev)
    BY <1>2, <1>6
  <2>8. slot'[s].type = "NOOP" /\ \A x \in Socks : x # s => slot'[x] = slot[x]
    BY <1>1, <2>7, ClearTyped
  <2> HIDE DEF ev
  <2> QED BY <1>2, <1>4, <2>4, <2>5, <2>6, <2>7, <2>8 DEF Fails
<1> QED BY <1>5, <1>6
-----------------------------------------------------------------------------
(* What the results of the system calls may be. *)
LEMMA SizeResultRange == ASSUME NEW o \in Outcomes PROVE SizeResult(o) \in -1..MaxIn
<1>1. o.ret \in -1..MaxIn /\ MaxIn \in Nat /\ MaxIn < 32768
  BY Bounds, SizeAssumption DEF Outcomes, SizeMod
<1>2. CASE o.ret = -1
  <2>1. o.ret \in Int /\ o.ret + 1 = 0 BY <1>1, <1>2
  <2>2. AsSize(o.ret) = 65535 BY <2>1, MinusOneAsSize
  <2>3. SizeResult(o) = -1 BY <2>2 DEF SizeResult, AsInt, SizeMod
  <2> QED BY <1>1, <2>3
<1>3. CASE o.ret # -1
  <2>1. o.ret \in 0..MaxIn BY <1>1, <1>3
  <2>2. AsSize(o.ret) = o.ret BY <1>1, <2>1 DEF AsSize, SizeMod
  <2>3. SizeResult(o) = o.ret BY <1>1, <2>1, <2>2 DEF SizeResult, AsInt, SizeMod
  <2> QED BY <2>1, <2>3, <1>1
<1> QED BY <1>2, <1>3

LEMMA IntResultRange == ASSUME NEW o \in Outcomes PROVE IntResult(o) \in Int /\ IntResult(o) <= 0
<1>1. o.errno \in Nat BY DEF Outcomes
<1>2. -o.errno \in Int /\ -o.errno <= 0 BY <1>1
<1> QED BY <1>2 DEF IntResult

(* An accept has no bytes, and a transfer no errno. *)
LEMMA TryRange ==
  ASSUME TypeOK, NEW s \in Socks, NEW type \in InTypes \cup OutTypes, NEW t \in Try(s, type)
  PROVE  /\ t.r \in Int
         /\ type = "ACCEPT" => t.r <= 0
         /\ type # "ACCEPT" => t.r >= -1
<1>1. k[s] \in Fds BY DEF TypeOK
<1>2. CASE type \in {"READ", "RECVFROM"}
  <2>1. PICK o \in RecvMsg(Kind[s], k[s]) : t = [r |-> SizeResult(o), fd |-> o.fd]
    BY <1>2 DEF Try, OutTypes
  <2>2. o \in Outcomes BY <1>1, RecvMsgTyped
  <2>3. t.r \in -1..MaxIn BY <2>1, <2>2, SizeResultRange
  <2> QED BY <1>2, <2>3, KernelAssumption
<1>3. CASE type \in OutTypes
  <2>1. PICK o \in SendMsg(k[s]) : t = [r |-> SizeResult(o), fd |-> o.fd]
    BY <1>3 DEF Try, OutTypes
  <2>2. o \in Outcomes BY <1>1, SendMsgTyped
  <2>3. t.r \in -1..MaxIn BY <2>1, <2>2, SizeResultRange
  <2> QED BY <1>3, <2>3, KernelAssumption DEF OutTypes
<1>4. CASE type = "ACCEPT"
  <2>1. PICK o \in AcceptCall(k[s]) : t = [r |-> IntResult(o), fd |-> o.fd]
    BY <1>4 DEF Try, OutTypes
  <2>2. o \in Outcomes BY <1>1, AcceptCallTyped
  <2> QED BY <1>4, <2>1, <2>2, IntResultRange
<1> QED BY <1>2, <1>3, <1>4 DEF InTypes

LEMMA OutcomeFields ==
  ASSUME NEW op \in Ops, NEW ev \in {Event(op)}, NEW r \in Int
  PROVE  /\ Outcome(ev, r) \in Events /\ Outcome(ev, r).cb = op
         /\ r >= 0 => Outcome(ev, r).error = 0 /\ Outcome(ev, r).status = "COMPLETED"
         /\ r < 0 => Outcome(ev, r).error = -r /\ Outcome(ev, r).status = "ERR"
<1>1. ev \in Events /\ ev.cb = op /\ ev.error = 0 BY EventTyped DEF Event
<1>2. CASE r >= 0
  <2>1. Outcome(ev, r) = [ev EXCEPT !.status = "COMPLETED", !.res = r] BY <1>2 DEF Outcome
  <2> DEFINE new == [ev EXCEPT !.status = "COMPLETED", !.res = r]
  <2>2. "COMPLETED" \in Statuses BY DEF Statuses
  <2>3. /\ new \in Events /\ new.cb = ev.cb
        /\ new.error = ev.error /\ new.status = "COMPLETED"
    BY <1>1, <2>2 DEF Events
  <2>4. Outcome(ev, r) = new BY <2>1
  <2> HIDE DEF new
  <2> QED BY <1>1, <1>2, <2>3, <2>4
<1>3. CASE r < 0
  <2> DEFINE e == -r
  <2>1. Outcome(ev, r) = [ev EXCEPT !.status = "ERR", !.error = e] BY <1>3 DEF Outcome
  <2>2. "ERR" \in Statuses /\ e \in Int BY DEF Statuses
  <2> HIDE DEF e
  <2>3. /\ Outcome(ev, r) \in Events /\ Outcome(ev, r).cb = op
        /\ Outcome(ev, r).error = e /\ Outcome(ev, r).status = "ERR"
    BY <1>1, <2>1, <2>2 DEF Events
  <2> QED BY <1>3, <2>3 DEF e
<1> QED BY <1>2, <1>3

(* Why an operation may complete, and with what. *)
TransferTypes == {"READ", "WRITE", "RECVFROM", "SENDTO"}

Reported(s, events) == \E b \in batch : b.sock = s /\ b.events \cap events # {}

Reason(s, ev) ==
  /\ slot[s].type \in {"TIMETICK", "SIGNAL"} => Reported(s, {"IN", "ERR"})
  /\ slot[s].type = "CONNECT" /\ ev.error = 0 =>
       \E b \in batch : /\ b.sock = s
                        /\ \/ "ERR" \in b.events /\ ev.status = "ERR"
                           \/ "OUT" \in b.events /\ "HUP" \notin b.events
  /\ slot[s].type = "ACCEPT" /\ ev.error = 0 =>
       Reported(s, {"ERR"}) \/ k'[slot[s].data] = AcceptedFd
  /\ slot[s].type \in TransferTypes /\ ev.status = "ERR" => ev.error \in {1} \cup Errnos

(* A slot of SlotInv that waits for an accept is not its own target. *)
LEMMA TargetDiffers ==
  ASSUME StructInv, NEW s \in Socks, slot[s].sock, slot[s].type = "ACCEPT"
  PROVE  slot[s].data \in Socks /\ slot[s].data # s
<1>1. Kind[s] = "LISTENER" /\ slot[s].data \in Fresh BY DEF StructInv, SlotInv, Fits
<1> QED BY <1>1, EpollAssumption

LEMMA AttemptReason ==
  ASSUME StructInv, NEW s \in Socks, slot[s].sock, slot[s].type \in InTypes \cup OutTypes,
         NEW op \in Ops, NEW e \in {Event(op)}, NEW t \in Try(s, slot[s].type),
         k' = KernelAfter(s, slot[s].type, t)
  PROVE  Reason(s, Outcome(e, t.r))
<1> DEFINE ev == Outcome(e, t.r)
           type == slot[s].type
<1>1. TypeOK BY DEF StructInv
<1>2. t.r \in Int /\ (type = "ACCEPT" => t.r <= 0) /\ (type # "ACCEPT" => t.r >= -1)
  BY <1>1, TryRange
<1>3. /\ t.r >= 0 => ev.error = 0 /\ ev.status = "COMPLETED"
      /\ t.r < 0 => ev.error = -t.r /\ ev.status = "ERR"
  BY <1>2, OutcomeFields
<1> HIDE DEF ev
<1>4. type \notin {"TIMETICK", "SIGNAL", "CONNECT"} BY DEF InTypes, OutTypes
<1>5. type = "ACCEPT" /\ ev.error = 0 => k'[slot[s].data] = AcceptedFd
  <2> SUFFICES ASSUME type = "ACCEPT", ev.error = 0 PROVE k'[slot[s].data] = AcceptedFd
    OBVIOUS
  <2>1. t.r = 0 BY <1>2, <1>3
  <2> QED BY <2>1, TargetDiffers DEF KernelAfter
<1>6. type \in TransferTypes /\ ev.status = "ERR" => ev.error \in {1} \cup Errnos
  <2> SUFFICES ASSUME type \in TransferTypes, ev.status = "ERR" PROVE ev.error = 1
    OBVIOUS
  <2>1. t.r >= -1 BY <1>2 DEF TransferTypes
  <2> QED BY <1>2, <1>3, <2>1
<1> QED BY <1>4, <1>5, <1>6 DEF Reason, ev
-----------------------------------------------------------------------------
LEMMA FlagsStay ==
  ASSUME StructInv, NEW s \in Socks, NEW new \in Slots, Same(slot[s], new),
         slot' = [slot EXCEPT ![s] = new]
  PROVE  \A x \in Socks : Same(slot[x], slot'[x])
<1>1. slot \in [Socks -> Slots] BY DEF StructInv, TypeOK
<1>2. \A x \in Socks : slot'[x] = IF x = s THEN new ELSE slot[x] BY <1>1
<1> QED BY <1>2, SameRefl

LEMMA FlagsSame ==
  ASSUME NEW sl \in Slots, NEW new \in {[sl EXCEPT !.rp = FALSE], [sl EXCEPT !.wp = FALSE]}
  PROVE  new \in Slots /\ Same(sl, new)
  BY DEF Slots, Same

LEMMA TriedShape ==
  ASSUME StructInv, Tried
  PROVE  Stays \/ \E s \in Socks, ev \in Events : Ends(s, ev) /\ Reason(s, ev)
<1> DEFINE s == await[calling].sock
           type == await[calling].type
<1>1. TypeOK /\ LoopInv BY DEF StructInv
<1>2. /\ calling \in Ops /\ s \in Socks /\ type \in InTypes \cup OutTypes
      /\ slot[s].sock /\ slot[s].ev.cb = calling /\ slot[s].type = type
  BY <1>1 DEF Tried, StructInv, CallingInv, TypeOK
<1>3. slot \in [Socks -> Slots] /\ slot[s] \in Slots BY <1>1, <1>2 DEF TypeOK
<1>4. PICK t \in Try(s, type) :
        /\ k' = KernelAfter(s, type, t)
        /\ \/ /\ \/ slot' = [slot EXCEPT ![s].wp = FALSE]
                 \/ slot' = [slot EXCEPT ![s].rp = FALSE]
              /\ waitset' = waitset
           \/ /\ waitset' = SubmitComplete(waitset, Outcome(Event(calling), t.r))
              /\ slot' = [slot EXCEPT ![s] = Clear(slot[s])]
  BY DEF Tried
<1>5. UNCHANGED <<it, pc, await, waiting, runs, displaced, redelivered>>
  BY DEF Tried, userVars
<1>6. CASE /\ \/ slot' = [slot EXCEPT ![s].wp = FALSE]
              \/ slot' = [slot EXCEPT ![s].rp = FALSE]
           /\ waitset' = waitset
  <2>1. PICK new \in {[slot[s] EXCEPT !.rp = FALSE], [slot[s] EXCEPT !.wp = FALSE]} :
          slot' = [slot EXCEPT ![s] = new]
    BY <1>6
  <2>2. new \in Slots /\ Same(slot[s], new) BY <1>3, FlagsSame
  <2> HIDE DEF s
  <2>3. \A x \in Socks : Same(slot[x], slot'[x]) BY <1>2, <2>1, <2>2, FlagsStay
  <2> QED BY <1>5, <1>6, <2>3 DEF Stays
<1>7. CASE /\ waitset' = SubmitComplete(waitset, Outcome(Event(calling), t.r))
           /\ slot' = [slot EXCEPT ![s] = Clear(slot[s])]
  <2> DEFINE ev == Outcome(Event(calling), t.r)
  <2>1. t.r \in Int BY <1>1, <1>2, TryRange
  <2>2. ev \in Events /\ ev.cb = calling BY <1>2, <2>1, OutcomeFields
  <2>3. waitset' = SubmitComplete(waitset, ev) BY <1>7
  <2>4. Reason(s, ev) BY <1>2, <1>4, AttemptReason
  <2>5. /\ slot'[s].sock /\ slot'[s].type = "NOOP"
        /\ slot'[s].ev = slot[s].ev /\ slot'[s].data = slot[s].data
        /\ \A x \in Socks : x # s => slot'[x] = slot[x]
    BY <1>2, <1>3, <1>7, ClearTyped
  <2>6. slot[s].type # "NOOP" BY <1>2 DEF InTypes, OutTypes
  <2> HIDE DEF ev, s
  <2>7. Clears(s, ev) BY <1>2, <1>5, <2>2, <2>3, <2>5 DEF Clears
  <2> QED BY <1>2, <1>5, <2>2, <2>4, <2>6, <2>7 DEF Ends
<1> QED BY <1>4, <1>6, <1>7

(* One turn of the loop of Wait. *)
LEMMA ServedKeeps ==
  ASSUME StructInv, NEW b \in batch, Served(b)
  PROVE  /\ b.sock \in Socks /\ slot[b.sock].sock /\ slot[b.sock] \in Slots
         /\ slot[b.sock].ev \in Events
         /\ slot[b.sock].ev.cb \in Ops /\ slot \in [Socks -> Slots]
         /\ UNCHANGED <<it, await, waiting, runs, displaced>>
         /\ pc' # "callback" /\ pc # "callback"
<1>1. b.sock \in Socks /\ slot \in [Socks -> Slots]
  BY DEF StructInv, TypeOK, Polled
<1> QED BY <1>1 DEF Served, StructInv, SlotInv, Slots

LEMMA ServedClears ==
  ASSUME StructInv, NEW b \in batch, Served(b),
         NEW ev \in Events, ev.cb = slot[b.sock].ev.cb,
         NEW sl \in Slots, Same(slot[b.sock], sl),
         waitset' = SubmitComplete(waitset, ev),
         slot' = [slot EXCEPT ![b.sock] = [Clear(sl) EXCEPT !.ev = ev]]
  PROVE  Clears(b.sock, ev)
<1>1. /\ b.sock \in Socks /\ slot[b.sock].sock /\ slot \in [Socks -> Slots]
      /\ UNCHANGED <<it, await, waiting, runs, displaced>>
      /\ pc' # "callback" /\ pc # "callback"
  BY ServedKeeps
<1> DEFINE new == [Clear(sl) EXCEPT !.ev = ev]
<1>2. /\ new \in Slots /\ new.sock = sl.sock /\ new.type = "NOOP"
      /\ new.ev = ev /\ new.data = sl.data
  BY CompletedTyped
<1>3. slot' = [slot EXCEPT ![b.sock] = new] OBVIOUS
<1> HIDE DEF new
<1> QED BY <1>1, <1>2, <1>3 DEF Clears, Same

LEMMA FlaggedSame ==
  ASSUME StructInv, NEW b \in batch
  PROVE  Flagged(b) \in Slots /\ Same(slot[b.sock], Flagged(b))
  BY FlaggedTyped DEF Same
StepShape ==
  \/ Stays
  \/ \E s \in Socks, ev \in Events : Ends(s, ev) /\ Reason(s, ev)
  \/ \E s \in Socks, ev \in Events : EndsAgain(s, ev)

LEMMA DispatchErrorShape ==
  ASSUME StructInv, TypesInv, NEW b \in batch, DispatchError(b) PROVE StepShape
<1> DEFINE s == b.sock
<1>1. Served(b) /\ "ERR" \in b.events BY DEF DispatchError
<1>2. /\ s \in Socks /\ slot[s].sock /\ slot[s] \in Slots /\ slot[s].ev \in Events
      /\ slot[s].ev.cb \in Ops
  BY <1>1, ServedKeeps
<1>3. PICK e \in Errnos :
        /\ waitset' = SubmitComplete(waitset, [slot[s].ev EXCEPT !.status = "ERR", !.error = e])
        /\ slot' = [slot EXCEPT ![s] =
             [Clear(slot[s]) EXCEPT !.ev = [slot[s].ev EXCEPT !.status = "ERR", !.error = e]]]
  BY DEF DispatchError
<1> DEFINE ev == [slot[s].ev EXCEPT !.status = "ERR", !.error = e]
<1>4. ev \in Events /\ ev.cb = slot[s].ev.cb /\ ev.error = e /\ ev.status = "ERR"
  <2>1. e \in Int BY EpollAssumption
  <2>2. ev \in Events /\ ev.cb = slot[s].ev.cb /\ ev.error = e
    BY <1>2, <2>1, StatusTyped DEF Statuses, Events
  <2>3. ev.status = "ERR" BY <1>2 DEF Events
  <2> QED BY <2>2, <2>3
<1>5. /\ waitset' = SubmitComplete(waitset, ev)
      /\ slot' = [slot EXCEPT ![s] = [Clear(slot[s]) EXCEPT !.ev = ev]]
  BY <1>3
<1> HIDE DEF ev
<1>6. Clears(s, ev) BY <1>1, <1>2, <1>4, <1>5, SameRefl, ServedClears
<1>7. redelivered' = redelivered \cup ({slot[s].ev.cb} \ PendingIn(s))
  BY DEF DispatchError
<1>8. CASE slot[s].type = "NOOP"
  <2>1. PendingIn(s) = {} BY <1>8 DEF PendingIn
  <2>2. EndsAgain(s, ev) BY <1>1, <1>4, <1>6, <1>7, <1>8, <2>1 DEF EndsAgain
  <2> QED BY <1>2, <1>4, <2>2 DEF StepShape
<1>9. CASE slot[s].type # "NOOP"
  <2>1. slot[s].ev.cb \in PendingIn(s) BY <1>2, <1>9 DEF PendingIn
  <2>2. Ends(s, ev) BY <1>6, <1>7, <1>9, <2>1 DEF Ends
  <2>3. Reason(s, ev) BY <1>1, <1>4 DEF Reason, Reported
  <2> QED BY <1>2, <1>4, <2>2, <2>3 DEF StepShape
<1> QED BY <1>8, <1>9

LEMMA DispatchHangupShape ==
  ASSUME StructInv, TypesInv, NEW b \in batch, DispatchHangup(b) PROVE StepShape
<1> DEFINE s == b.sock
           e == 144
           ev == [slot[s].ev EXCEPT !.status = "ERR", !.error = e]
<1>1. Served(b) BY DEF DispatchHangup
<1>2. /\ s \in Socks /\ slot[s].sock /\ slot[s] \in Slots /\ slot[s].ev \in Events
      /\ UNCHANGED <<it, await, waiting, runs, displaced>>
      /\ pc' # "callback" /\ pc # "callback"
  BY <1>1, ServedKeeps
<1>3. \/ /\ slot[s].type = "CONNECT"
         /\ waitset' = SubmitComplete(waitset, ev)
         /\ slot' = [slot EXCEPT ![s] = [Clear(slot[s]) EXCEPT !.ev = ev]]
      \/ UNCHANGED <<slot, waitset>>
  BY DEF DispatchHangup
<1>4. redelivered' = redelivered BY DEF DispatchHangup
<1>5. e \in Int /\ e # 0 OBVIOUS
<1> HIDE DEF e
<1>6. ev \in Events /\ ev.cb = slot[s].ev.cb /\ ev.error # 0
  BY <1>2, <1>5, StatusTyped, ZenonT(40) DEF Statuses, Events
<1> HIDE DEF ev
<1>7. CASE /\ slot[s].type = "CONNECT"
           /\ waitset' = SubmitComplete(waitset, ev)
           /\ slot' = [slot EXCEPT ![s] = [Clear(slot[s]) EXCEPT !.ev = ev]]
  <2>1. Clears(s, ev) BY <1>1, <1>2, <1>6, <1>7, SameRefl, ServedClears
  <2>2. Ends(s, ev) BY <1>4, <1>7, <2>1 DEF Ends
  <2>3. Reason(s, ev) BY <1>6, <1>7 DEF Reason, TransferTypes
  <2> QED BY <1>2, <1>6, <2>2, <2>3 DEF StepShape
<1>8. CASE UNCHANGED <<slot, waitset>>
  BY <1>2, <1>4, <1>8, SameRefl DEF StepShape, Stays
<1> QED BY <1>3, <1>7, <1>8

LEMMA DispatchIdleShape ==
  ASSUME StructInv, NEW b \in batch, DispatchIdle(b) PROVE Stays
<1>1. Served(b) BY DEF DispatchIdle, Edge
<1>2. Flagged(b) \in Slots /\ Same(slot[b.sock], Flagged(b)) BY FlaggedSame
<1>3. slot' = [slot EXCEPT ![b.sock] = Flagged(b)] /\ UNCHANGED <<waitset, redelivered>>
  BY DEF DispatchIdle
<1>4. \A x \in Socks : Same(slot[x], slot'[x])
  BY <1>1, <1>2, <1>3, ServedKeeps, FlagsStay
<1> QED BY <1>1, <1>3, <1>4, ServedKeeps DEF Stays

LEMMA DispatchTransferShape ==
  ASSUME StructInv, TypesInv, NEW b \in batch, DispatchTransfer(b) PROVE StepShape
<1> DEFINE s == b.sock
           type == slot[s].type
           fl == Flagged(b)
<1>1. Edge(b) /\ Served(b) /\ type \in InTypes \cup OutTypes /\ type # "NOOP"
  BY DEF DispatchTransfer, Edge, InTypes, OutTypes
<1>2. PICK t \in Try(s, type) :
        /\ k' = KernelAfter(s, type, t)
        /\ \/ /\ \/ slot' = [slot EXCEPT ![s] = [fl EXCEPT !.wp = FALSE]]
                 \/ slot' = [slot EXCEPT ![s] = [fl EXCEPT !.rp = FALSE]]
              /\ UNCHANGED <<waitset, redelivered>>
           \/ Completed(b, Outcome(slot[s].ev, t.r), fl)
  BY DEF DispatchTransfer
<1>3. /\ s \in Socks /\ slot[s].sock /\ slot[s] \in Slots /\ slot[s].ev.cb \in Ops
      /\ UNCHANGED <<it, await, waiting, runs, displaced>>
      /\ pc' # "callback" /\ pc # "callback"
  BY <1>1, ServedKeeps
<1>4. fl \in Slots /\ Same(slot[s], fl) BY FlaggedSame
<1> HIDE DEF fl
<1>5. ASSUME NEW new \in {[fl EXCEPT !.rp = FALSE], [fl EXCEPT !.wp = FALSE]},
             slot' = [slot EXCEPT ![s] = new], UNCHANGED <<waitset, redelivered>>
      PROVE  Stays
  <2>1. new \in Slots /\ Same(fl, new) BY <1>4, FlagsSame
  <2>2. Same(slot[s], new) BY <1>4, <2>1 DEF Same
  <2>3. \A x \in Socks : Same(slot[x], slot'[x]) BY <1>3, <1>5, <2>1, <2>2, FlagsStay
  <2> QED BY <1>3, <1>5, <2>3 DEF Stays
<1>6. CASE Completed(b, Outcome(slot[s].ev, t.r), fl)
  <2> DEFINE op == slot[s].ev.cb
             e == slot[s].ev
             ev == Outcome(e, t.r)
  <2>1. e = Event(op) BY <1>1, <1>3 DEF TypesInv
  <2>2. t.r \in Int BY <1>1, <1>3, TryRange DEF StructInv
  <2>3. ev \in Events /\ ev.cb = op BY <1>3, <2>1, <2>2, OutcomeFields
  <2>4. Reason(s, ev) BY <1>1, <1>2, <1>3, <2>1, AttemptReason
  <2>5. /\ waitset' = SubmitComplete(waitset, ev) /\ redelivered' = redelivered
        /\ slot' = [slot EXCEPT ![s] = [Clear(fl) EXCEPT !.ev = ev]]
    BY <1>6 DEF Completed
  <2> HIDE DEF ev, e
  <2>6. Clears(s, ev) BY <1>1, <1>4, <2>3, <2>5, ServedClears
  <2>7. Ends(s, ev) BY <1>1, <2>5, <2>6 DEF Ends
  <2> QED BY <1>3, <2>3, <2>4, <2>7 DEF StepShape
<1>7. CASE Stays BY <1>7 DEF StepShape
<1> QED BY <1>2, <1>5, <1>6, <1>7

LEMMA DispatchRestShape ==
  ASSUME StructInv, TypesInv, NEW b \in batch,
         DispatchConnect(b) \/ DispatchTimer(b) \/ DispatchSignal(b)
  PROVE  StepShape
<1> DEFINE s == b.sock
           fl == Flagged(b)
           nr == [fl EXCEPT !.rp = FALSE]
<1>1. Served(b) /\ Awaited(b) /\ b.events \cap {"ERR", "HUP"} = {}
      /\ slot[s].type \in {"CONNECT", "TIMETICK", "SIGNAL"}
  BY DEF DispatchConnect, DispatchTimer, DispatchSignal, Edge
<1>2. s \in Socks /\ slot[s].sock /\ slot[s].ev \in Events
  BY <1>1, ServedKeeps
<1>3. /\ slot[s].type \in {"TIMETICK", "SIGNAL"} => "IN" \in b.events
      /\ slot[s].type = "CONNECT" => "OUT" \in b.events /\ "HUP" \notin b.events
  BY <1>1 DEF Awaited, InTypes, OutTypes
<1>4. fl \in Slots /\ Same(slot[s], fl) BY FlaggedSame
<1> HIDE DEF fl
<1>5. nr \in Slots /\ Same(slot[s], nr)
  <2>1. nr \in Slots /\ Same(fl, nr) BY <1>4, FlagsSame
  <2> QED BY <1>4, <2>1 DEF Same
<1> HIDE DEF nr
<1>6. ASSUME NEW ev \in Events, NEW sl \in {fl, nr}, Completed(b, ev, sl),
             ev.cb = slot[s].ev.cb
      PROVE  StepShape
  <2>1. /\ waitset' = SubmitComplete(waitset, ev) /\ redelivered' = redelivered
        /\ slot' = [slot EXCEPT ![s] = [Clear(sl) EXCEPT !.ev = ev]]
    BY <1>6 DEF Completed
  <2>2. Clears(s, ev) BY <1>1, <1>4, <1>5, <1>6, <2>1, ServedClears
  <2>3. Ends(s, ev) BY <1>1, <2>1, <2>2 DEF Ends
  <2>4. Reason(s, ev) BY <1>1, <1>3 DEF Reason, Reported, TransferTypes
  <2> QED BY <1>2, <2>3, <2>4 DEF StepShape
<1>7. CASE DispatchConnect(b)
  <2> DEFINE ev == [slot[s].ev EXCEPT !.status = "COMPLETED"]
  <2>1. Completed(b, ev, fl) BY <1>7 DEF DispatchConnect, fl
  <2>2. ev \in Events /\ ev.cb = slot[s].ev.cb BY <1>2 DEF Events, Statuses
  <2> HIDE DEF ev
  <2> QED BY <1>6, <2>1, <2>2
<1>8. CASE DispatchTimer(b)
  <2> DEFINE ev == [slot[s].ev EXCEPT !.status = "COMPLETED", !.res = 0]
  <2>1. Completed(b, ev, nr) BY <1>8 DEF DispatchTimer, nr, fl
  <2>2. 0 \in Int OBVIOUS
  <2>3. ev \in Events /\ ev.cb = slot[s].ev.cb BY <1>2, <2>2, DoneTyped, Zenon
  <2> HIDE DEF ev
  <2> QED BY <1>6, <2>1, <2>3
<1>9. CASE DispatchSignal(b)
  <2>1. PICK signo \in {0, 1} :
          Completed(b, [slot[s].ev EXCEPT !.status = "COMPLETED", !.res = signo], nr)
    BY <1>9 DEF DispatchSignal, nr, fl
  <2> DEFINE ev == [slot[s].ev EXCEPT !.status = "COMPLETED", !.res = signo]
  <2>2. signo \in Int OBVIOUS
  <2>3. ev \in Events /\ ev.cb = slot[s].ev.cb BY <1>2, <2>2, DoneTyped, Zenon
  <2>4. Completed(b, ev, nr) BY <2>1
  <2> HIDE DEF ev
  <2> QED BY <1>6, <2>3, <2>4
<1> QED BY <1>7, <1>8, <1>9
LEMMA CallsShape == ASSUME StructInv, StartCallback PROVE Calls
<1>1. /\ Scan /\ it = 1 /\ waitset \in Seq(CompletedEvents) /\ pc' = "callback"
      /\ Due(waitset[it])
  BY ScannedIsDue DEF StartCallback, StructInv, LoopInv
<1>2. Called(waitset[1]) BY <1>1 DEF StartCallback
<1>3. waitset # <<>>
  <2>1. 1 \in 1..Len(waitset) BY <1>1 DEF Scan
  <2> QED BY <1>1, <2>1, EmptySeq
<1>4. /\ pc = "scan" /\ UNCHANGED <<waitset, slot, await, waiting, calling, batch, missed>>
  BY DEF StartCallback, Scan
<1>5. it' = it BY <1>1 DEF Scan
<1> QED BY <1>1, <1>2, <1>3, <1>4, <1>5 DEF Calls

LEMMA ReturnsShape == ASSUME StructInv, EndCallback PROVE Returns
<1>1. it = 1 /\ waitset \in Seq(CompletedEvents) /\ waitset # <<>>
  BY DEF EndCallback, Return, StructInv, LoopInv
<1>2. waitset' = Tail(waitset) BY <1>1, EraseFirst DEF EndCallback, Return
<1> QED BY <1>2 DEF Returns, EndCallback, Return, NotHere, userVars

LEMMA StaysShape ==
  ASSUME StructInv,
         \/ StartRun \/ LoopTest \/ StartWait \/ UserEnd \/ Interrupted
         \/ DirectCall \/ Harvest \/ Environment \/ UNCHANGED vars
         \/ \E b \in batch : DispatchNull(b)
  PROVE  Stays
<1>1. it = 1 BY DEF StructInv, LoopInv
<1>2. CASE StartRun \/ LoopTest \/ StartWait \/ UserEnd \/ Interrupted
  BY <1>1, <1>2, SameRefl, SMTT(40) DEF Stays, StartRun, LoopTest, StartWait, UserEnd, Interrupted, Run,
     Enter, EnterWait, End, NotHere, userVars
<1>3. CASE DirectCall
  BY <1>3, SameRefl DEF Stays, DirectCall, SyncTransfer, SyncConnect, SyncAccept, Shutdown,
     Close, loopVars, userVars
<1>4. CASE Harvest BY <1>4, SameRefl DEF Stays, Harvest, userVars
<1>5. CASE Environment
  BY <1>5, SameRefl DEF Stays, Environment, Tick, World, loopVars, userVars
<1>6. CASE UNCHANGED vars BY <1>6, SameRefl DEF Stays, vars
<1>7. CASE \E b \in batch : DispatchNull(b)
  BY <1>7, SameRefl DEF Stays, DispatchNull, userVars
<1> QED BY <1>2, <1>3, <1>4, <1>5, <1>6, <1>7

(* Every step has one of these forms. *)
LEMMA Shapes ==
  ASSUME StructInv, TypesInv, [Next]_vars
  PROVE  \/ Stays
         \/ \E op \in Ops, s \in Socks, type \in Types, t \in Socks \cup {NoSock} :
              Waits(op, s, type, t)
         \/ \E op \in Ops, s \in Socks, ev \in Events :
              /\ Fails(op, s, ev)
              /\ ev.error = 0 => \E o \in ConnectCall(k[s]) : IntResult(o) = 0 /\ k'[s] = o.fd
         \/ \E s \in Socks, ev \in Events : Ends(s, ev) /\ Reason(s, ev)
         \/ \E s \in Socks, ev \in Events : EndsAgain(s, ev)
         \/ Calls
         \/ Returns
<1>1. ASSUME NEW op \in Ops, Submit(op)
      PROVE  \/ \E s \in Socks, type \in Types, t \in Socks \cup {NoSock} :
                  Waits(op, s, type, t)
             \/ \E s \in Socks, ev \in Events :
                  /\ Fails(op, s, ev)
                  /\ ev.error = 0 =>
                       \E o \in ConnectCall(k[s]) : IntResult(o) = 0 /\ k'[s] = o.fd
  <2>1. PICK s \in Socks :
          \/ \E type \in {"READ", "WRITE", "RECVFROM", "SENDTO"} : SubmitTransfer(s, type, op)
          \/ \E t \in Socks : SubmitAccept(s, t, op)
          \/ SubmitConnect(s, op)
          \/ \E zero \in BOOLEAN : SubmitTimer(s, zero, op)
          \/ SubmitSignal(s, op)
    BY <1>1 DEF Submit
  <2>2. {"READ", "WRITE", "RECVFROM", "SENDTO", "ACCEPT", "CONNECT", "TIMETICK", "SIGNAL"}
          \subseteq Types
    BY DEF Types, InTypes, OutTypes
  <2>3. CASE SubmitConnect(s, op) BY <2>2, <2>3, SubmitConnectShape
  <2>4. CASE ~SubmitConnect(s, op)
    <3>1. \E type \in Types, t \in Socks \cup {NoSock} : Waits(op, s, type, t)
      BY <2>1, <2>2, <2>4, SubmitWaits
    <3> QED BY <3>1
  <2> QED BY <2>3, <2>4
<1>2. CASE StartCallback BY <1>2, CallsShape
<1>3. CASE EndCallback BY <1>3, ReturnsShape
<1>4. CASE \/ StartRun \/ LoopTest \/ StartWait \/ UserEnd \/ Interrupted
           \/ DirectCall \/ Harvest \/ Environment \/ UNCHANGED vars
  BY <1>4, StaysShape
<1>5. CASE Tried BY <1>5, TriedShape
<1>6. CASE Dispatch
  <2>1. PICK b \in batch :
          \/ DispatchNull(b) \/ DispatchError(b) \/ DispatchHangup(b) \/ DispatchIdle(b)
          \/ DispatchTransfer(b) \/ DispatchConnect(b) \/ DispatchTimer(b)
          \/ DispatchSignal(b)
    BY <1>6 DEF Dispatch
  <2>2. CASE DispatchNull(b) BY <2>2, StaysShape
  <2>3. CASE DispatchIdle(b) BY <2>3, DispatchIdleShape
  <2>4. CASE StepShape BY <2>4 DEF StepShape
  <2> QED BY <2>1, <2>2, <2>3, <2>4, DispatchErrorShape, DispatchHangupShape,
             DispatchTransferShape, DispatchRestShape
<1> QED BY <1>1, <1>2, <1>3, <1>4, <1>5, <1>6 DEF Next, LoopStep
-----------------------------------------------------------------------------
(* ExactlyOnce as a sum of three terms. *)
Held(op) == \E s \in Socks : op \in PendingIn(s)
Queue(op) == Count(waitset, {op}, Lo)
Balanced(op) ==
  One(Held(op)) + Queue(op) + runs[op] = One(Issued(op) /\ op \notin displaced)
Sums == \A op \in Ops \ redelivered : Balanced(op)

LEMMA PendingWhere ==
  ASSUME StructInv, NEW s \in Socks, NEW op \in PendingIn(s)
  PROVE  op \in Ops /\ await[op].sock = s /\ Issued(op)
<1>1. op \in Ops /\ slot[s].sock /\ slot[s].ev.cb = op BY DEF PendingIn
<1>2. await[op].sock = s BY <1>1 DEF StructInv, SlotInv
<1> QED BY <1>1, <1>2, EpollAssumption DEF Issued, Unissued

LEMMA SumTerms ==
  ASSUME StructInv, NEW op \in Ops
  PROVE  Queue(op) \in Nat /\ runs[op] \in 0..2
         /\ (Queue(op) = 0 <=> \A i \in 1..Len(waitset) : waitset[i].cb = op => i < Lo)
<1>1. waitset \in Seq(CompletedEvents) /\ Len(waitset) \in Nat /\ runs[op] \in 0..2 /\ Lo \in {1, 2}
  BY LenProperties DEF StructInv, TypeOK, LoopInv, Lo
<1>2. Queue(op) \in Nat /\ (Queue(op) = 0 <=> Awaiting(waitset, {op}, Lo) = {})
  BY <1>1, AwaitingFinite DEF Queue
<1>3. Awaiting(waitset, {op}, Lo) = {} <=> \A i \in 1..Len(waitset) : waitset[i].cb = op => i < Lo
  BY <1>1 DEF Awaiting
<1> QED BY <1>1, <1>2, <1>3

LEMMA ExactlyOnceIsSums == StructInv => (ExactlyOnce <=> Sums)
<1> SUFFICES ASSUME StructInv, NEW op \in Ops
             PROVE  /\ Deliveries(op) = One(Held(op)) + Queue(op) + runs[op]
                    /\ One(Issued(op) /\ op \notin displaced)
                         = IF Issued(op) /\ op \notin displaced THEN 1 ELSE 0
  BY DEF ExactlyOnce, Sums, Balanced
<1>1. it = 1 /\ waitset \in Seq(CompletedEvents) /\ Len(waitset) \in Nat
  BY LenProperties DEF StructInv, LoopInv
<1>2. Queued(op) = Awaiting(waitset, {op}, Lo)
  BY <1>1 DEF Queued, Awaiting, Lo
<1> DEFINE S == {s \in Socks : op \in PendingIn(s)}
<1>3. Cardinality(S) = One(Held(op))
  <2>1. CASE Held(op)
    <3>1. PICK s \in Socks : op \in PendingIn(s) BY <2>1 DEF Held
    <3>2. S = {s} BY <3>1, PendingWhere
    <3> QED BY <2>1, <3>2, FS_Singleton DEF One
  <2>2. CASE ~Held(op)
    <3>1. S = {} BY <2>2 DEF Held
    <3> QED BY <2>2, <3>1, FS_EmptySet DEF One
  <2> QED BY <2>1, <2>2
<1> QED BY <1>2, <1>3 DEF Deliveries, Queue, Count, One

LEMMA ExactlyOnceNext == StructInv' => (ExactlyOnce' <=> Sums')
  BY ExactlyOnceIsSums, PTL

LEMMA HeldElsewhere ==
  ASSUME StructInv, NEW s \in Socks, \A x \in Socks : x # s => slot'[x] = slot[x],
         NEW op \in Ops, op \notin PendingIn(s)'
  PROVE  Held(op)' <=> Held(op) /\ op \notin PendingIn(s)
<1>1. \A x \in Socks : x # s => PendingIn(x)' = PendingIn(x) BY DEF PendingIn
<1>2. \A x \in Socks : op \in PendingIn(s) /\ op \in PendingIn(x) => x = s BY PendingWhere
<1> QED BY <1>1, <1>2 DEF Held

(* A new operation is nowhere. *)
LEMMA NewIsNowhere ==
  ASSUME DeliveryInv, NEW op \in Ops, ~Issued(op)
  PROVE  /\ ~Held(op) /\ op \notin displaced /\ op \notin redelivered
         /\ Queue(op) = 0 /\ runs[op] = 0
<1>1. StructInv /\ IssuedInv /\ Sums BY ExactlyOnceIsSums DEF DeliveryInv
<1>2. ~Held(op) BY <1>1, PendingWhere DEF Held
<1>3. op \notin displaced /\ op \notin redelivered BY <1>1 DEF IssuedInv
<1>4. Queue(op) \in Nat /\ runs[op] \in 0..2 BY <1>1, SumTerms
<1>5. Queue(op) + runs[op] = 0 BY <1>1, <1>2, <1>3, <1>4 DEF Sums, Balanced, One
<1> QED BY <1>2, <1>3, <1>4, <1>5
LEMMA QueueGrows ==
  ASSUME StructInv, NEW ev \in Events, ev.cb \in Ops, NEW q \in Ops,
         waitset' = SubmitComplete(waitset, ev), pc' = "callback" <=> pc = "callback"
  PROVE  Queue(q)' = Queue(q) + One(ev.cb = q)
<1>1. /\ waitset \in Seq(CompletedEvents) /\ Lo \in {1, 2}
      /\ Lo = 2 => waitset # <<>>
  BY DEF StructInv, LoopInv, Lo
<1>2. Lo' = Lo BY DEF Lo
<1>3. Count(SubmitComplete(waitset, ev), {q}, Lo)
        = Count(waitset, {q}, Lo) + One(ev.cb \in {q})
  BY <1>1, CountAppended
<1>4. One(ev.cb \in {q}) = One(ev.cb = q) BY DEF One
<1> QED BY <1>2, <1>3, <1>4 DEF Queue

LEMMA StaysBalanced ==
  ASSUME DeliveryInv, Stays PROVE TypesInv' /\ IssuedInv' /\ Sums'
<1>1. StructInv /\ TypesInv /\ IssuedInv /\ Sums BY ExactlyOnceIsSums DEF DeliveryInv
<1>2. \A s \in Socks : PendingIn(s)' = PendingIn(s) BY DEF Stays, Same, PendingIn
<1>3. \A q \in Ops : Issued(q)' <=> Issued(q) BY DEF Stays, Issued
<1>4. \A q \in Ops : Queue(q)' = Queue(q) /\ (Held(q)' <=> Held(q))
  BY <1>2 DEF Stays, Queue, Lo, Held
<1>5. Sums' BY <1>1, <1>3, <1>4 DEF Sums, Balanced, Stays, One
<1>6. TypesInv' BY <1>1 DEF TypesInv, Stays, Same, Issued
<1>7. IssuedInv' BY <1>1 DEF IssuedInv, Stays, Issued
<1> QED BY <1>5, <1>6, <1>7

LEMMA ListIssued ==
  ASSUME StructInv, IssuedInv, NEW ev \in Events, ev.cb \in Ops,
         waitset' = SubmitComplete(waitset, ev), Issued(ev.cb)',
         \A q \in Ops : Issued(q) => Issued(q)'
  PROVE  \A i \in 1..Len(waitset') : await'[waitset'[i].cb] # Unissued
<1>1. /\ Len(waitset') = Len(waitset) + 1 /\ Len(waitset) \in Nat
      /\ \A i \in 1..Len(waitset) : waitset'[i] = waitset[i]
      /\ waitset'[Len(waitset) + 1].cb = ev.cb
  BY SubmitCompleteElements, LenProperties DEF StructInv, LoopInv
<1>2. \A i \in 1..Len(waitset) : waitset[i].cb \in Ops
  BY CallbacksTyped, ElementOfSeq DEF StructInv, LoopInv, CompletedEvents
<1> SUFFICES ASSUME NEW i \in 1..Len(waitset') PROVE await'[waitset'[i].cb] # Unissued
  OBVIOUS
<1>3. CASE i = Len(waitset) + 1 BY <1>1, <1>3 DEF Issued
<1>4. CASE i # Len(waitset) + 1
  <2>1. i \in 1..Len(waitset) BY <1>1, <1>4
  <2>2. Issued(waitset[i].cb) /\ waitset'[i] = waitset[i] BY <1>1, <2>1 DEF IssuedInv
  <2> QED BY <1>2, <2>1, <2>2 DEF Issued
<1> QED BY <1>3, <1>4

(* What a Submit call does to the operations that are there. *)
LEMMA BeginsBalanced ==
  ASSUME DeliveryInv, NEW op \in Ops, NEW s \in Socks, NEW type, NEW target,
         Begins(op, s, type, target), op \notin PendingIn(s)' \/ PendingIn(s)' = {op},
         PendingIn(s)' \subseteq {op},
         NEW q \in Ops \ redelivered, q # op,
         Queue(q)' = Queue(q)
  PROVE  Balanced(q)'
<1>1. StructInv /\ TypesInv /\ IssuedInv /\ Sums BY ExactlyOnceIsSums DEF DeliveryInv
<1>2. /\ Started(op, type, s, target) /\ displaced' = displaced \cup PendingIn(s)
      /\ runs' = runs /\ \A x \in Socks : x # s => slot'[x] = slot[x]
  BY DEF Begins
<1>3. Issued(q)' <=> Issued(q) BY <1>1, <1>2, StartedIssued
<1>4. Held(q)' <=> Held(q) /\ q \notin PendingIn(s) BY <1>1, <1>2, HeldElsewhere
<1>5. Balanced(q) /\ Queue(q) \in Nat /\ runs[q] \in 0..2 BY <1>1, SumTerms DEF Sums
<1>6. CASE q \in PendingIn(s)
  <2>1. Held(q) BY <1>6 DEF Held
  <2>2. Queue(q) = 0 /\ runs[q] = 0 BY <1>5, <2>1 DEF Balanced, One
  <2> QED BY <1>2, <1>3, <1>4, <1>6, <2>2 DEF Balanced, One
<1>7. CASE q \notin PendingIn(s)
  BY <1>2, <1>3, <1>4, <1>5, <1>7 DEF Balanced, One
<1> QED BY <1>6, <1>7

LEMMA BeginsTypes ==
  ASSUME DeliveryInv, NEW op \in Ops, NEW s \in Socks, NEW type, NEW target,
         Begins(op, s, type, target),
         slot'[s].sock /\ slot'[s].type # "NOOP" =>
           slot'[s].type = type /\ slot'[s].ev = Event(op)
  PROVE  TypesInv'
<1>1. StructInv /\ TypesInv BY DEF DeliveryInv
<1>2. Started(op, type, s, target) /\ \A x \in Socks : x # s => slot'[x] = slot[x]
  BY DEF Begins
<1>3. /\ await'[op] = [type |-> type, sock |-> s, target |-> target]
      /\ \A q \in Ops : q # op => await'[q] = await[q] /\ (Issued(q)' <=> Issued(q))
  BY <1>1, <1>2, StartedIssued
<1>4. Event(op).cb = op BY EventTyped
<1>5. await[op] = Unissued BY DEF Begins, MayStart
<1>6. ASSUME NEW x \in Socks, slot'[x].sock, slot'[x].type # "NOOP"
      PROVE  /\ await'[slot'[x].ev.cb].type = slot'[x].type
             /\ slot'[x].ev = Event(slot'[x].ev.cb)
  <2>1. CASE x = s BY <1>3, <1>4, <1>6, <2>1
  <2>2. CASE x # s
    <3>1. slot'[x] = slot[x] BY <1>2, <2>2
    <3>2. slot[x].ev.cb \in Ops /\ slot[x].ev.cb # op
      BY <1>1, <1>5, <1>6, <3>1, UnissuedIsFree DEF StructInv, SlotInv
    <3> QED BY <1>1, <1>3, <1>6, <3>1, <3>2 DEF TypesInv
  <2> QED BY <2>1, <2>2
<1>7. ASSUME NEW q \in Ops, Issued(q)'
      PROVE  Fits(Kind[await'[q].sock], await'[q].type)
  BY <1>1, <1>3, <1>7 DEF TypesInv, Begins
<1> QED BY <1>6, <1>7 DEF TypesInv
LEMMA WaitsBalanced ==
  ASSUME DeliveryInv, NEW op \in Ops, NEW s \in Socks, NEW type \in Types,
         NEW t \in Socks \cup {NoSock}, Waits(op, s, type, t)
  PROVE  TypesInv' /\ IssuedInv' /\ Sums'
<1>1. StructInv /\ TypesInv /\ IssuedInv /\ Sums BY ExactlyOnceIsSums DEF DeliveryInv
<1>2. /\ Begins(op, s, type, t)
      /\ slot'[s].sock /\ slot'[s].type = type /\ slot'[s].ev = Event(op)
      /\ waitset' = waitset /\ type # "NOOP"
  BY DEF Waits, Begins
<1>3. /\ Started(op, type, s, t) /\ displaced' = displaced \cup PendingIn(s)
      /\ UNCHANGED <<runs, pc, redelivered>>
      /\ \A x \in Socks : x # s => slot'[x] = slot[x]
      /\ ~Issued(op)
  BY <1>2 DEF Begins, MayStart, Issued
<1>4. Event(op).cb = op BY EventTyped
<1>5. PendingIn(s)' = {op} BY <1>2, <1>4 DEF PendingIn
<1>6. \A q \in Ops : Queue(q)' = Queue(q) BY <1>2, <1>3 DEF Queue, Lo
<1>7. Issued(op)' /\ \A q \in Ops : q # op => (Issued(q)' <=> Issued(q))
  BY <1>1, <1>3, StartedIssued
<1>8. Sums'
  <2> SUFFICES ASSUME NEW q \in Ops \ redelivered PROVE Balanced(q)'
    BY <1>3 DEF Sums
  <2>1. CASE q = op
    <3>1. Held(op)' BY <1>5 DEF Held
    <3>2. /\ ~Held(op) /\ op \notin displaced /\ Queue(op) = 0 /\ runs[op] = 0
      BY <1>3, NewIsNowhere
    <3>3. op \notin PendingIn(s) BY <1>1, <1>3, PendingWhere
    <3> QED BY <1>3, <1>6, <1>7, <2>1, <3>1, <3>2, <3>3 DEF Balanced, One
  <2>2. CASE q # op BY <1>2, <1>5, <1>6, <2>2, BeginsBalanced
  <2> QED BY <2>1, <2>2
<1>9. TypesInv' BY <1>2, BeginsTypes
<1>10. IssuedInv'
  <2>1. \A i \in 1..Len(waitset) : waitset[i].cb \in Ops
    BY <1>1, CallbacksTyped, ElementOfSeq DEF StructInv, LoopInv, CompletedEvents
  <2>2. \A q \in Ops : Issued(q) => Issued(q)' BY <1>7
  <2>3. \A i \in 1..Len(waitset') : await'[waitset'[i].cb] # Unissued
    BY <1>1, <1>2, <2>1, <2>2 DEF IssuedInv, Issued
  <2>4. \A q \in displaced' \cup redelivered' : q \in Ops /\ Issued(q)
    BY <1>1, <1>3, PendingWhere DEF IssuedInv, StructInv, TypeOK
  <2> QED BY <2>2, <2>3, <2>4 DEF IssuedInv, Issued
<1> QED BY <1>8, <1>9, <1>10

LEMMA FailsBalanced ==
  ASSUME DeliveryInv, NEW op \in Ops, NEW s \in Socks, NEW ev \in Events, Fails(op, s, ev)
  PROVE  TypesInv' /\ IssuedInv' /\ Sums'
<1>1. StructInv /\ TypesInv /\ IssuedInv /\ Sums BY ExactlyOnceIsSums DEF DeliveryInv
<1>2. /\ Begins(op, s, "CONNECT", NoSock) /\ slot'[s].type = "NOOP"
      /\ ev.cb = op /\ waitset' = SubmitComplete(waitset, ev)
  BY DEF Fails
<1>3. /\ Started(op, "CONNECT", s, NoSock) /\ displaced' = displaced \cup PendingIn(s)
      /\ UNCHANGED <<runs, pc, redelivered>>
      /\ \A x \in Socks : x # s => slot'[x] = slot[x]
      /\ ~Issued(op)
  BY <1>2 DEF Begins, MayStart, Issued
<1>5. PendingIn(s)' = {} BY <1>2 DEF PendingIn
<1>6. \A q \in Ops : Queue(q)' = Queue(q) + One(op = q)
  BY <1>1, <1>2, <1>3, QueueGrows
<1>7. Issued(op)' /\ \A q \in Ops : q # op => (Issued(q)' <=> Issued(q))
  BY <1>1, <1>3, StartedIssued
<1>8. Sums'
  <2> SUFFICES ASSUME NEW q \in Ops \ redelivered PROVE Balanced(q)'
    BY <1>3 DEF Sums
  <2>1. CASE q = op
    <3>1. /\ ~Held(op) /\ op \notin displaced /\ Queue(op) = 0 /\ runs[op] = 0
      BY <1>3, NewIsNowhere
    <3>2. ~Held(op)' BY <1>1, <1>3, <1>5, <3>1, HeldElsewhere
    <3>3. op \notin PendingIn(s) BY <1>1, <1>3, PendingWhere
    <3>4. Queue(op)' = 1 BY <1>6, <3>1 DEF One
    <3> QED BY <1>3, <1>7, <2>1, <3>1, <3>2, <3>3, <3>4 DEF Balanced, One
  <2>2. CASE q # op
    <3>1. Queue(q)' = Queue(q) BY <1>1, <1>6, <2>2, SumTerms DEF One
    <3> QED BY <1>2, <1>5, <2>2, <3>1, BeginsBalanced
  <2> QED BY <2>1, <2>2
<1>9. TypesInv' BY <1>2, BeginsTypes
<1>10. IssuedInv'
  <2>2. \A q \in Ops : Issued(q) => Issued(q)' BY <1>7
  <2>3. \A i \in 1..Len(waitset') : await'[waitset'[i].cb] # Unissued
    BY <1>1, <1>2, <1>7, <2>2, ListIssued
  <2>4. \A q \in displaced' \cup redelivered' : q \in Ops /\ Issued(q)
    BY <1>1, <1>3, PendingWhere DEF IssuedInv, StructInv, TypeOK
  <2> QED BY <2>2, <2>3, <2>4 DEF IssuedInv, Issued
<1> QED BY <1>8, <1>9, <1>10

LEMMA ClearsBalanced ==
  ASSUME DeliveryInv, NEW s \in Socks, NEW ev \in Events, Ends(s, ev) \/ EndsAgain(s, ev)
  PROVE  TypesInv' /\ IssuedInv' /\ Sums'
<1> DEFINE op == slot[s].ev.cb
<1>1. StructInv /\ TypesInv /\ IssuedInv /\ Sums BY ExactlyOnceIsSums DEF DeliveryInv
<1>2. Clears(s, ev) BY DEF Ends, EndsAgain
<1>3. /\ slot[s].sock /\ slot'[s].sock /\ slot'[s].type = "NOOP"
      /\ \A x \in Socks : x # s => slot'[x] = slot[x]
      /\ ev.cb = op /\ waitset' = SubmitComplete(waitset, ev)
      /\ (pc' = "callback" <=> pc = "callback")
      /\ UNCHANGED <<await, runs, displaced>>
  BY <1>2 DEF Clears
<1>4. op \in Ops /\ await[op].sock = s BY <1>1, <1>3 DEF StructInv, SlotInv
<1>5. Issued(op) BY <1>4, EpollAssumption DEF Issued, Unissued
<1>6. /\ slot[s].type # "NOOP" => PendingIn(s) = {op} /\ redelivered' = redelivered
      /\ slot[s].type = "NOOP" => PendingIn(s) = {} /\ redelivered' = redelivered \cup {op}
  BY <1>3, <1>4 DEF Ends, EndsAgain, PendingIn
<1> HIDE DEF op
<1>7. PendingIn(s)' = {} BY <1>3 DEF PendingIn
<1>8. \A q \in Ops : Queue(q)' = Queue(q) + One(op = q)
  BY <1>1, <1>3, <1>4, QueueGrows
<1>9. \A q \in Ops : Held(q)' <=> Held(q) /\ q \notin PendingIn(s)
  BY <1>1, <1>3, <1>7, HeldElsewhere
<1>10. \A q \in Ops : Issued(q)' <=> Issued(q) BY <1>3 DEF Issued
<1>11. Sums'
  <2> SUFFICES ASSUME NEW q \in Ops \ redelivered' PROVE Balanced(q)'
    BY DEF Sums
  <2>1. Balanced(q) /\ Queue(q) \in Nat /\ runs[q] \in 0..2
    BY <1>1, <1>6, SumTerms DEF Sums
  <2>2. CASE q = op
    <3>1. PendingIn(s) = {op} BY <1>6, <2>2
    <3>2. Held(q) /\ ~Held(q)' BY <1>4, <1>9, <2>2, <3>1 DEF Held
    <3>3. Queue(q)' = Queue(q) + 1 BY <1>8, <2>2 DEF One
    <3> QED BY <1>3, <1>10, <2>1, <3>2, <3>3 DEF Balanced, One
  <2>3. CASE q # op
    <3>1. q \notin PendingIn(s) BY <1>6, <2>3
    <3>2. Queue(q)' = Queue(q) BY <1>8, <2>1, <2>3 DEF One
    <3> QED BY <1>3, <1>9, <1>10, <2>1, <3>1, <3>2 DEF Balanced, One
  <2> QED BY <2>2, <2>3
<1>12. TypesInv'
  <2>1. \A x \in Socks : slot'[x].sock /\ slot'[x].type # "NOOP" => slot'[x] = slot[x]
    BY <1>3
  <2> QED BY <1>1, <1>3, <2>1 DEF TypesInv, Issued
<1>13. IssuedInv'
  <2>1. \A i \in 1..Len(waitset') : await'[waitset'[i].cb] # Unissued
    BY <1>1, <1>3, <1>4, <1>5, <1>10, ListIssued
  <2>2. \A q \in displaced' \cup redelivered' : q \in Ops /\ Issued(q)
    BY <1>1, <1>3, <1>4, <1>5, <1>6 DEF IssuedInv, StructInv, TypeOK
  <2> QED BY <1>10, <2>1, <2>2 DEF IssuedInv, Issued
<1> QED BY <1>11, <1>12, <1>13
LEMMA CallsBalanced ==
  ASSUME DeliveryInv, Calls PROVE TypesInv' /\ IssuedInv' /\ Sums'
<1> DEFINE ev == waitset[1]
           op == waitset[1].cb
           c == Callee(waitset[1])
<1>1. StructInv /\ TypesInv /\ IssuedInv /\ Sums BY ExactlyOnceIsSums DEF DeliveryInv
<1>2. /\ pc = "scan" /\ pc' = "callback" /\ waitset # <<>> /\ waitset' = waitset
      /\ slot' = slot /\ await' = await
      /\ runs' = [runs EXCEPT ![c] = IF @ = 2 THEN 2 ELSE @ + 1]
      /\ IF c = op THEN displaced' = displaced /\ redelivered' = redelivered
         ELSE displaced' = displaced \cup {op} /\ redelivered' = redelivered \cup {c}
  BY DEF Calls, Called
<1>3. waitset \in Seq(CompletedEvents) /\ it = 1 BY <1>1 DEF StructInv, LoopInv
<1>4. 1 \in 1..Len(waitset) BY <1>2, <1>3, EmptySeq
<1>5. op \in Ops /\ Issued(op)
  <2>1. waitset[1] \in CompletedEvents BY <1>3, <1>4, ElementOfSeq
  <2>2. Issued(op) BY <1>1, <1>4 DEF IssuedInv
  <2> QED BY <2>1, <2>2 DEF CompletedEvents
<1>6. c \in Ops BY <1>1, <1>5 DEF Callee, StructInv, AwaitInv
<1>7. Issued(c)
  BY <1>1, <1>5 DEF Callee, StructInv, AwaitInv, Issued, Unissued
<1> HIDE DEF op, c
<1>8. \A q \in Ops : Queue(q) = Queue(q)' + One(q = op)
  <2> SUFFICES ASSUME NEW q \in Ops PROVE Queue(q) = Queue(q)' + One(q = op)
    OBVIOUS
  <2>1. Count(waitset, {q}, 1) = Count(waitset, {q}, 2) + One(waitset[1].cb \in {q})
    BY <1>2, <1>3, CountCalled
  <2>2. One(waitset[1].cb \in {q}) = One(q = op) BY DEF One, op
  <2> QED BY <1>2, <2>1, <2>2 DEF Queue, Lo
<1>9. \A q \in Ops : Queue(q)' \in Nat
  BY <1>2, <1>3, AwaitingFinite DEF Queue, Lo
<1>10. \A q \in Ops : (Held(q)' <=> Held(q)) /\ (Issued(q)' <=> Issued(q))
  BY <1>2 DEF Held, PendingIn, Issued
<1>11. runs \in [Ops -> 0..2] BY <1>1 DEF StructInv, TypeOK
<1>12. Sums'
  <2> SUFFICES ASSUME NEW q \in Ops \ redelivered' PROVE Balanced(q)'
    BY DEF Sums
  <2>1. q \in Ops \ redelivered BY <1>2
  <2>2. Balanced(q) /\ runs[q] \in 0..2 BY <1>1, <1>11, <2>1 DEF Sums
  <2>3. CASE q = op
    <3>1. Queue(q) = Queue(q)' + 1 BY <1>8, <2>3 DEF One
    <3>2. Issued(q) /\ q \notin displaced /\ Queue(q)' = 0 /\ runs[q] = 0 /\ ~Held(q)
      BY <1>9, <2>2, <3>1 DEF Balanced, One
    <3>3. CASE c = op
      BY <1>2, <1>10, <1>11, <2>3, <3>2, <3>3 DEF Balanced, One
    <3>4. CASE c # op
      BY <1>2, <1>10, <1>11, <2>3, <3>2, <3>4 DEF Balanced, One
    <3> QED BY <3>3, <3>4
  <2>4. CASE q # op
    <3>1. Queue(q) = Queue(q)' BY <1>8, <1>9, <2>4 DEF One
    <3>2. runs'[q] = runs[q] BY <1>2, <1>11, <2>4
    <3>3. q \in displaced' <=> q \in displaced BY <1>2, <2>4
    <3> QED BY <1>10, <2>2, <3>1, <3>2, <3>3 DEF Balanced, One
  <2> QED BY <2>3, <2>4
<1>13. TypesInv' BY <1>1, <1>2 DEF TypesInv, Issued
<1>14. IssuedInv' BY <1>1, <1>2, <1>5, <1>7 DEF IssuedInv, Issued
<1> QED BY <1>12, <1>13, <1>14

LEMMA ReturnsBalanced ==
  ASSUME DeliveryInv, Returns PROVE TypesInv' /\ IssuedInv' /\ Sums'
<1>1. StructInv /\ TypesInv /\ IssuedInv /\ Sums BY ExactlyOnceIsSums DEF DeliveryInv
<1>2. /\ pc = "callback" /\ pc' = "scan" /\ waitset' = Tail(waitset)
      /\ UNCHANGED <<slot, await, runs, displaced, redelivered>>
  BY DEF Returns
<1>3. waitset \in Seq(CompletedEvents) /\ waitset # <<>>
  BY <1>1, <1>2 DEF StructInv, LoopInv
<1>4. \A q \in Ops : Queue(q)' = Queue(q)
  BY <1>2, <1>3, CountErased DEF Queue, Lo
<1>5. \A q \in Ops : (Held(q)' <=> Held(q)) /\ (Issued(q)' <=> Issued(q))
  BY <1>2 DEF Held, PendingIn, Issued
<1>6. Sums' BY <1>1, <1>2, <1>4, <1>5 DEF Sums, Balanced, One
<1>7. TypesInv' BY <1>1, <1>2 DEF TypesInv, Issued
<1>8. \A i \in 1..Len(waitset') : waitset'[i] = waitset[i + 1] /\ i + 1 \in 1..Len(waitset)
  BY <1>2, <1>3, HeadTailProperties, EmptySeq
<1>9. IssuedInv' BY <1>1, <1>2, <1>8 DEF IssuedInv, Issued
<1> QED BY <1>6, <1>7, <1>9

LEMMA InitDelivery == Init => DeliveryInv
<1> SUFFICES ASSUME Init PROVE DeliveryInv
  OBVIOUS
<1>1. StructInv BY InitStruct
<1>2. TypesInv BY DEF Init, TypesInv, NewSlot, Issued
<1>3. waitset = <<>> /\ pc = "setup" BY DEF Init, LoopInit
<1>4. IssuedInv BY <1>3 DEF Init, IssuedInv
<1>5. ASSUME NEW q \in Ops PROVE Balanced(q)
  <2>1. ~Held(q) BY DEF Init, Held, PendingIn, NewSlot
  <2>2. Queue(q) = 0 BY <1>3, CountEmpty DEF Queue, Lo
  <2>3. ~Issued(q) /\ runs[q] = 0 BY DEF Init, Issued
  <2> QED BY <2>1, <2>2, <2>3 DEF Balanced, One
<1>6. ExactlyOnce BY <1>1, <1>5, ExactlyOnceIsSums DEF Sums
<1> QED BY <1>1, <1>2, <1>4, <1>6 DEF DeliveryInv

LEMMA NextDelivery == DeliveryInv /\ [Next]_vars => DeliveryInv'
<1> SUFFICES ASSUME DeliveryInv, [Next]_vars PROVE DeliveryInv'
  OBVIOUS
<1>1. StructInv /\ TypesInv BY DEF DeliveryInv
<1>2. StructInv' BY <1>1, NextStruct
<1>3. TypesInv' /\ IssuedInv' /\ Sums'
  BY <1>1, Shapes, StaysBalanced, WaitsBalanced, FailsBalanced, ClearsBalanced,
     CallsBalanced, ReturnsBalanced
<1> QED BY <1>2, <1>3, ExactlyOnceNext DEF DeliveryInv

(* Every operation is in exactly one place from its Submit call to its     *)
(* callback, unless another displaced it or EPOLLERR delivers it again     *)
(* (epollimpl.h:24, 46, 84, 172-176; context.h:36-56).                     *)
THEOREM DeliveredOnce == Spec => []ExactlyOnce
<1>1. Spec => []DeliveryInv BY InitDelivery, NextDelivery, PTL DEF Spec
<1>2. DeliveryInv => ExactlyOnce BY DEF DeliveryInv
<1> QED BY <1>1, <1>2, PTL
-----------------------------------------------------------------------------
(* What a step does to descriptors.                                        *)
Descends(x) ==
  /\ k'[x] \in Fds
  /\ Keeps(Kind[x], k[x], k'[x])
  /\ x \notin Fresh /\ (k[x].reg => k[x].nb) => (k'[x].reg => k'[x].nb)
  /\ pc = "dispatch" /\ Kind[x] = "TIMER" /\ (k[x].in > 0 => ~k[x].armed)
       => k'[x].in >= k[x].in

Still(x) == k'[x].open = k[x].open /\ k'[x].reg = k[x].reg

LEMMA AlikeDescends ==
  ASSUME TypeOK, NEW x \in Socks, NEW fd \in Fds, k'[x] = fd,
         Keeps(Kind[x], k[x], fd), Alike(k[x], fd), Kind[x] # "TIMER" \/ pc # "dispatch"
  PROVE  Descends(x) /\ Still(x)
  BY DEF Descends, Still, Alike

LEMMA SameDescends ==
  ASSUME TypeOK, NEW x \in Socks, k'[x] = k[x] PROVE Descends(x) /\ Still(x)
<1>1. k[x] \in Fds /\ k[x].in \in Int BY Bounds DEF TypeOK, Fds
<1> QED BY <1>1, KeepsSelf DEF Descends, Still

(* A Try... call. *)
LEMMA TryDescends ==
  ASSUME StructInv, NEW s \in Socks, slot[s].sock, NEW type, type = slot[s].type,
         type \in InTypes \cup OutTypes,
         NEW t \in Try(s, type), k' = KernelAfter(s, type, t)
  PROVE  /\ \A x \in Socks : Descends(x)
         /\ \A x \in Fresh : Still(x) \/ (type = "ACCEPT" /\ t.r = 0 /\ x = slot[s].data)
<1>1. TypeOK /\ k[s] \in Fds BY DEF StructInv, TypeOK
<1>2. Fits(Kind[s], type) /\ (type = "ACCEPT" => slot[s].data \in Fresh)
  BY DEF StructInv, SlotInv
<1>3. /\ type \in {"READ", "RECVFROM"} => Kind[s] \in {"TCP", "UDP"}
      /\ type \in OutTypes => Kind[s] \in {"TCP", "UDP"}
      /\ type = "ACCEPT" => Kind[s] = "LISTENER"
  BY <1>2 DEF Fits, OutTypes
<1>4. t.fd \in Fds /\ Keeps(Kind[s], k[s], t.fd) /\ Alike(k[s], t.fd)
  <2>1. CASE type \in {"READ", "RECVFROM"}
    <3>1. PICK o \in RecvMsg(Kind[s], k[s]) : t = [r |-> SizeResult(o), fd |-> o.fd]
      BY <2>1 DEF Try, OutTypes
    <3>2. o \in Outcomes BY <1>1, RecvMsgTyped
    <3>3. t.fd = o.fd /\ o.fd \in Fds BY <3>1, <3>2 DEF Outcomes
    <3> QED BY <1>1, <1>3, <2>1, <3>3, RecvMsgKeeps
  <2>2. CASE type \in OutTypes
    <3>1. PICK o \in SendMsg(k[s]) : t = [r |-> SizeResult(o), fd |-> o.fd]
      BY <2>2 DEF Try, OutTypes
    <3>2. o \in Outcomes BY <1>1, SendMsgTyped
    <3>3. t.fd = o.fd /\ o.fd \in Fds BY <3>1, <3>2 DEF Outcomes
    <3> QED BY <1>1, <1>3, <2>2, <3>3, SendMsgKeeps
  <2>3. CASE type = "ACCEPT"
    <3>1. PICK o \in AcceptCall(k[s]) : t = [r |-> IntResult(o), fd |-> o.fd]
      BY <2>3 DEF Try, OutTypes
    <3>2. o \in Outcomes BY <1>1, AcceptCallTyped
    <3>3. t.fd = o.fd /\ o.fd \in Fds BY <3>1, <3>2 DEF Outcomes
    <3> QED BY <1>1, <1>3, <2>3, <3>3, AcceptCallKeeps
  <2> QED BY <2>1, <2>2, <2>3 DEF InTypes
<1>5. Kind[s] # "TIMER" BY <1>3 DEF InTypes
<1>6. k'[s] = t.fd BY DEF KernelAfter
<1>7. Descends(s) /\ Still(s) BY <1>1, <1>4, <1>5, <1>6, AlikeDescends
<1>8. ASSUME NEW x \in Socks, x # s
      PROVE  \/ Descends(x) /\ Still(x)
             \/ Descends(x) /\ type = "ACCEPT" /\ t.r = 0 /\ x = slot[s].data
  <2>1. CASE type = "ACCEPT" /\ t.r = 0 /\ x = slot[s].data
    <3>1. k'[x] = AcceptedFd BY <1>8, <2>1 DEF KernelAfter
    <3>2. x \in Fresh /\ Kind[x] = "TCP" BY <1>2, <2>1, EpollAssumption
    <3>3. Keeps(Kind[x], k[x], AcceptedFd) BY <1>1, <3>2, NewKeeps DEF TypeOK
    <3> QED BY <2>1, <3>1, <3>2, <3>3, AcceptedFdTyped DEF Descends
  <2>2. CASE ~(type = "ACCEPT" /\ t.r = 0 /\ x = slot[s].data)
    <3>1. k'[x] = k[x] BY <1>8, <2>2 DEF KernelAfter
    <3> QED BY <1>1, <3>1, SameDescends
  <2> QED BY <2>1, <2>2
<1> QED BY <1>7, <1>8, FreshAreSocks

LEMMA SubmitDescends ==
  ASSUME StructInv, NEW op \in Ops, Submit(op)
  PROVE  (\A x \in Socks : Descends(x)) /\ (\A x \in Fresh : Still(x))
<1>1. TypeOK BY DEF StructInv
<1>2. PICK s \in Socks :
        \/ k' = k
        \/ SubmitConnect(s, op)
        \/ \E zero \in BOOLEAN : SubmitTimer(s, zero, op)
        \/ SubmitSignal(s, op)
  BY DEF Submit, SubmitTransfer, SubmitAccept
<1>3. pc # "dispatch" BY DEF Submit, SubmitTransfer, SubmitAccept, SubmitConnect, SubmitTimer,
                           SubmitSignal, MayStart, InUser
<1>4. k[s] \in Fds /\ k \in [Socks -> Fds] BY <1>1 DEF TypeOK
<1>5. ASSUME NEW fd \in Fds, k' = [k EXCEPT ![s] = fd], Keeps(Kind[s], k[s], fd),
             Alike(k[s], fd) \/ (Kind[s] = "SIGNALFD" /\ fd.nb)
      PROVE  (\A x \in Socks : Descends(x)) /\ (\A x \in Fresh : Still(x))
  <2>1. k'[s] = fd /\ \A x \in Socks : x # s => k'[x] = k[x] BY <1>4, <1>5
  <2>2. \A x \in Socks : x # s => Descends(x) /\ Still(x) BY <1>1, <2>1, SameDescends
  <2>3. CASE Alike(k[s], fd)
    <3>1. Descends(s) /\ Still(s) BY <1>1, <1>3, <1>5, <2>1, <2>3, AlikeDescends
    <3> QED BY <2>2, <3>1, FreshAreSocks
  <2>4. CASE Kind[s] = "SIGNALFD" /\ fd.nb
    <3>1. Descends(s) BY <1>3, <1>5, <2>1, <2>4 DEF Descends
    <3>2. s \notin Fresh BY <2>4, EpollAssumption
    <3> QED BY <2>2, <3>1, <3>2, FreshAreSocks
  <2> QED BY <1>5, <2>3, <2>4
<1>6. CASE k' = k BY <1>1, <1>6, SameDescends, FreshAreSocks
<1>7. CASE SubmitConnect(s, op)
  <2>1. PICK o \in ConnectCall(k[s]) : k' = [k EXCEPT ![s] = o.fd]
    BY <1>7 DEF SubmitConnect
  <2>2. Kind[s] = "TCP" BY <1>7 DEF SubmitConnect
  <2>3. o.fd \in Fds /\ Keeps("TCP", k[s], o.fd) /\ Alike(k[s], o.fd)
    BY <1>4, ConnectCallKeeps, ConnectCallTyped DEF Outcomes
  <2> QED BY <1>5, <2>1, <2>2, <2>3
<1>8. CASE \E zero \in BOOLEAN : SubmitTimer(s, zero, op)
  <2>1. PICK zero \in BOOLEAN : k' = [k EXCEPT ![s] = SetTime(k[s], zero)]
    BY <1>8 DEF SubmitTimer
  <2>2. Kind[s] = "TIMER" BY <1>8 DEF SubmitTimer
  <2> QED BY <1>4, <1>5, <2>1, <2>2, SetTimeKeeps, SetTimeTyped
<1>9. CASE SubmitSignal(s, op)
  <2> DEFINE f == [ClosedFd EXCEPT !.open = TRUE, !.nb = TRUE, !.in = k[s].in]
             new == EpollAdd("SIGNALFD", f)
  <2>1. k' = [k EXCEPT ![s] = new] /\ Kind[s] = "SIGNALFD" BY <1>9 DEF SubmitSignal
  <2>2. /\ f \in Fds /\ f.nb /\ f.in = k[s].in /\ f.conn = "est" /\ ~f.err /\ ~f.eof
        /\ ~f.armed
    BY <1>4, ClosedFdTyped, ZenonT(40) DEF Fds, ClosedFd
  <2> HIDE DEF f
  <2>3. /\ new \in Fds /\ new.nb /\ new.in = f.in /\ new.conn = "est" /\ ~new.err /\ ~new.eof
        /\ ~new.armed
    BY <2>2, EpollAddTyped, ZenonT(40) DEF EpollAdd, Fds
  <2> HIDE DEF new
  <2>4. new.in >= k[s].in BY <1>4, <2>2, <2>3, Bounds DEF Fds
  <2>5. Keeps("SIGNALFD", k[s], new) BY <2>2, <2>3, <2>4 DEF Keeps, Calm
  <2> QED BY <1>5, <2>1, <2>3, <2>5
<1> QED BY <1>2, <1>6, <1>7, <1>8, <1>9
(* A call that goes past the slot: a socket the program closes, or one that *)
(* SyncAccept fills, is the only one whose descriptor comes or goes.        *)
LEMMA DirectDescends ==
  ASSUME StructInv, DirectCall
  PROVE  /\ \A x \in Socks : Descends(x)
         /\ \A x \in Fresh : \/ Still(x)
                             \/ FreeTarget(x)
                             \/ k[x].reg /\ ~k'[x].open /\ ~k'[x].reg
<1>1. TypeOK /\ k \in [Socks -> Fds] BY DEF StructInv, TypeOK
<1>2. PICK s \in Socks :
        \/ SyncTransfer(s)
        \/ SyncConnect(s)
        \/ \E t \in Socks : SyncAccept(s, t)
        \/ \E r \in BOOLEAN, w \in BOOLEAN : Shutdown(s, r, w)
        \/ Close(s)
  BY DEF DirectCall
<1>3. pc # "dispatch" /\ k[s] \in Fds
  BY <1>1 DEF DirectCall, SyncTransfer, SyncConnect, SyncAccept, Shutdown, Close, InUser
<1>4. ASSUME NEW fd \in Fds, k' = [k EXCEPT ![s] = fd], Keeps(Kind[s], k[s], fd)
      PROVE  /\ k'[s] = fd
             /\ Alike(k[s], fd) => Descends(s) /\ Still(s)
             /\ ~fd.reg => Descends(s)
             /\ \A x \in Socks : x # s => Descends(x) /\ Still(x)
  <2>1. k'[s] = fd /\ \A x \in Socks : x # s => k'[x] = k[x] BY <1>1, <1>4
  <2>2. \A x \in Socks : x # s => Descends(x) /\ Still(x) BY <1>1, <2>1, SameDescends
  <2>3. Alike(k[s], fd) => Descends(s) /\ Still(s)
    BY <1>1, <1>3, <1>4, <2>1, AlikeDescends
  <2>4. ~fd.reg => Descends(s) BY <1>3, <1>4, <2>1 DEF Descends
  <2> QED BY <2>1, <2>2, <2>3, <2>4
<1>5. ASSUME NEW fd \in Fds, k' = [k EXCEPT ![s] = fd], Keeps(Kind[s], k[s], fd),
             Alike(k[s], fd)
      PROVE  (\A x \in Socks : Descends(x)) /\ (\A x \in Fresh : Still(x))
  BY <1>4, <1>5, FreshAreSocks
<1>6. CASE SyncTransfer(s)
  <2>1. PICK o \in RecvMsg(Kind[s], k[s]) \cup SendMsg(k[s]) : k' = [k EXCEPT ![s] = o.fd]
    BY <1>6 DEF SyncTransfer
  <2>2. Kind[s] \in {"TCP", "UDP"} BY <1>6 DEF SyncTransfer
  <2>3. Keeps(Kind[s], k[s], o.fd) /\ Alike(k[s], o.fd)
    BY <1>3, <2>2, RecvMsgKeeps, SendMsgKeeps
  <2>4. o.fd \in Fds BY <1>3, RecvMsgTyped, SendMsgTyped DEF Outcomes
  <2> QED BY <1>5, <2>1, <2>3, <2>4
<1>7. CASE SyncConnect(s)
  <2>1. PICK o \in ConnectCall(k[s]) : k' = [k EXCEPT ![s] = o.fd]
    BY <1>7 DEF SyncConnect
  <2>2. Kind[s] = "TCP" BY <1>7 DEF SyncConnect
  <2>3. o.fd \in Fds /\ Keeps(Kind[s], k[s], o.fd) /\ Alike(k[s], o.fd)
    BY <1>3, <2>2, ConnectCallKeeps, ConnectCallTyped DEF Outcomes
  <2> QED BY <1>5, <2>1, <2>3
<1>8. ASSUME NEW t \in Socks, SyncAccept(s, t)
      PROVE  (\A x \in Socks : Descends(x)) /\ (\A x \in Fresh : Still(x) \/ FreeTarget(x))
  <2>1. Kind[s] = "LISTENER" /\ FreeTarget(t) /\ t \in Fresh
    BY <1>8 DEF SyncAccept, FreeTarget
  <2>2. PICK o \in AcceptCall(k[s]) :
          k' = IF IntResult(o) = 0
               THEN [k EXCEPT ![s] = o.fd, ![t] = EpollAdd("TCP", AcceptedFd)]
               ELSE [k EXCEPT ![s] = o.fd]
    BY <1>8 DEF SyncAccept
  <2>3. o.fd \in Fds /\ Keeps(Kind[s], k[s], o.fd) /\ Alike(k[s], o.fd)
    BY <1>3, <2>1, AcceptCallKeeps, AcceptCallTyped DEF Outcomes
  <2>4. CASE k' = [k EXCEPT ![s] = o.fd] BY <1>5, <2>3, <2>4
  <2>5. CASE k' = [k EXCEPT ![s] = o.fd, ![t] = EpollAdd("TCP", AcceptedFd)]
    <3> DEFINE new == EpollAdd("TCP", AcceptedFd)
    <3>1. Kind[t] = "TCP" /\ t # s BY <2>1, EpollAssumption
    <3>2. /\ k'[s] = o.fd /\ k'[t] = new
          /\ \A x \in Socks : x # s /\ x # t => k'[x] = k[x]
      BY <1>1, <2>5, <3>1
    <3>3. \A x \in Socks : x # s /\ x # t => Descends(x) /\ Still(x)
      BY <1>1, <3>2, SameDescends
    <3>4. Descends(s) /\ Still(s) BY <1>1, <1>3, <2>3, <3>2, AlikeDescends
    <3>5. new \in Fds /\ Keeps("TCP", AcceptedFd, new)
      BY AcceptedFdTyped, EpollAddTyped, PolledKeeps
    <3>7. AcceptedFd.conn = "est" /\ ~AcceptedFd.err /\ ~AcceptedFd.armed
      <4>1. ClosedFd.conn = "est" /\ ~ClosedFd.err /\ ~ClosedFd.armed BY DEF ClosedFd
      <4> QED BY <4>1, ClosedFdTyped DEF AcceptedFd, Fds
    <3>8. new.conn = "est" /\ ~new.err /\ ~new.armed
      BY <3>7, AcceptedFdTyped DEF EpollAdd, Fds
    <3> HIDE DEF new
    <3>9. Keeps("TCP", k[t], new) BY <3>8 DEF Keeps, CalmKinds, Settled, Won, Refusal
    <3>10. Descends(t) BY <2>1, <3>1, <3>2, <3>5, <3>9 DEF Descends
    <3> QED BY <2>1, <3>3, <3>4, <3>10, FreshAreSocks
  <2> QED BY <2>2, <2>4, <2>5
<1>9. ASSUME NEW r \in BOOLEAN, NEW w \in BOOLEAN, Shutdown(s, r, w)
      PROVE  (\A x \in Socks : Descends(x)) /\ (\A x \in Fresh : Still(x))
  <2> DEFINE f == [k[s] EXCEPT !.eof = @ \/ r, !.shutW = @ \/ w]
             new == Wake(f)
  <2>1. k' = [k EXCEPT ![s] = new] /\ Kind[s] = "TCP" /\ k[s].conn = "est"
    BY <1>9 DEF Shutdown
  <2>2. /\ f \in Fds /\ f.err = k[s].err /\ f.conn = k[s].conn /\ f.armed = k[s].armed
        /\ f.open = k[s].open /\ f.reg = k[s].reg /\ f.nb = k[s].nb
    BY <1>3 DEF Fds
  <2> HIDE DEF f
  <2>3. /\ new \in Fds /\ new.err = f.err /\ new.conn = f.conn /\ new.armed = f.armed
        /\ new.open = f.open /\ new.reg = f.reg /\ new.nb = f.nb
    BY <2>2, WakeTyped DEF Wake, Fds
  <2> HIDE DEF new
  <2>4. Keeps("TCP", k[s], new) /\ Alike(k[s], new)
    BY <2>1, <2>2, <2>3 DEF Keeps, CalmKinds, Settled, Won, Refusal, Alike
  <2> QED BY <1>5, <2>1, <2>3, <2>4
<1>10. CASE Close(s)
  <2>1. k' = [k EXCEPT ![s] = ClosedFd] /\ Kind[s] \in {"TCP", "UDP", "LISTENER"} /\ k[s].reg
    BY <1>10 DEF Close
  <2>2. Keeps(Kind[s], k[s], ClosedFd) BY <1>3, <2>1, NewKeeps
  <2>3. ~ClosedFd.open /\ ~ClosedFd.reg BY DEF ClosedFd
  <2>4. /\ k'[s] = ClosedFd /\ Descends(s)
        /\ \A x \in Socks : x # s => Descends(x) /\ Still(x)
    BY <1>4, <2>1, <2>2, <2>3, ClosedFdTyped
  <2> QED BY <2>1, <2>3, <2>4, FreshAreSocks
<1> QED BY <1>2, <1>6, <1>7, <1>8, <1>9, <1>10

(* Steps of the loop, and the environment. *)
LEMMA QuietDescends ==
  ASSUME TypeOK,
         \/ StartRun \/ LoopTest \/ StartWait \/ UserEnd \/ Interrupted \/ EndCallback
         \/ UNCHANGED vars
         \/ \E b \in batch : \/ DispatchNull(b) \/ DispatchError(b) \/ DispatchHangup(b)
                             \/ DispatchIdle(b) \/ DispatchConnect(b) \/ DispatchTimer(b)
  PROVE  (\A x \in Socks : Descends(x)) /\ (\A x \in Fresh : Still(x))
<1>1. k' = k
  BY DEF StartRun, LoopTest, StartWait, UserEnd, Interrupted, EndCallback, NotHere, vars,
     DispatchNull, DispatchError, DispatchHangup, DispatchIdle, DispatchConnect, DispatchTimer
<1> QED BY <1>1, SameDescends, FreshAreSocks

LEMMA HarvestDescends ==
  ASSUME TypeOK, Harvest
  PROVE  (\A x \in Socks : Descends(x)) /\ (\A x \in Fresh : Still(x))
<1>1. ASSUME NEW x \in Socks PROVE Descends(x) /\ Still(x)
  <2>1. pc # "dispatch" /\ (k'[x] = k[x] \/ k'[x] = [k[x] EXCEPT !.ready = FALSE])
    BY DEF Harvest
  <2>2. k[x] \in Fds BY DEF TypeOK
  <2>3. CASE k'[x] = k[x] BY <2>3, SameDescends
  <2>4. CASE k'[x] = [k[x] EXCEPT !.ready = FALSE]
    <3> DEFINE fd == [k[x] EXCEPT !.ready = FALSE]
    <3>1. /\ fd \in Fds /\ fd.err = k[x].err /\ fd.conn = k[x].conn /\ fd.eof = k[x].eof
          /\ fd.shutW = k[x].shutW /\ fd.in = k[x].in /\ fd.armed = k[x].armed /\ Alike(k[x], fd)
      BY <2>2 DEF Fds, Alike
    <3>2. k'[x] = fd BY <2>4
    <3> HIDE DEF fd
    <3>3. Keeps(Kind[x], k[x], fd) BY <2>2, <3>1, KeepsState
    <3> QED BY <2>1, <3>1, <3>2, <3>3, AlikeDescends
  <2> QED BY <2>1, <2>3, <2>4
<1> QED BY <1>1, FreshAreSocks

LEMMA SignalDescends ==
  ASSUME StructInv, NEW b \in batch, DispatchSignal(b)
  PROVE  (\A x \in Socks : Descends(x)) /\ (\A x \in Fresh : Still(x))
<1> DEFINE s == b.sock
<1>1. TypeOK /\ k \in [Socks -> Fds] BY DEF StructInv, TypeOK
<1>2. /\ k' = [k EXCEPT ![s] = EpollDel(k[s])] /\ Served(b) /\ slot[s].type = "SIGNAL"
      /\ slot[s].sock
  BY DEF DispatchSignal, Edge, Served
<1>3. s \in Socks /\ Kind[s] = "SIGNALFD"
  BY <1>2, ServedKeeps DEF StructInv, SlotInv, Fits
<1>4. k[s] \in Fds /\ k'[s] = EpollDel(k[s]) /\ \A x \in Socks : x # s => k'[x] = k[x]
  BY <1>1, <1>2, <1>3
<1>5. \A x \in Socks : x # s => Descends(x) /\ Still(x) BY <1>1, <1>4, SameDescends
<1>6. ~EpollDel(k[s]).reg BY <1>4 DEF EpollDel, Fds
<1>7. Keeps(Kind[s], k[s], EpollDel(k[s])) BY <1>4, PolledKeeps
<1>8. Descends(s) BY <1>3, <1>4, <1>6, <1>7, EpollDelTyped DEF Descends
<1>9. s \notin Fresh BY <1>3, EpollAssumption
<1> QED BY <1>5, <1>8, <1>9, FreshAreSocks

LEMMA WorldDescends ==
  ASSUME TypeOK, Environment
  PROVE  /\ \A x \in Socks : Descends(x) /\ Still(x)
         /\ UNCHANGED <<waitset, it, pc, slot, await, waiting, calling, batch, runs,
                        displaced, redelivered>>
<1>1. PICK s \in Socks :
        \/ World(s, Arrive(Kind[s], k[s]))
        \/ World(s, PeerFin(Kind[s], k[s]))
        \/ World(s, PeerReset(Kind[s], k[s]))
        \/ World(s, IcmpError(Kind[s], k[s]))
        \/ World(s, Established(k[s]))
        \/ World(s, Drain(Kind[s], k[s]))
        \/ World(s, Expire(k[s]))
  BY DEF Environment, Tick
<1>2. PICK fd \in Arrive(Kind[s], k[s]) \cup PeerFin(Kind[s], k[s]) \cup PeerReset(Kind[s], k[s])
                    \cup IcmpError(Kind[s], k[s]) \cup Established(k[s])
                    \cup Drain(Kind[s], k[s]) \cup Expire(k[s]) :
        k' = [k EXCEPT ![s] = fd]
  BY <1>1 DEF World
<1>3. UNCHANGED <<waitset, it, pc, slot, await, waiting, calling, batch, runs,
                  displaced, redelivered>>
  BY <1>1 DEF World, loopVars, userVars
<1>4. k[s] \in Fds /\ k \in [Socks -> Fds] /\ Kind[s] \in Kinds
  BY EpollAssumption DEF TypeOK
<1>5. Happens(Kind[s], k[s], fd) BY <1>2, <1>4, HappensHere
<1>6. fd \in Fds
  BY <1>2, <1>4, ArriveWakes, PeerFinWakes, PeerResetWakes, IcmpErrorWakes, EstablishedWakes,
     DrainWakes, ExpireWakes DEF Woken
<1>7. k'[s] = fd /\ \A x \in Socks : x # s => k'[x] = k[x] BY <1>2, <1>4
<1>8. Descends(s) /\ Still(s)
  BY <1>5, <1>6, <1>7 DEF Happens, Descends, Still, Alike
<1> QED BY <1>3, <1>7, <1>8, SameDescends
LEMMA CallsDescends ==
  ASSUME StructInv, Calls
  PROVE  /\ \A x \in Socks : Descends(x)
         /\ \A x \in Fresh :
              /\ k'[x].open = k[x].open
              /\ \/ Still(x)
                 \/ LET a == await[Callee(waitset[1])]
                    IN a.type = "ACCEPT" /\ x = a.target /\ waitset[1].error = 0
<1> DEFINE a == await[Callee(waitset[1])]
           ok == a.type = "ACCEPT" /\ waitset[1].error = 0
           t == a.target
           new == EpollAdd("TCP", k[t])
<1>1. TypeOK /\ k \in [Socks -> Fds] BY DEF StructInv, TypeOK
<1>2. k' = (IF ok THEN [k EXCEPT ![t] = new] ELSE k) /\ pc # "dispatch"
  BY DEF Calls, Called, Resumed
<1>3. waitset[1] \in CompletedEvents
  <2>1. waitset \in Seq(CompletedEvents) /\ waitset # <<>>
    BY DEF StructInv, LoopInv, Calls
  <2>2. 1 \in 1..Len(waitset) BY <2>1, EmptySeq
  <2> QED BY <2>1, <2>2, ElementOfSeq
<1>4. Callee(waitset[1]) \in Ops
  BY <1>3 DEF Callee, StructInv, AwaitInv, CompletedEvents
<1>5. ok => t \in Fresh BY <1>4 DEF StructInv, AwaitInv
<1> HIDE DEF a, t
<1>6. CASE ~ok BY <1>1, <1>2, <1>6, SameDescends, FreshAreSocks DEF Still
<1>7. CASE ok
  <2>1. t \in Fresh /\ t \in Socks /\ Kind[t] = "TCP" /\ k[t] \in Fds
    BY <1>1, <1>5, <1>7, EpollAssumption
  <2>2. /\ new \in Fds /\ Keeps("TCP", k[t], new) /\ new.open = k[t].open
    BY <2>1, EpollAddTyped, PolledKeeps
  <2> HIDE DEF new
  <2>3. k'[t] = new /\ \A x \in Socks : x # t => k'[x] = k[x] BY <1>1, <1>2, <1>7, <2>1
  <2>4. Descends(t) BY <1>2, <2>1, <2>2, <2>3 DEF Descends
  <2>5. \A x \in Socks : x # t => Descends(x) /\ Still(x) BY <1>1, <2>3, SameDescends
  <2>6. \A x \in Fresh : x # t => k'[x].open = k[x].open /\ Still(x)
    BY <2>5, FreshAreSocks DEF Still
  <2>7. k'[t].open = k[t].open BY <2>2, <2>3
  <2> QED BY <1>7, <2>4, <2>5, <2>6, <2>7 DEF a, t
<1> QED BY <1>6, <1>7

LEMMA TriedDescends ==
  ASSUME StructInv, Tried PROVE \A x \in Socks : Descends(x)
<1> DEFINE s == await[calling].sock
<1>1. /\ s \in Socks /\ slot[s].sock /\ slot[s].type = await[calling].type
      /\ slot[s].type \in InTypes \cup OutTypes
  BY DEF Tried, StructInv, CallingInv
<1>2. \E t \in Try(s, slot[s].type) : k' = KernelAfter(s, slot[s].type, t)
  BY <1>1 DEF Tried
<1> HIDE DEF s
<1> QED BY <1>1, <1>2, TryDescends

LEMMA TransferDescends ==
  ASSUME StructInv, NEW b \in batch, DispatchTransfer(b) PROVE \A x \in Socks : Descends(x)
<1> DEFINE s == b.sock
<1>1. Served(b) /\ slot[s].type \in InTypes \cup OutTypes BY DEF DispatchTransfer, Edge
<1>2. s \in Socks /\ slot[s].sock BY <1>1, ServedKeeps
<1>3. \E t \in Try(s, slot[s].type) : k' = KernelAfter(s, slot[s].type, t)
  BY DEF DispatchTransfer
<1> HIDE DEF s
<1> QED BY <1>1, <1>2, <1>3, TryDescends

LEMMA NextDescends ==
  ASSUME StructInv, [Next]_vars PROVE \A x \in Socks : Descends(x)
<1>1. TypeOK BY DEF StructInv
<1>2. CASE \E op \in Ops : Submit(op) BY <1>2, SubmitDescends
<1>3. CASE DirectCall BY <1>3, DirectDescends
<1>4. CASE \/ StartRun \/ LoopTest \/ StartWait \/ UserEnd \/ Interrupted \/ EndCallback
           \/ UNCHANGED vars
  BY <1>1, <1>4, QuietDescends
<1>5. CASE StartCallback BY <1>5, CallsShape, CallsDescends
<1>6. CASE Harvest BY <1>1, <1>6, HarvestDescends
<1>7. CASE Tried BY <1>7, TriedDescends
<1>8. CASE Environment BY <1>1, <1>8, WorldDescends
<1>9. CASE Dispatch
  <2>1. PICK b \in batch :
          \/ DispatchNull(b) \/ DispatchError(b) \/ DispatchHangup(b) \/ DispatchIdle(b)
          \/ DispatchTransfer(b) \/ DispatchConnect(b) \/ DispatchTimer(b)
          \/ DispatchSignal(b)
    BY <1>9 DEF Dispatch
  <2>2. CASE DispatchTransfer(b) BY <2>2, TransferDescends
  <2>3. CASE DispatchSignal(b) BY <2>3, SignalDescends
  <2>4. CASE \/ DispatchNull(b) \/ DispatchError(b) \/ DispatchHangup(b)
             \/ DispatchIdle(b) \/ DispatchConnect(b) \/ DispatchTimer(b)
    BY <1>1, <2>4, QuietDescends
  <2> QED BY <2>1, <2>2, <2>3, <2>4
<1> QED BY <1>2, <1>3, <1>4, <1>5, <1>6, <1>7, <1>8, <1>9 DEF Next, LoopStep

(* What is left to dispatch was reported by epoll_wait. *)
LEMMA BatchMoves ==
  ASSUME StructInv, [Next]_vars
  PROVE  \/ Harvest
         \/ batch' \subseteq batch /\ (batch' # {} => pc = "dispatch")
<1>1. batch # {} => pc = "dispatch" BY DEF StructInv, BatchInv
<1>2. CASE \/ \E op \in Ops : Submit(op)
           \/ DirectCall \/ StartRun \/ LoopTest \/ StartWait \/ UserEnd \/ Interrupted
           \/ EndCallback \/ StartCallback \/ Tried \/ UNCHANGED vars
  <2>1. CASE \E op \in Ops : Submit(op)
    BY <1>1, <2>1, SMTT(40) DEF Submit, SubmitTransfer, SubmitAccept, SubmitConnect, SubmitTimer,
       SubmitSignal
  <2>2. CASE DirectCall
    BY <1>1, <2>2 DEF DirectCall, SyncTransfer, SyncConnect, SyncAccept, Shutdown, Close
  <2>3. CASE StartRun \/ LoopTest \/ StartWait \/ UserEnd \/ Interrupted \/ EndCallback
    BY <1>1, <2>3 DEF StartRun, LoopTest, StartWait, UserEnd, Interrupted, EndCallback,
       NotHere
  <2>4. CASE StartCallback \/ Tried \/ UNCHANGED vars
    BY <1>1, <2>4 DEF StartCallback, Tried, vars
  <2> QED BY <1>2, <2>1, <2>2, <2>3, <2>4
<1>3. CASE Environment
  <2>1. batch' = batch BY <1>3, WorldDescends DEF StructInv
  <2> QED BY <1>1, <2>1
<1>4. CASE Dispatch
  <2>1. batch' \subseteq batch
    BY <1>4, ZenonT(40) DEF Dispatch, DispatchNull, DispatchError, DispatchHangup, DispatchIdle,
       DispatchTransfer, DispatchConnect, DispatchTimer, DispatchSignal, Edge, Served
  <2> QED BY <1>1, <2>1, SMTT(40)
<1> QED BY <1>2, <1>3, <1>4 DEF Next, LoopStep
LEMMA HarvestEvents ==
  ASSUME TypeOK, Harvest, NEW b \in batch'
  PROVE  /\ b.sock \in Socks /\ b.events = Mask(Kind[b.sock], k[b.sock])
         /\ k[b.sock] \in Fds
         /\ k'[b.sock].in = k[b.sock].in /\ k'[b.sock].err = k[b.sock].err
         /\ k'[b.sock].conn = k[b.sock].conn
<1>1. PICK s \in Socks : b = [sock |-> s, events |-> Mask(Kind[s], k[s])]
  BY DEF Harvest, Ready
<1>2. b.sock = s /\ b.events = Mask(Kind[s], k[s]) BY <1>1
<1>3. k[s] \in Fds BY DEF TypeOK
<1>4. k'[s] = k[s] \/ k'[s] = [k[s] EXCEPT !.ready = FALSE] BY DEF Harvest
<1>5. k'[s].in = k[s].in /\ k'[s].err = k[s].err /\ k'[s].conn = k[s].conn
  BY <1>3, <1>4 DEF Fds
<1> QED BY <1>2, <1>3, <1>5

(* A descriptor as a constructor leaves it. *)
LEMMA NewFdState ==
  ASSUME Init, NEW s \in Socks
  PROVE  /\ k[s].conn \in {"idle", "est"} /\ (Kind[s] # "TCP" => k[s].conn = "est")
         /\ k[s].in = 0 /\ ~k[s].err /\ ~k[s].eof /\ ~k[s].armed
         /\ k[s].reg => k[s].nb
<1>1. k[s] = ClosedFd \/ k[s] = NewFd(Kind[s]) BY DEF Init
<1>2. CASE k[s] = ClosedFd BY <1>2 DEF ClosedFd
<1>3. CASE k[s] = NewFd(Kind[s])
  <2> DEFINE c == IF Kind[s] = "TCP" THEN "idle" ELSE "est"
             r == Kind[s] \in {"TCP", "UDP"}
             f == [ClosedFd EXCEPT !.open = TRUE, !.nb = TRUE, !.conn = c, !.room = r]
  <2>1. k[s] = EpollAdd(Kind[s], f) BY <1>3 DEF NewFd
  <2>2. c \in {"idle", "est"} /\ (Kind[s] # "TCP" => c = "est") /\ r \in BOOLEAN OBVIOUS
  <2> HIDE DEF c, r
  <2>3. ClosedFd \in Fds /\ ~ClosedFd.err /\ ~ClosedFd.eof /\ ~ClosedFd.armed /\ ClosedFd.in = 0
    BY ClosedFdTyped DEF ClosedFd
  <2>4. f.conn = c /\ f.nb /\ ~f.err /\ ~f.eof /\ ~f.armed /\ f.in = 0
    BY <2>3 DEF Fds
  <2>5. f \in Fds BY <2>2, <2>3 DEF Fds, Conns
  <2>6. \E p \in BOOLEAN : k[s] = f \/ k[s] = [f EXCEPT !.reg = TRUE, !.ready = p]
    BY <2>1 DEF EpollAdd
  <2> HIDE DEF f
  <2>7. /\ k[s].conn = f.conn /\ k[s].nb = f.nb /\ k[s].err = f.err /\ k[s].eof = f.eof
        /\ k[s].armed = f.armed /\ k[s].in = f.in
    BY <2>5, <2>6 DEF Fds
  <2> QED BY <2>2, <2>4, <2>7
<1> QED BY <1>1, <1>2, <1>3

LEMMA InitCalm == Init => CalmInv
<1> SUFFICES ASSUME Init PROVE CalmInv
  OBVIOUS
<1>1. batch = {} BY DEF Init
<1>2. \A s \in Socks : Kind[s] \in CalmKinds => Calm(k[s])
  BY NewFdState DEF CalmKinds, Calm
<1>3. \A s \in Socks : ~k[s].armed BY NewFdState
<1> QED BY <1>1, <1>2, <1>3 DEF CalmInv

LEMMA NextCalm == ASSUME StructInv, CalmInv, [Next]_vars PROVE CalmInv'
<1>1. \A x \in Socks : Descends(x) BY NextDescends
<1>2. TypeOK BY DEF StructInv
<1>3. \A s \in Socks : Kind[s] \in CalmKinds => Calm(k'[s])
  BY <1>1 DEF CalmInv, Descends, Keeps
<1>4. \A s \in Socks : Kind[s] # "TIMER" \/ k'[s].in > 0 => ~k'[s].armed
  BY <1>1 DEF CalmInv, Descends, Keeps
<1>5. ASSUME NEW b \in batch', Kind[b.sock] \in CalmKinds
      PROVE  /\ b.events \subseteq {"IN"}
             /\ Kind[b.sock] \in {"TIMER", "SIGNALFD"} /\ "IN" \in b.events => k'[b.sock].in > 0
  <2>1. CASE Harvest
    <3>1. /\ b.sock \in Socks /\ b.events = Mask(Kind[b.sock], k[b.sock])
          /\ k[b.sock] \in Fds /\ k'[b.sock].in = k[b.sock].in
      BY <1>2, <2>1, HarvestEvents
    <3>2. Calm(k[b.sock]) BY <1>5, <3>1 DEF CalmInv
    <3>3. Kind[b.sock] \notin {"TCP", "UDP"} BY <1>5 DEF CalmKinds
    <3>4. b.events \subseteq {"IN"} BY <3>1, <3>2, <3>3 DEF Mask, Calm
    <3>5. "IN" \in b.events => k[b.sock].in > 0 BY <3>1, <3>2 DEF Mask, Calm
    <3> QED BY <3>1, <3>4, <3>5
  <2>2. CASE batch' \subseteq batch /\ pc = "dispatch"
    <3>1. b \in batch /\ b.sock \in Socks BY <1>2, <2>2 DEF TypeOK, Polled
    <3>2. k[b.sock] \in Fds /\ k'[b.sock] \in Fds BY <1>1, <1>2, <3>1 DEF TypeOK, Descends
    <3>3. k[b.sock].in \in Int /\ k'[b.sock].in \in Int BY <3>2, Bounds DEF Fds
    <3>4. Kind[b.sock] \in {"TIMER", "SIGNALFD"} => k'[b.sock].in >= k[b.sock].in
      BY <1>1, <2>2, <3>1 DEF CalmInv, Descends, Keeps
    <3> QED BY <1>5, <3>1, <3>3, <3>4 DEF CalmInv
  <2> QED BY <1>5, <2>1, <2>2, BatchMoves
<1>6. CalmInv'
  <2>1. \A b \in batch' : Kind[b.sock] \in CalmKinds => b.events \subseteq {"IN"} BY <1>5
  <2>2. \A b \in batch' :
          Kind[b.sock] \in {"TIMER", "SIGNALFD"} /\ "IN" \in b.events => k'[b.sock].in > 0
    BY <1>5 DEF CalmKinds
  <2> QED BY <1>3, <1>4, <2>1, <2>2 DEF CalmInv
<1> QED BY <1>6

LEMMA InitFaultless == Init => FaultlessInv
<1> SUFFICES ASSUME Init PROVE FaultlessInv
  OBVIOUS
<1>1. \A s \in Socks : ~k[s].err BY NewFdState
<1> QED BY <1>1 DEF Init, FaultlessInv

LEMMA NextFaultless == ASSUME StructInv, FaultlessInv, [Next]_vars PROVE FaultlessInv'
<1>1. TypeOK BY DEF StructInv
<1> SUFFICES ASSUME Faults \cap {"RST", "ICMP"} = {}
             PROVE  (\A s \in Socks : ~k'[s].err) /\ \A b \in batch' : "ERR" \notin b.events
  BY DEF FaultlessInv
<1>2. \A s \in Socks : ~k[s].err BY DEF FaultlessInv
<1>3. \A s \in Socks : ~k'[s].err BY <1>2, NextDescends DEF Descends, Keeps
<1>4. ASSUME NEW b \in batch' PROVE "ERR" \notin b.events
  <2>1. CASE Harvest BY <1>1, <1>2, <2>1, HarvestEvents DEF Mask
  <2>2. CASE batch' \subseteq batch BY <2>2 DEF FaultlessInv
  <2> QED BY <2>1, <2>2, BatchMoves
<1> QED BY <1>3, <1>4

-----------------------------------------------------------------------------
(* Timers and signals.                                                     *)
LEMMA EndedByEdge ==
  ASSUME DeliveryInv, CalmInv, [Next]_vars, NEW s \in Socks,
         Kind[s] \in {"TIMER", "SIGNALFD"}, slot[s].type \in {"TIMETICK", "SIGNAL"},
         slot'[s].type = "NOOP"
  PROVE  k[s].in > 0
<1>1. StructInv /\ TypesInv BY DEF DeliveryInv
<1>2. ~Stays BY DEF Stays, Same
<1>3. ~Calls /\ ~Returns BY DEF Calls, Returns
<1>4. ASSUME NEW op \in Ops, NEW x \in Socks, NEW type, NEW t, Waits(op, x, type, t)
      PROVE  FALSE
  BY <1>4 DEF Waits, Begins
<1>5. ASSUME NEW op \in Ops, NEW x \in Socks, NEW ev, Fails(op, x, ev) PROVE FALSE
  <2>1. slot'[s] = slot[s] \/ x = s BY <1>5 DEF Fails, Begins, Fits
  <2>2. Kind[x] = "TCP" BY <1>5 DEF Fails, Begins, Fits
  <2> QED BY <2>1, <2>2
<1>6. ASSUME NEW x \in Socks, NEW ev, EndsAgain(x, ev) PROVE FALSE
  BY <1>6 DEF EndsAgain, Clears
<1>7. PICK x \in Socks, ev \in Events : Ends(x, ev) /\ Reason(x, ev)
  BY <1>1, <1>2, <1>3, <1>4, <1>5, <1>6, Shapes
<1>8. x = s BY <1>7 DEF Ends, Clears
<1>9. PICK b \in batch : b.sock = s /\ b.events \cap {"IN", "ERR"} # {}
  BY <1>7, <1>8 DEF Reason, Reported
<1> QED BY <1>9 DEF CalmInv, CalmKinds

LEMMA NextSignalStays ==
  ASSUME DeliveryInv, CalmInv, [Next]_vars, NEW s \in Socks, Kind[s] = "SIGNALFD"
  PROVE  /\ slot[s].type = "SIGNAL" /\ slot'[s].type = "NOOP" => k[s].in > 0
         /\ k'[s].in >= k[s].in
<1>1. k'[s].in >= k[s].in
  <2>1. StructInv /\ ~k[s].armed BY DEF DeliveryInv, CalmInv
  <2> QED BY <2>1, NextDescends DEF Descends, Keeps
<1> QED BY <1>1, EndedByEdge
-----------------------------------------------------------------------------
(* Timers.  A step sets the time, leaves the slot without an operation,    *)
(* or keeps the operation of the slot and every sign of a tick.            *)
TickStep(s) ==
  /\ k'[s].reg
  /\ \/ k'[s].in = 0
     \/ PendingIn(s)' = {}
     \/ /\ PendingIn(s)' = PendingIn(s)
        /\ \/ pc' = "crashed"
           \/ k'[s].ready
           \/ \E b \in batch' : b.sock = s /\ "IN" \in b.events
           \/ /\ k'[s] = k[s] /\ pc # "crashed"
              /\ \A b \in batch : b.sock = s /\ "IN" \in b.events => b \in batch'

LEMMA TickSame ==
  ASSUME NEW s \in Socks, k[s].reg, k'[s] = k[s], Same(slot[s], slot'[s]), pc # "crashed",
         \A b \in batch : b.sock = s /\ "IN" \in b.events => b \in batch'
  PROVE  TickStep(s)
<1>1. PendingIn(s)' = PendingIn(s) BY DEF PendingIn, Same
<1> QED BY <1>1 DEF TickStep

LEMMA TimerSlot ==
  ASSUME StructInv, NEW s \in Socks, Kind[s] = "TIMER"
  PROVE  /\ s \notin Fresh
         /\ slot[s].sock => slot[s].type \in {"TIMETICK", "NOOP"}
<1>1. s \notin Fresh BY EpollAssumption
<1>2. ASSUME slot[s].sock PROVE slot[s].type \in {"TIMETICK", "NOOP"}
  <2>1. Fits("TIMER", slot[s].type) /\ slot[s].type \in Types
    BY <1>2 DEF StructInv, SlotInv, TypeOK, Slots
  <2> QED BY <2>1 DEF Fits, Types, InTypes, OutTypes
<1> QED BY <1>1, <1>2

LEMMA SubmitTicks ==
  ASSUME StructInv, NEW op \in Ops, Submit(op), NEW s \in Socks, Kind[s] = "TIMER", k[s].reg
  PROVE  TickStep(s)
<1>1. slot \in [Socks -> Slots] /\ k \in [Socks -> Fds] BY DEF StructInv, TypeOK
<1>2. PICK x \in Socks :
        \/ \E type \in {"READ", "WRITE", "RECVFROM", "SENDTO"} : SubmitTransfer(x, type, op)
        \/ \E t \in Socks : SubmitAccept(x, t, op)
        \/ SubmitConnect(x, op)
        \/ \E zero \in BOOLEAN : SubmitTimer(x, zero, op)
        \/ SubmitSignal(x, op)
  BY DEF Submit
<1>3. pc # "crashed" /\ batch' = batch
  BY <1>2 DEF SubmitTransfer, SubmitAccept, SubmitConnect, SubmitTimer, SubmitSignal, MayStart,
     InUser
<1>4. x # s => k'[s] = k[s] /\ slot'[s] = slot[s]
  BY <1>1, <1>2 DEF SubmitTransfer, SubmitAccept, SubmitConnect, SubmitTimer, SubmitSignal
<1>5. CASE x # s BY <1>3, <1>4, <1>5, SameRefl, TickSame
<1>6. CASE x = s
  <2>1. \E zero \in BOOLEAN : SubmitTimer(s, zero, op)
    BY <1>2, <1>6 DEF SubmitTransfer, Transfers, SubmitAccept, SubmitConnect, SubmitSignal
  <2>2. PICK zero \in BOOLEAN : k' = [k EXCEPT ![s] = SetTime(k[s], zero)]
    BY <2>1 DEF SubmitTimer
  <2>3. k'[s] = SetTime(k[s], zero) /\ k[s] \in Fds BY <1>1, <2>2
  <2>4. k'[s].in = 0 /\ k'[s].reg = k[s].reg BY <2>3 DEF SetTime, Fds
  <2> QED BY <2>4 DEF TickStep
<1> QED BY <1>5, <1>6

LEMMA DirectTicks ==
  ASSUME StructInv, DirectCall, NEW s \in Socks, Kind[s] = "TIMER", k[s].reg
  PROVE  TickStep(s)
<1>1. k \in [Socks -> Fds] /\ s \notin Fresh BY TimerSlot DEF StructInv, TypeOK
<1>2. PICK x \in Socks :
        \/ SyncTransfer(x)
        \/ SyncConnect(x)
        \/ \E t \in Socks : SyncAccept(x, t)
        \/ \E r \in BOOLEAN, w \in BOOLEAN : Shutdown(x, r, w)
        \/ Close(x)
  BY DEF DirectCall
<1>3. x # s BY <1>2 DEF SyncTransfer, SyncConnect, SyncAccept, Shutdown, Close
<1>4. k'[s] = k[s]
  <2>1. CASE \E t \in Socks : SyncAccept(x, t)
    BY <1>1, <1>3, <2>1 DEF SyncAccept, FreeTarget
  <2>2. CASE SyncTransfer(x) \/ SyncConnect(x) BY <1>1, <1>3, <2>2 DEF SyncTransfer, SyncConnect
  <2>3. CASE (\E r \in BOOLEAN, w \in BOOLEAN : Shutdown(x, r, w)) \/ Close(x)
    BY <1>1, <1>3, <2>3 DEF Shutdown, Close
  <2> QED BY <1>2, <2>1, <2>2, <2>3
<1>5. pc # "crashed" /\ UNCHANGED <<batch, slot>>
  BY <1>2 DEF SyncTransfer, SyncConnect, SyncAccept, Shutdown, Close, InUser
<1> QED BY <1>4, <1>5, SameRefl, TickSame

LEMMA TriedTicks ==
  ASSUME StructInv, Tried, NEW s \in Socks, Kind[s] = "TIMER", k[s].reg PROVE TickStep(s)
<1> DEFINE x == await[calling].sock
           type == await[calling].type
<1>1. /\ k \in [Socks -> Fds] /\ slot \in [Socks -> Slots] /\ s \notin Fresh
      /\ slot[s].sock => slot[s].type \in {"TIMETICK", "NOOP"}
  BY TimerSlot DEF StructInv, TypeOK
<1>2. /\ calling # NoOp /\ x \in Socks /\ slot[x].sock /\ slot[x].type = type
      /\ type \in InTypes \cup OutTypes /\ pc \in {"setup", "callback"}
  BY DEF Tried, StructInv, CallingInv
<1>3. x # s BY <1>1, <1>2 DEF InTypes, OutTypes
<1>4. type = "ACCEPT" => slot[x].data # s BY <1>1, <1>2 DEF StructInv, SlotInv
<1>5. PICK t \in Try(x, type) :
        /\ k' = KernelAfter(x, type, t)
        /\ \/ slot' = [slot EXCEPT ![x].wp = FALSE]
           \/ slot' = [slot EXCEPT ![x].rp = FALSE]
           \/ slot' = [slot EXCEPT ![x] = Clear(slot[x])]
  BY DEF Tried
<1>6. k'[s] = k[s] BY <1>1, <1>3, <1>4, <1>5 DEF KernelAfter
<1>7. slot'[s] = slot[s] BY <1>1, <1>3, <1>5
<1>8. batch' = batch BY DEF Tried
<1> QED BY <1>2, <1>6, <1>7, <1>8, SameRefl, TickSame

LEMMA LoopTicks ==
  ASSUME StructInv, NEW s \in Socks, Kind[s] = "TIMER", k[s].reg,
         \/ StartRun \/ LoopTest \/ EndCallback \/ StartWait \/ UserEnd \/ Interrupted
         \/ StartCallback
  PROVE  TickStep(s)
<1>1. k \in [Socks -> Fds] /\ s \notin Fresh BY TimerSlot DEF StructInv, TypeOK
<1>2. CASE StartRun \/ LoopTest \/ EndCallback \/ StartWait \/ UserEnd \/ Interrupted
  <2>1. pc # "crashed" /\ UNCHANGED <<k, slot, batch>>
    BY <1>2 DEF StartRun, LoopTest, EndCallback, StartWait, UserEnd, Interrupted, Run, Enter,
       Return, EnterWait, End, NotHere
  <2> QED BY <2>1, SameRefl, TickSame
<1>3. CASE StartCallback
  <2>1. pc # "crashed" /\ UNCHANGED <<slot, batch>> BY <1>3 DEF StartCallback, Scan
  <2>2. k' = Resumed(waitset[1])
    BY <1>3, CallsShape DEF Calls, Called
  <2>3. Scan /\ it = 1 BY <1>3 DEF StartCallback, StructInv, LoopInv
  <2>4. await[Callee(waitset[1])].type = "ACCEPT" => await[Callee(waitset[1])].target \in Fresh
    BY <2>3, CalleeIsOp
  <2>5. k'[s] = k[s] BY <1>1, <2>2, <2>4 DEF Resumed
  <2> QED BY <2>1, <2>5, SameRefl, TickSame
<1> QED BY <1>2, <1>3

LEMMA HarvestTicks ==
  ASSUME StructInv, CalmInv, TickInv, Harvest, NEW s \in Socks, Kind[s] = "TIMER"
  PROVE  TickStep(s)
<1>1. k[s] \in Fds /\ batch = {} /\ pc = "wait" /\ k \in [Socks -> Fds] /\ k[s].reg
  BY DEF StructInv, TypeOK, BatchInv, Harvest, TickInv
<1>2. PICK S \in SUBSET Ready :
        /\ batch' = {[sock |-> x, events |-> Mask(Kind[x], k[x])] : x \in S}
        /\ k' = [x \in Socks |-> IF x \in Ready \ S THEN k[x]
                                 ELSE [k[x] EXCEPT !.ready = FALSE]]
  BY DEF Harvest
<1>3. k'[s].reg /\ k'[s].in = k[s].in BY <1>1, <1>2 DEF Fds
<1>4. slot' = slot BY DEF Harvest
<1>5. PendingIn(s)' = PendingIn(s) BY <1>4 DEF PendingIn
<1>6. k[s].in \in Nat BY <1>1, Bounds DEF Fds
<1>7. CASE k[s].in > 0 /\ PendingIn(s) # {}
  <2>1. k[s].ready BY <1>1, <1>7 DEF TickInv
  <2>2. k[s].conn = "est" BY DEF CalmInv, CalmKinds, Calm
  <2>3. "IN" \in Mask("TIMER", k[s]) BY <1>7, <2>2 DEF Mask
  <2>4. s \in Ready BY <2>1, <2>3 DEF Ready
  <2>5. CASE s \in S
    <3>1. [sock |-> s, events |-> Mask(Kind[s], k[s])] \in batch' BY <1>2, <2>5
    <3> QED BY <1>3, <1>5, <2>3, <3>1 DEF TickStep
  <2>6. CASE s \notin S
    <3>1. k'[s] = k[s] BY <1>2, <2>4, <2>6
    <3> QED BY <1>3, <1>5, <2>1, <3>1 DEF TickStep
  <2> QED BY <2>5, <2>6
<1>8. CASE ~(k[s].in > 0 /\ PendingIn(s) # {})
  <2>1. k'[s].in = 0 \/ PendingIn(s)' = {} BY <1>3, <1>5, <1>6, <1>8
  <2> QED BY <1>3, <2>1 DEF TickStep
<1> QED BY <1>7, <1>8

LEMMA EnvironmentTicks ==
  ASSUME StructInv, Environment, NEW s \in Socks, k[s].reg PROVE TickStep(s)
<1>1. TypeOK /\ k \in [Socks -> Fds] BY DEF StructInv, TypeOK
<1>2. PICK x \in Socks, fd \in Fds : World(x, {fd}) /\ Woken(k[x], fd)
  BY <1>1, EnvironmentWakes
<1>3. /\ k' = [k EXCEPT ![x] = fd] /\ pc # "crashed" /\ UNCHANGED <<slot, batch>>
  BY <1>2 DEF World
<1>4. CASE x = s
  <2>1. k'[s].reg /\ k'[s].ready BY <1>1, <1>2, <1>3, <1>4 DEF Woken
  <2>2. PendingIn(s)' = PendingIn(s) BY <1>3 DEF PendingIn
  <2> QED BY <2>1, <2>2 DEF TickStep
<1>5. CASE x # s
  <2>1. k'[s] = k[s] BY <1>1, <1>3, <1>5
  <2> QED BY <1>3, <2>1, SameRefl, TickSame
<1> QED BY <1>4, <1>5

(* Wait reports a tick to the operation of the timer, which ends, or it    *)
(* reports something else.                                                 *)
LEMMA DispatchTicks ==
  ASSUME StructInv, CalmInv, Dispatch, NEW s \in Socks, Kind[s] = "TIMER", k[s].reg
  PROVE  TickStep(s)
<1>1. /\ k \in [Socks -> Fds] /\ slot \in [Socks -> Slots] /\ s \notin Fresh
      /\ slot[s].sock => slot[s].type \in {"TIMETICK", "NOOP"}
  BY TimerSlot DEF StructInv, TypeOK
<1>2. PICK b \in batch :
        \/ DispatchNull(b) \/ DispatchError(b) \/ DispatchHangup(b) \/ DispatchIdle(b)
        \/ DispatchTransfer(b) \/ DispatchConnect(b) \/ DispatchTimer(b)
        \/ DispatchSignal(b)
  BY DEF Dispatch
<1>3. b.sock \in Socks BY DEF StructInv, TypeOK, Polled
<1>4. CASE DispatchNull(b)
  <2>1. pc' = "crashed" /\ UNCHANGED <<k, slot>> BY <1>4 DEF DispatchNull
  <2>2. PendingIn(s)' = PendingIn(s) BY <2>1 DEF PendingIn
  <2> QED BY <2>1, <2>2 DEF TickStep
<1>5. CASE ~DispatchNull(b)
  <2>1. Served(b)
    BY <1>2, <1>5 DEF DispatchError, DispatchHangup, DispatchIdle, DispatchTransfer,
       DispatchConnect, DispatchTimer, DispatchSignal, Edge
  <2>2. pc # "crashed" /\ batch' = batch \ {b} /\ slot[b.sock].sock BY <2>1 DEF Served
  <2>3. \A x \in Socks : x # b.sock => slot'[x] = slot[x]
    <3>1. \/ slot' = slot
          \/ \E new : slot' = [slot EXCEPT ![b.sock] = new]
      BY <1>2, <1>5, ZenonT(40) DEF DispatchError, DispatchHangup, DispatchIdle, DispatchTransfer,
         DispatchConnect, DispatchTimer, DispatchSignal, Completed
    <3> QED BY <1>1, <3>1
  <2>4. CASE b.sock # s
    <3>1. k'[s] = k[s]
      <4>1. CASE DispatchTransfer(b)
        <5>1. PICK t \in Try(b.sock, slot[b.sock].type) :
                k' = KernelAfter(b.sock, slot[b.sock].type, t)
          BY <4>1 DEF DispatchTransfer
        <5>2. slot[b.sock].type = "ACCEPT" => slot[b.sock].data # s
          BY <1>1, <1>3, <2>2 DEF StructInv, SlotInv
        <5> QED BY <2>4, <5>1, <5>2 DEF KernelAfter
      <4>2. CASE DispatchSignal(b) BY <1>1, <2>4, <4>2 DEF DispatchSignal
      <4> QED BY <1>2, <1>5, <4>1, <4>2 DEF DispatchError, DispatchHangup, DispatchIdle,
                 DispatchConnect, DispatchTimer
    <3> QED BY <2>2, <2>3, <2>4, <3>1, SameRefl, TickSame
  <2>5. CASE b.sock = s
    <3>1. b.events \subseteq {"IN"} BY <2>5 DEF CalmInv, CalmKinds
    <3>2. slot[s].sock /\ slot[s].type \in {"TIMETICK", "NOOP"} BY <1>1, <2>2, <2>5
    <3>3. DispatchIdle(b) \/ DispatchTimer(b)
      BY <1>2, <1>5, <2>5, <3>1, <3>2 DEF DispatchError, DispatchHangup, DispatchTransfer,
         DispatchConnect, DispatchSignal, InTypes, OutTypes
    <3>4. k'[s] = k[s] BY <3>3 DEF DispatchIdle, DispatchTimer
    <3>5. CASE DispatchIdle(b)
      <4>1. slot' = [slot EXCEPT ![s] = Flagged(b)] /\ ~Awaited(b)
        BY <2>5, <3>5 DEF DispatchIdle
      <4>2. Flagged(b) \in Slots /\ Same(slot[s], Flagged(b)) BY <2>5, FlaggedSame
      <4>3. Same(slot[s], slot'[s]) BY <1>1, <4>1, <4>2
      <4>4. CASE "IN" \in b.events
        <5>1. slot[s].type = "NOOP" BY <2>5, <3>2, <4>1, <4>4 DEF Awaited
        <5>2. PendingIn(s)' = {} BY <4>3, <5>1 DEF PendingIn, Same
        <5> QED BY <3>4, <5>2 DEF TickStep
      <4>5. CASE "IN" \notin b.events
        <5>1. \A c \in batch : c.sock = s /\ "IN" \in c.events => c \in batch'
          BY <2>2, <4>5
        <5> QED BY <2>2, <3>4, <4>3, <5>1, TickSame
      <4> QED BY <4>4, <4>5
    <3>6. CASE DispatchTimer(b)
      <4>1. PICK ev, sl : slot' = [slot EXCEPT ![s] = [Clear(sl) EXCEPT !.ev = ev]] /\ sl \in Slots
        <5>1. Flagged(b) \in Slots BY <2>5, FlaggedSame
        <5>2. [Flagged(b) EXCEPT !.rp = FALSE] \in Slots BY <5>1, FlagsSame
        <5> QED BY <2>5, <3>6, <5>2 DEF DispatchTimer, Completed
      <4>2. slot'[s] = [Clear(sl) EXCEPT !.ev = ev] BY <1>1, <4>1
      <4>3. Clear(sl) \in Slots /\ Clear(sl).type = "NOOP" BY <4>1, ClearTyped
      <4>4. slot'[s].type = "NOOP" BY <4>2, <4>3 DEF Slots
      <4>5. PendingIn(s)' = {} BY <4>4 DEF PendingIn
      <4> QED BY <3>4, <4>5 DEF TickStep
    <3> QED BY <3>3, <3>5, <3>6
  <2> QED BY <2>4, <2>5
<1> QED BY <1>4, <1>5

LEMMA NextTicks ==
  ASSUME StructInv, CalmInv, TickInv, [Next]_vars, NEW s \in Socks, Kind[s] = "TIMER"
  PROVE  TickStep(s) \/ UNCHANGED vars
<1>1. k[s].reg BY DEF TickInv
<1>2. CASE \E op \in Ops : Submit(op) BY <1>1, <1>2, SubmitTicks
<1>3. CASE DirectCall BY <1>1, <1>3, DirectTicks
<1>4. CASE \/ StartRun \/ LoopTest \/ EndCallback \/ StartWait \/ UserEnd \/ Interrupted
           \/ StartCallback
  BY <1>1, <1>4, LoopTicks
<1>5. CASE Tried BY <1>1, <1>5, TriedTicks
<1>6. CASE Harvest BY <1>6, HarvestTicks
<1>7. CASE Dispatch BY <1>1, <1>7, DispatchTicks
<1>8. CASE Environment BY <1>1, <1>8, EnvironmentTicks
<1> QED BY <1>2, <1>3, <1>4, <1>5, <1>6, <1>7, <1>8 DEF Next, LoopStep

LEMMA InitTick == Init => TickInv
<1> SUFFICES ASSUME Init, NEW s \in Socks, Kind[s] = "TIMER"
             PROVE  k[s].reg /\ PendingIn(s) = {}
  BY DEF TickInv
<1>1. s \notin Fresh BY EpollAssumption
<1>2. k[s] = NewFd("TIMER") BY <1>1 DEF Init
<1>3. k[s].reg
  <2> DEFINE kind == "TIMER"
             c == IF kind = "TCP" THEN "idle" ELSE "est"
             r == kind \in {"TCP", "UDP"}
             f == [ClosedFd EXCEPT !.open = TRUE, !.nb = TRUE, !.conn = c, !.room = r]
             p == Mask(kind, f) # {}
  <2>1. k[s] = EpollAdd(kind, f) BY <1>2 DEF NewFd
  <2>2. c \in Conns /\ r \in BOOLEAN /\ p \in BOOLEAN BY DEF Conns
  <2> HIDE DEF kind, c, r, p
  <2>3. f \in Fds /\ f.open /\ ~f.reg
    BY <2>2, ClosedFdTyped DEF Fds, ClosedFd
  <2>4. k[s] = [f EXCEPT !.reg = TRUE, !.ready = p] BY <2>1, <2>3 DEF EpollAdd, p
  <2> HIDE DEF f
  <2> QED BY <2>3, <2>4 DEF Fds
<1>4. PendingIn(s) = {} BY DEF Init, NewSlot, PendingIn
<1> QED BY <1>3, <1>4

LEMMA NextTick ==
  ASSUME StructInv, CalmInv, TickInv, [Next]_vars PROVE TickInv'
<1>1. CASE UNCHANGED vars BY <1>1 DEF TickInv, PendingIn, vars
<1>2. CASE ~UNCHANGED vars
  <2>1. ASSUME NEW s \in Socks, Kind[s] = "TIMER"
        PROVE  /\ k'[s].reg
               /\ (PendingIn(s)' # {} /\ k'[s].in > 0 /\ pc' # "crashed") =>
                    k'[s].ready \/ \E b \in batch' : b.sock = s /\ "IN" \in b.events
    <3>1. TickStep(s) BY <1>2, <2>1, NextTicks
    <3> QED BY <2>1, <3>1 DEF TickStep, TickInv
  <2> QED BY <2>1 DEF TickInv
<1> QED BY <1>1, <1>2

LEMMA NextOwnTick ==
  ASSUME StructInv, CalmInv, TickInv, [Next]_vars, NEW s \in Socks, Kind[s] = "TIMER"
  PROVE  /\ PendingIn(s)' \subseteq PendingIn(s) \/ k'[s].in = 0
         /\ (PendingIn(s)' # {} /\ k'[s].in > 0 /\ pc' # "crashed") =>
              k'[s].ready \/ \E b \in batch' : b.sock = s /\ "IN" \in b.events
<1>1. PendingIn(s)' \subseteq PendingIn(s) \/ k'[s].in = 0
  <2>1. CASE UNCHANGED vars BY <2>1 DEF PendingIn, vars
  <2>2. CASE TickStep(s) BY <2>2 DEF TickStep
  <2> QED BY <2>1, <2>2, NextTicks
<1>2. TickInv' BY NextTick
<1> QED BY <1>1, <1>2 DEF TickInv

-----------------------------------------------------------------------------
(* Where the completed events come from.                                   *)
Like(item, ev) ==
  item.cb = ev.cb /\ item.error = ev.error /\ (item.status = "ERR" <=> ev.status = "ERR")

LEMMA NewItem ==
  ASSUME StructInv, NEW ev \in Events, ev.cb \in Ops, waitset' = SubmitComplete(waitset, ev),
         NEW n \in 1..Len(waitset')
  PROVE  \/ n \in 1..Len(waitset) /\ waitset'[n] = waitset[n]
         \/ n = Len(waitset) + 1 /\ Like(waitset'[n], ev)
<1>1. /\ Len(waitset') = Len(waitset) + 1 /\ Len(waitset) \in Nat
      /\ \A i \in 1..Len(waitset) : waitset'[i] = waitset[i]
      /\ Like(waitset'[Len(waitset) + 1], ev)
  BY SubmitCompleteElements, LenProperties DEF StructInv, LoopInv, Like
<1>2. n \in 1..Len(waitset) \/ n = Len(waitset) + 1 BY <1>1
<1> QED BY <1>1, <1>2

LEMMA OldItem ==
  ASSUME DeliveryInv, NEW i \in 1..Len(waitset)
  PROVE  /\ waitset[i].cb \in Ops /\ Issued(waitset[i].cb)
         /\ await[waitset[i].cb].sock \in Socks
         /\ Fits(Kind[await[waitset[i].cb].sock], await[waitset[i].cb].type)
<1>1. StructInv /\ TypesInv /\ IssuedInv BY DEF DeliveryInv
<1>2. waitset[i] \in CompletedEvents BY <1>1, ElementOfSeq DEF StructInv, LoopInv
<1>3. waitset[i].cb \in Ops /\ Issued(waitset[i].cb)
  BY <1>1, <1>2 DEF CompletedEvents, IssuedInv
<1> QED BY <1>1, <1>3 DEF StructInv, AwaitInv, TypesInv, Issued

(* What an issued operation waits for is never changed. *)
LEMMA AwaitsStay ==
  ASSUME StructInv, TypesInv, [Next]_vars, NEW q \in Ops, Issued(q)
  PROVE  await'[q] = await[q]
<1>1. ASSUME NEW op \in Ops, NEW s \in Socks, NEW type, NEW t, Begins(op, s, type, t)
      PROVE  await'[q] = await[q]
  BY <1>1, StartedIssued DEF Begins, MayStart, Issued
<1>2. \/ \E op \in Ops, s \in Socks, type \in Types, t \in Socks \cup {NoSock} :
           Begins(op, s, type, t)
      \/ \E op \in Ops, s \in Socks : Begins(op, s, "CONNECT", NoSock)
      \/ await' = await
  BY Shapes DEF Stays, Waits, Fails, Ends, EndsAgain, Clears, Calls, Returns
<1> QED BY <1>1, <1>2

(* A completed event was there before, or is that of a connect that did    *)
(* not start, or that of an operation in a slot.                           *)
LEMMA Items ==
  ASSUME DeliveryInv, [Next]_vars, NEW n \in 1..Len(waitset')
  PROVE  \/ \E m \in 1..Len(waitset) : waitset'[n] = waitset[m]
         \/ \E op \in Ops, s \in Socks, ev \in Events :
              /\ Fails(op, s, ev)
              /\ ev.error = 0 => \E o \in ConnectCall(k[s]) : IntResult(o) = 0 /\ k'[s] = o.fd
              /\ Like(waitset'[n], ev)
         \/ \E s \in Socks, ev \in Events :
              ((Ends(s, ev) /\ Reason(s, ev)) \/ EndsAgain(s, ev)) /\ Like(waitset'[n], ev)
<1>1. StructInv /\ TypesInv BY DEF DeliveryInv
<1>2. CASE waitset' = waitset BY <1>2
<1>3. CASE Returns
  <2>1. waitset' = Tail(waitset) /\ waitset \in Seq(CompletedEvents) /\ waitset # <<>>
    BY <1>1, <1>3 DEF Returns, StructInv, LoopInv
  <2>2. waitset'[n] = waitset[n + 1] /\ n + 1 \in 1..Len(waitset)
    BY <2>1, HeadTailProperties, EmptySeq
  <2> QED BY <2>2
<1>4. ASSUME NEW op \in Ops, NEW s \in Socks, NEW ev \in Events, Fails(op, s, ev)
      PROVE  (\E m \in 1..Len(waitset) : waitset'[n] = waitset[m]) \/ Like(waitset'[n], ev)
  BY <1>1, <1>4, NewItem DEF Fails
<1>5. ASSUME NEW s \in Socks, NEW ev \in Events, Clears(s, ev)
      PROVE  (\E m \in 1..Len(waitset) : waitset'[n] = waitset[m]) \/ Like(waitset'[n], ev)
  <2>1. ev.cb \in Ops /\ waitset' = SubmitComplete(waitset, ev)
    BY <1>1, <1>5 DEF Clears, StructInv, SlotInv
  <2> QED BY <1>1, <2>1, NewItem
<1>6. CASE Stays \/ Calls BY <1>2, <1>6 DEF Stays, Calls
<1>7. CASE \E op \in Ops, s \in Socks, type \in Types, t \in Socks \cup {NoSock} :
             Waits(op, s, type, t)
  BY <1>2, <1>7 DEF Waits
<1>8. CASE \E op \in Ops, s \in Socks, ev \in Events :
             /\ Fails(op, s, ev)
             /\ ev.error = 0 => \E o \in ConnectCall(k[s]) : IntResult(o) = 0 /\ k'[s] = o.fd
  BY <1>4, <1>8
<1>9. CASE \E s \in Socks, ev \in Events : Ends(s, ev) /\ Reason(s, ev)
  BY <1>5, <1>9 DEF Ends
<1>10. CASE \E s \in Socks, ev \in Events : EndsAgain(s, ev)
  BY <1>5, <1>10 DEF EndsAgain
<1> QED BY <1>1, <1>3, <1>6, <1>7, <1>8, <1>9, <1>10, Shapes
-----------------------------------------------------------------------------
(* Connects.                                                               *)
LEMMA FailsStarts ==
  ASSUME StructInv, NEW op \in Ops, NEW s \in Socks, NEW ev, Fails(op, s, ev)
  PROVE  await'[op] = [type |-> "CONNECT", sock |-> s, target |-> NoSock]
<1>1. Started(op, "CONNECT", s, NoSock) BY DEF Fails, Begins
<1> QED BY <1>1, StartedIssued

LEMMA InitConnect == Init => ConnectInv
<1> SUFFICES ASSUME Init PROVE ConnectInv
  OBVIOUS
<1>1. batch = {} /\ waitset = <<>> BY DEF Init, LoopInit
<1>2. \A s \in Socks : ~k[s].err /\ Refusal(k[s]) BY NewFdState DEF Refusal
<1> QED BY <1>1, <1>2 DEF ConnectInv

LEMMA NextConnect ==
  ASSUME DeliveryInv, ConnectInv, [Next]_vars PROVE ConnectInv'
<1>1. StructInv /\ TypesInv /\ TypeOK BY DEF DeliveryInv, StructInv
<1>2. \A s \in Socks : Kind[s] = "TCP" => /\ Settled(k[s]) => Settled(k'[s])
                                          /\ Won(k[s]) => Won(k'[s])
                                          /\ Refusal(k[s]) => Refusal(k'[s])
                                          /\ k'[s].err => k[s].err \/ Settled(k'[s])
  BY <1>1, NextDescends DEF Descends, Keeps
<1>3. \A s \in Socks : Kind[s] = "TCP" => /\ k'[s].err => Settled(k'[s])
                                          /\ Refusal(k'[s])
  BY <1>2 DEF ConnectInv
<1>4. ASSUME NEW b \in batch', Kind[b.sock] = "TCP"
      PROVE  /\ "ERR" \in b.events => Settled(k'[b.sock])
             /\ "OUT" \in b.events /\ "HUP" \notin b.events => Won(k'[b.sock])
  <2>1. CASE Harvest
    <3>1. /\ b.sock \in Socks /\ b.events = Mask(Kind[b.sock], k[b.sock])
          /\ k[b.sock] \in Fds
      BY <1>1, <2>1, HarvestEvents
    <3>2. ASSUME "ERR" \in b.events PROVE Settled(k'[b.sock])
      <4>1. k[b.sock].err BY <3>1, <3>2 DEF Mask
      <4>2. Settled(k[b.sock]) BY <1>4, <3>1, <4>1 DEF ConnectInv
      <4> QED BY <1>2, <1>4, <3>1, <4>2
    <3>3. ASSUME "OUT" \in b.events, "HUP" \notin b.events PROVE Won(k'[b.sock])
      <4>1. /\ k[b.sock].conn # "syn" /\ k[b.sock].conn # "idle"
            /\ ~(k[b.sock].eof /\ k[b.sock].shutW)
        BY <3>1, <3>3 DEF Mask
      <4>2. Refusal(k[b.sock]) BY <1>4, <3>1 DEF ConnectInv
      <4>3. Won(k[b.sock]) BY <3>1, <4>1, <4>2 DEF Fds, Conns, Won, Refusal
      <4> QED BY <1>2, <1>4, <3>1, <4>3
    <3> QED BY <3>2, <3>3
  <2>2. CASE batch' \subseteq batch
    <3>1. b.sock \in Socks BY <1>1, <2>2 DEF TypeOK, Polled
    <3> QED BY <1>2, <1>4, <2>2, <3>1 DEF ConnectInv
  <2> QED BY <1>1, <2>1, <2>2, BatchMoves
<1>5. ASSUME NEW n \in 1..Len(waitset'), await'[waitset'[n].cb].type = "CONNECT",
             waitset'[n].error = 0
      PROVE  /\ Settled(k'[await'[waitset'[n].cb].sock])
             /\ waitset'[n].status = "COMPLETED" => Won(k'[await'[waitset'[n].cb].sock])
  <2> DEFINE new == k'[await'[waitset'[n].cb].sock]
             Told == Settled(new) /\ (waitset'[n].status = "COMPLETED" => Won(new))
  <2>1. CASE \E m \in 1..Len(waitset) : waitset'[n] = waitset[m]
    <3>1. PICK m \in 1..Len(waitset) : waitset'[n] = waitset[m] BY <2>1
    <3> DEFINE q == waitset[m].cb
    <3>2. /\ q \in Ops /\ Issued(q) /\ await[q].sock \in Socks
          /\ Fits(Kind[await[q].sock], await[q].type)
      BY OldItem
    <3>3. await'[q] = await[q] BY <1>1, <3>2, AwaitsStay
    <3>4. /\ Settled(k[await[q].sock])
          /\ waitset'[n].status = "COMPLETED" => Won(k[await[q].sock])
      BY <1>5, <3>1, <3>3 DEF ConnectInv
    <3>5. Kind[await[q].sock] = "TCP" BY <1>5, <3>1, <3>2, <3>3 DEF Fits
    <3> QED BY <1>2, <3>1, <3>2, <3>3, <3>4, <3>5
  <2>2. ASSUME NEW op \in Ops, NEW s \in Socks, NEW ev \in Events, Fails(op, s, ev),
               ev.error = 0 => \E o \in ConnectCall(k[s]) : IntResult(o) = 0 /\ k'[s] = o.fd,
               Like(waitset'[n], ev)
        PROVE  Told
    <3>1. waitset'[n].cb = op /\ ev.error = 0 BY <1>5, <2>2 DEF Like, Fails
    <3>2. await'[op].sock = s
      <4>1. await'[op] = [type |-> "CONNECT", sock |-> s, target |-> NoSock]
        BY <1>1, <2>2, FailsStarts
      <4> QED BY <4>1
    <3>3. k[s] \in Fds BY <1>1 DEF TypeOK
    <3>4. PICK o \in ConnectCall(k[s]) : IntResult(o) = 0 /\ k'[s] = o.fd BY <2>2, <3>1
    <3>5. Settled(o.fd) /\ Won(o.fd) BY <3>3, <3>4, ConnectCallKeeps
    <3> QED BY <3>1, <3>2, <3>4, <3>5
  <2>3. ASSUME NEW s \in Socks, NEW ev \in Events, Clears(s, ev), Like(waitset'[n], ev)
        PROVE  /\ await[slot[s].ev.cb].type = "CONNECT" /\ await[slot[s].ev.cb].sock = s
               /\ ev.error = 0 /\ Kind[s] = "TCP"
               /\ Settled(k[s]) => Settled(new)
               /\ Won(k[s]) => Won(new)
    <3> DEFINE q == slot[s].ev.cb
    <3>1. q \in Ops /\ await[q].sock = s /\ waitset'[n].cb = q /\ await' = await
      BY <1>1, <2>3 DEF Clears, Like, StructInv, SlotInv
    <3>2. Issued(q) BY <3>1, EpollAssumption DEF Issued, Unissued
    <3>3. await[q].type = "CONNECT" /\ ev.error = 0 BY <1>5, <2>3, <3>1 DEF Like
    <3>4. Kind[s] = "TCP" BY <1>1, <3>1, <3>2, <3>3 DEF TypesInv, Fits
    <3> QED BY <1>2, <3>1, <3>3, <3>4
  <2>4. ASSUME NEW s \in Socks, NEW ev \in Events, Ends(s, ev), Reason(s, ev),
               Like(waitset'[n], ev)
        PROVE  Told
    <3>1. Clears(s, ev) /\ slot[s].type # "NOOP" /\ slot[s].sock BY <2>4 DEF Ends, Clears
    <3>2. slot[s].type = "CONNECT" /\ ev.error = 0 /\ Kind[s] = "TCP"
      BY <1>1, <2>3, <2>4, <3>1 DEF TypesInv
    <3>3. PICK b \in batch : /\ b.sock = s
                             /\ \/ "ERR" \in b.events /\ ev.status = "ERR"
                                \/ "OUT" \in b.events /\ "HUP" \notin b.events
      BY <2>4, <3>2 DEF Reason
    <3>4. CASE "ERR" \in b.events /\ ev.status = "ERR"
      <4>1. Settled(k[s]) BY <3>2, <3>3, <3>4 DEF ConnectInv
      <4>2. waitset'[n].status = "ERR" BY <2>4, <3>4 DEF Like
      <4> QED BY <2>3, <2>4, <3>1, <4>1, <4>2
    <3>5. CASE "OUT" \in b.events /\ "HUP" \notin b.events
      <4>1. Won(k[s]) BY <3>2, <3>3, <3>5 DEF ConnectInv
      <4>2. Settled(k[s]) BY <4>1 DEF Won, Settled
      <4> QED BY <2>3, <2>4, <3>1, <4>1, <4>2
    <3> QED BY <3>3, <3>4, <3>5
  <2>5. ASSUME NEW s \in Socks, NEW ev \in Events, EndsAgain(s, ev), Like(waitset'[n], ev)
        PROVE  Told
    <3>1. Clears(s, ev) /\ \E b \in batch : b.sock = s /\ "ERR" \in b.events
      BY <2>5 DEF EndsAgain
    <3>2. Kind[s] = "TCP" BY <2>3, <2>5, <3>1
    <3>3. Settled(k[s]) BY <3>1, <3>2 DEF ConnectInv
    <3>4. waitset'[n].status = "ERR" BY <2>5 DEF EndsAgain, Like
    <3> QED BY <2>3, <2>5, <3>1, <3>3, <3>4
  <2> QED BY <2>1, <2>2, <2>4, <2>5, Items
<1> QED BY <1>3, <1>4, <1>5 DEF ConnectInv

(* A connect whose event says COMPLETED has connected, whatever the        *)
(* network does and however EPOLLHUP and EPOLLOUT are reported.  One of    *)
(* error 0 that is refused was ended by EPOLLERR, with status ERR and a    *)
(* left-over errno of 0 (epollimpl.h:67-81, 172-183, 273-277).             *)
THEOREM ConnectsAreDone == Spec => []ConnectedWhenToldSo
<1>1. Init => DeliveryInv /\ ConnectInv BY InitDelivery, InitConnect
<1>2. DeliveryInv /\ ConnectInv /\ [Next]_vars => (DeliveryInv /\ ConnectInv)'
  BY NextDelivery, NextConnect
<1>3. DeliveryInv /\ ConnectInv => ConnectedWhenToldSo
  <2> SUFFICES ASSUME DeliveryInv, ConnectInv, NEW i \in 1..Len(waitset),
                      await[waitset[i].cb].type = "CONNECT", waitset[i].error = 0
               PROVE  LET fd == k[await[waitset[i].cb].sock]
                      IN \/ fd.conn \in {"est", "reset"}
                         \/ fd.conn = "refused" /\ waitset[i].status = "ERR"
    BY DEF ConnectedWhenToldSo
  <2>1. waitset[i] \in CompletedEvents
    BY ElementOfSeq DEF DeliveryInv, StructInv, LoopInv
  <2>2. waitset[i].status \in {"COMPLETED", "ERR"} BY <2>1 DEF CompletedEvents, Statuses
  <2> QED BY <2>2 DEF ConnectInv, Settled, Won
<1> QED BY <1>1, <1>2, <1>3, PTL DEF Spec

-----------------------------------------------------------------------------
(* Errors of transfers.                                                    *)
LEMMA NextTransferError ==
  ASSUME DeliveryInv, TransferErrorIsOpaque, [Next]_vars PROVE TransferErrorIsOpaque'
<1>1. StructInv /\ TypesInv BY DEF DeliveryInv
<1> SUFFICES ASSUME NEW n \in 1..Len(waitset'), waitset'[n].status = "ERR",
                    await'[waitset'[n].cb].type \in TransferTypes
             PROVE  waitset'[n].error \in {1} \cup Errnos
  BY DEF TransferErrorIsOpaque, TransferTypes
<1>2. CASE \E m \in 1..Len(waitset) : waitset'[n] = waitset[m]
  <2>1. PICK m \in 1..Len(waitset) : waitset'[n] = waitset[m] BY <1>2
  <2>2. waitset[m].cb \in Ops /\ Issued(waitset[m].cb) BY OldItem
  <2>3. await'[waitset[m].cb] = await[waitset[m].cb] BY <1>1, <2>2, AwaitsStay
  <2> QED BY <2>1, <2>3 DEF TransferErrorIsOpaque, TransferTypes
<1>3. ASSUME NEW op \in Ops, NEW s \in Socks, NEW ev \in Events, Fails(op, s, ev),
             Like(waitset'[n], ev)
      PROVE  FALSE
  <2>1. waitset'[n].cb = op BY <1>3 DEF Like, Fails
  <2>2. await'[op].type = "CONNECT"
    <3>1. await'[op] = [type |-> "CONNECT", sock |-> s, target |-> NoSock]
      BY <1>1, <1>3, FailsStarts
    <3> QED BY <3>1
  <2> QED BY <2>1, <2>2 DEF TransferTypes
<1>4. ASSUME NEW s \in Socks, NEW ev \in Events, Ends(s, ev), Reason(s, ev),
             Like(waitset'[n], ev)
      PROVE  waitset'[n].error \in {1} \cup Errnos
  <2>1. /\ slot[s].type # "NOOP" /\ slot[s].sock /\ await' = await
        /\ waitset'[n].cb = slot[s].ev.cb
    BY <1>4 DEF Ends, Clears, Like
  <2>2. await[slot[s].ev.cb].type = slot[s].type BY <1>1, <2>1 DEF TypesInv
  <2> QED BY <1>4, <2>1, <2>2 DEF Reason, Like
<1>5. ASSUME NEW s \in Socks, NEW ev \in Events, EndsAgain(s, ev), Like(waitset'[n], ev)
      PROVE  waitset'[n].error \in {1} \cup Errnos
  BY <1>5 DEF EndsAgain, Like
<1> QED BY <1>2, <1>3, <1>4, <1>5, Items

(* The errno of a failed transfer never reaches the program: its event has *)
(* error 1, or what errno held when EPOLLERR was reported                  *)
(* (linuxsock.h:275-313; epollimpl.h:172-176).                             *)
THEOREM TransferErrors == Spec => []TransferErrorIsOpaque
<1>1. Init => DeliveryInv /\ TransferErrorIsOpaque
  <2>1. Init => waitset = <<>> BY DEF Init, LoopInit
  <2>2. Init => TransferErrorIsOpaque BY <2>1 DEF TransferErrorIsOpaque
  <2> QED BY <2>2, InitDelivery
<1>2. DeliveryInv /\ TransferErrorIsOpaque /\ [Next]_vars
        => (DeliveryInv /\ TransferErrorIsOpaque)'
  BY NextDelivery, NextTransferError
<1> QED BY <1>1, <1>2, PTL DEF Spec
-----------------------------------------------------------------------------
(* Blocking calls.                                                         *)

(* A call that is under way was just submitted on a registered socket, or  *)
(* only the environment moves meanwhile.                                   *)
LEMMA CallingMoves ==
  ASSUME StructInv, [Next]_vars, calling' # NoOp
  PROVE  \/ \E s \in Socks : await'[calling'].sock = s /\ k' = k /\ k[s].reg
         \/ calling # NoOp /\ calling' = calling /\ await' = await /\ \A x \in Socks : Still(x)
<1>1. /\ TypeOK /\ (calling # NoOp => pc \in {"setup", "callback"})
      /\ calling # NoOp => await[calling].sock \in Socks
  BY DEF StructInv, CallingInv
<1>2. CASE \E op \in Ops : Submit(op)
  <2>1. PICK op \in Ops, s \in Socks :
          \/ \E type \in {"READ", "WRITE", "RECVFROM", "SENDTO"} : SubmitTransfer(s, type, op)
          \/ \E t \in Socks : SubmitAccept(s, t, op)
          \/ SubmitConnect(s, op) \/ (\E zero \in BOOLEAN : SubmitTimer(s, zero, op))
          \/ SubmitSignal(s, op)
    BY <1>2 DEF Submit
  <2>2. calling = NoOp
    BY <2>1 DEF SubmitTransfer, SubmitAccept, SubmitConnect, SubmitTimer, SubmitSignal,
       MayStart, InUser
  <2>3. ASSUME NEW type, NEW target, Started(op, type, s, target) PROVE await'[op].sock = s
    <3>1. await'[op] = [type |-> type, sock |-> s, target |-> target] BY <2>3, StartedIssued
    <3> QED BY <3>1
  <2>4. CASE SubmitConnect(s, op) \/ (\E zero \in BOOLEAN : SubmitTimer(s, zero, op))
             \/ SubmitSignal(s, op)
    BY <2>2, <2>4 DEF SubmitConnect, SubmitTimer, SubmitSignal
  <2>5. ASSUME NEW type, SubmitTransfer(s, type, op)
        PROVE  calling' = op /\ k' = k /\ k[s].reg /\ await'[op].sock = s
    BY <2>3, <2>5 DEF SubmitTransfer
  <2>6. ASSUME NEW t, SubmitAccept(s, t, op)
        PROVE  calling' = op /\ k' = k /\ k[s].reg /\ await'[op].sock = s
    BY <2>3, <2>6 DEF SubmitAccept
  <2> QED BY <2>1, <2>4, <2>5, <2>6
<1>3. CASE DirectCall \/ StartRun \/ UserEnd \/ EndCallback \/ Tried
  <2>1. calling' = NoOp
    BY <1>3, ZenonT(40) DEF DirectCall, SyncTransfer, SyncConnect, SyncAccept, Shutdown, Close, InUser,
       StartRun, UserEnd, EndCallback, Tried, NotHere
  <2> QED BY <2>1, SMTT(40)
<1>4. CASE LoopTest \/ StartCallback \/ StartWait \/ Harvest \/ Interrupted \/ Dispatch
  <2>1. calling' = calling
    BY <1>4, ZenonT(40) DEF LoopTest, StartCallback, StartWait, Harvest, Interrupted, NotHere, Dispatch,
       DispatchNull, DispatchError, DispatchHangup, DispatchIdle, DispatchTransfer,
       DispatchConnect, DispatchTimer, DispatchSignal, Edge, Served
  <2>2. pc \notin {"setup", "callback"}
    BY <1>4, ZenonT(40) DEF LoopTest, Enter, StartCallback, Scan, StartWait, EnterWait, Harvest,
       Interrupted, Dispatch, DispatchNull, DispatchError, DispatchHangup, DispatchIdle,
       DispatchTransfer, DispatchConnect, DispatchTimer, DispatchSignal, Edge, Served
  <2> QED BY <1>1, <2>1, <2>2
<1>5. CASE Environment
  BY <1>1, <1>5, WorldDescends
<1>6. CASE UNCHANGED vars
  BY <1>6 DEF vars, Still
<1> QED BY <1>2, <1>3, <1>4, <1>5, <1>6 DEF Next, LoopStep

LEMMA InitBlock == Init => BlockInv
<1> SUFFICES ASSUME Init PROVE BlockInv
  OBVIOUS
<1>1. \A s \in Socks : k[s].reg => k[s].nb BY NewFdState
<1> QED BY <1>1 DEF Init, BlockInv

LEMMA NextBlock == ASSUME StructInv, BlockInv, [Next]_vars PROVE BlockInv'
<1>1. \A s \in Socks \ Fresh : k'[s].reg => k'[s].nb
  BY NextDescends DEF Descends, BlockInv
<1>2. calling' # NoOp => k'[await'[calling'].sock].reg
  BY CallingMoves DEF BlockInv, Still, StructInv, CallingInv
<1> QED BY <1>1, <1>2 DEF BlockInv

(* A non-blocking call returns. *)
LEMMA TransfersReturn ==
  ASSUME NEW kind, NEW fd \in Fds, fd.nb
  PROVE  RecvMsg(kind, fd) # {} /\ SendMsg(fd) # {} /\ AcceptCall(fd) # {}
<1>1. Fail(EAGAIN, fd) \in WouldBlock(fd) BY DEF WouldBlock
<1>2. fd.in \in Nat BY Bounds DEF Fds
<1>3. RecvMsg(kind, fd) # {}
  <2>1. CASE fd.err /\ (kind = "UDP" \/ fd.in = 0) BY <2>1 DEF RecvMsg
  <2>2. CASE fd.in > 0 /\ ~(kind = "UDP" /\ fd.err)
    <3>1. RecvMsg(kind, fd) = {Ok(n, [fd EXCEPT !.in = @ - n]) :
                                 n \in 1..(IF kind = "UDP" THEN 1 ELSE fd.in)}
      BY <1>2, <2>2 DEF RecvMsg
    <3>2. 1 \in 1..(IF kind = "UDP" THEN 1 ELSE fd.in) BY <1>2, <2>2
    <3>3. Ok(1, [fd EXCEPT !.in = @ - 1]) \in RecvMsg(kind, fd) BY <3>1, <3>2
    <3> QED BY <3>3
  <2>3. CASE fd.in = 0 /\ ~fd.err /\ fd.eof BY <2>3 DEF RecvMsg
  <2>4. CASE fd.in = 0 /\ ~fd.err /\ ~fd.eof /\ fd.conn = "idle" BY <2>4 DEF RecvMsg
  <2>5. CASE fd.in = 0 /\ ~fd.err /\ ~fd.eof /\ fd.conn # "idle"
    <3>1. RecvMsg(kind, fd) = WouldBlock(fd) BY <2>5 DEF RecvMsg
    <3> QED BY <1>1, <3>1
  <2> QED BY <1>2, <2>1, <2>2, <2>3, <2>4, <2>5
<1>4. SendMsg(fd) # {}
  <2>1. CASE fd.err BY <2>1 DEF SendMsg
  <2>2. CASE ~fd.err /\ (fd.shutW \/ fd.conn = "idle") BY <2>2 DEF SendMsg
  <2>3. CASE ~fd.err /\ ~fd.shutW /\ fd.conn = "est" /\ fd.room
    <3>1. Ok(1, [fd EXCEPT !.room = TRUE]) \in SendMsg(fd) BY <2>3 DEF SendMsg
    <3> QED BY <3>1
  <2>4. CASE ~fd.err /\ ~fd.shutW /\ fd.conn # "idle" /\ ~(fd.conn = "est" /\ fd.room)
    <3>1. SendMsg(fd) = WouldBlock(fd) BY <2>4 DEF SendMsg
    <3> QED BY <1>1, <3>1
  <2> QED BY <2>1, <2>2, <2>3, <2>4
<1>5. AcceptCall(fd) # {}
  BY <1>1 DEF AcceptCall
<1> QED BY <1>3, <1>4, <1>5

LEMMA RegisteredReturns ==
  ASSUME StructInv, BlockInv, calling # NoOp,
         Try(await[calling].sock, await[calling].type) = {}
  PROVE  await[calling].sock \in Fresh
<1> DEFINE s == await[calling].sock
           type == await[calling].type
<1> SUFFICES ASSUME s \notin Fresh PROVE FALSE
  OBVIOUS
<1>1. s \in Socks /\ type \in InTypes \cup OutTypes BY DEF StructInv, CallingInv
<1>2. k[s] \in Fds /\ k[s].nb BY <1>1 DEF StructInv, TypeOK, BlockInv
<1> HIDE DEF s, type
<1>3. RecvMsg(Kind[s], k[s]) # {} /\ SendMsg(k[s]) # {} /\ AcceptCall(k[s]) # {}
  BY <1>2, TransfersReturn
<1>4. Try(s, type) # {}
  <2>1. CASE type \in {"READ", "RECVFROM"}
    <3>1. Try(s, type) = {[r |-> SizeResult(o), fd |-> o.fd] : o \in RecvMsg(Kind[s], k[s])}
      BY <2>1 DEF Try, OutTypes
    <3> QED BY <1>3, <3>1
  <2>2. CASE type \in OutTypes
    <3>1. Try(s, type) = {[r |-> SizeResult(o), fd |-> o.fd] : o \in SendMsg(k[s])}
      BY <2>2 DEF Try, OutTypes
    <3> QED BY <1>3, <3>1
  <2>3. CASE type = "ACCEPT"
    <3>1. Try(s, type) = {[r |-> IntResult(o), fd |-> o.fd] : o \in AcceptCall(k[s])}
      BY <2>3 DEF Try, OutTypes
    <3> QED BY <1>3, <3>1
  <2> QED BY <1>1, <2>1, <2>2, <2>3 DEF InTypes
<1> QED BY <1>4 DEF s, type

(* The loop blocks inside a Submit call only on a socket that accept()     *)
(* made: all others are non-blocking from their registration to their end  *)
(* (linuxsock.h:157-161, 251, 260).                                        *)
THEOREM OnlyAcceptedBlock == Spec => []BlocksOnAcceptedOnly
<1>1. Init => StructInv /\ BlockInv BY InitStruct, InitBlock
<1>2. StructInv /\ BlockInv /\ [Next]_vars => (StructInv /\ BlockInv)'
  BY NextStruct, NextBlock
<1>3. StructInv /\ BlockInv => BlocksOnAcceptedOnly
  BY RegisteredReturns DEF BlocksOnAcceptedOnly
<1> QED BY <1>1, <1>2, <1>3, PTL DEF Spec

-----------------------------------------------------------------------------
(* A wait on a timer starts without the tick of an earlier period, and the *)
(* tick that comes later is reported as long as the wait is there, however *)
(* often Wait has left earlier ticks unread (linuxtimer.h:46-51,           *)
(* epollimpl.h:156-158, 229-235).                                          *)
THEOREM TicksAreOwn == Spec => EachWaitHasItsOwnTick
<1> DEFINE Parts == StructInv /\ CalmInv /\ TickInv
<1>1. Init => Parts BY InitStruct, InitCalm, InitTick
<1>2. Parts /\ [Next]_vars => Parts' BY NextStruct, NextCalm, NextTick
<1>3. Parts /\ [Next]_vars
        => [\A s \in Socks : Kind[s] = "TIMER" =>
              /\ PendingIn(s)' \subseteq PendingIn(s) \/ k'[s].in = 0
              /\ (PendingIn(s)' # {} /\ k'[s].in > 0 /\ pc' # "crashed") =>
                   k'[s].ready \/ \E b \in batch' : b.sock = s /\ "IN" \in b.events]_vars
  BY NextOwnTick
<1> QED BY <1>1, <1>2, <1>3, PTL DEF Spec, EachWaitHasItsOwnTick

(* A signal operation completes only while a signal is pending, and no     *)
(* step takes a pending signal away (epollimpl.h:236-246).                 *)
THEOREM SignalsStay == Spec => SignalIsNotConsumed
<1>1. Init => DeliveryInv /\ CalmInv BY InitDelivery, InitCalm
<1>2. DeliveryInv /\ CalmInv /\ [Next]_vars => (DeliveryInv /\ CalmInv)'
  BY NextDelivery, NextCalm DEF DeliveryInv
<1>3. DeliveryInv /\ CalmInv /\ [Next]_vars
        => [\A s \in Socks : Kind[s] = "SIGNALFD" =>
              /\ (slot[s].sock /\ slot[s].type = "SIGNAL" /\ slot'[s].type = "NOOP") => k[s].in > 0
              /\ k'[s].in >= k[s].in]_vars
  BY NextSignalStays
<1> QED BY <1>1, <1>2, <1>3, PTL DEF Spec, SignalIsNotConsumed
-----------------------------------------------------------------------------
(* Programs whose operations do not overlap: an accept is the one its      *)
(* acceptor calls.                                                         *)
LEMMA BeginsSlots ==
  ASSUME NEW op \in Ops, NEW s \in Socks, NEW type, NEW t,
         Begins(op, s, type, t),
         slot'[s].sock /\ slot'[s].type # "NOOP" => slot'[s].ev = Event(op)
  PROVE  /\ PendingIn(s)' \subseteq {op}
         /\ \A x \in Socks : x # s => PendingIn(x)' = PendingIn(x)
<1>1. Event(op).cb = op BY EventTyped
<1> QED BY <1>1 DEF PendingIn, Begins

LEMMA InitOwn == Init => OwnInv
  BY DEF Init, OwnInv, Unissued

LEMMA BeginsOwn ==
  ASSUME DeliveryInv, OwnInv, ~Overlap, NEW op \in Ops, NEW s \in Socks, NEW type, NEW t,
         Begins(op, s, type, t),
         slot'[s].sock /\ slot'[s].type # "NOOP" => slot'[s].ev = Event(op)
  PROVE  OwnInv'
<1>1. StructInv /\ TypeOK BY DEF DeliveryInv, StructInv
<1>2. /\ Started(op, type, s, t) /\ ~Issued(op) /\ runs' = runs /\ redelivered' = redelivered
      /\ waiting' = IF type = "ACCEPT" THEN [waiting EXCEPT ![s] = op] ELSE waiting
      /\ \A p \in Ops : await[p].sock = s => runs[p] # 0
  BY DEF Begins, MayStart, Issued
<1>3. /\ await'[op] = [type |-> type, sock |-> s, target |-> t]
      /\ \A q \in Ops : q # op => await'[q] = await[q]
  BY <1>1, <1>2, StartedIssued
<1>4. op \notin redelivered BY <1>2, NewIsNowhere
<1>5. waiting \in [Socks -> Ops \cup {NoOp}] BY <1>1 DEF TypeOK
<1>6. ASSUME NEW q \in Ops, await'[q].type = "ACCEPT"
      PROVE  q \notin redelivered' /\ (runs'[q] = 0 => waiting'[await'[q].sock] = q)
  <2>1. CASE q = op
    <3>1. type = "ACCEPT" /\ await'[q].sock = s BY <1>3, <1>6, <2>1
    <3> QED BY <1>2, <1>4, <1>5, <2>1, <3>1
  <2>2. CASE q # op
    <3>1. await'[q] = await[q] BY <1>3, <2>2
    <3>2. await[q].sock # s \/ runs[q] # 0 BY <1>2
    <3>3. await[q].sock # s => waiting'[await[q].sock] = waiting[await[q].sock]
      BY <1>2, <1>5
    <3> QED BY <1>2, <1>6, <3>1, <3>2, <3>3 DEF OwnInv
  <2> QED BY <2>1, <2>2
<1>7. \A x \in Socks : PendingIn(x)' \cap redelivered' = {}
  BY <1>2, <1>4, BeginsSlots DEF OwnInv
<1> QED BY <1>6, <1>7 DEF OwnInv

LEMMA ClearsPending ==
  ASSUME NEW s \in Socks, NEW ev, Clears(s, ev)
  PROVE  PendingIn(s)' = {} /\ \A x \in Socks : x # s => PendingIn(x)' = PendingIn(x)
  BY DEF Clears, PendingIn

LEMMA EndsOwn ==
  ASSUME OwnInv, ~Overlap, NEW s \in Socks, NEW ev, Ends(s, ev) PROVE OwnInv'
<1>1. Clears(s, ev) /\ redelivered' = redelivered BY DEF Ends
<1>2. UNCHANGED <<await, waiting, runs>> BY <1>1 DEF Clears
<1> QED BY <1>1, <1>2, ClearsPending DEF OwnInv

LEMMA EndsAgainOwn ==
  ASSUME DeliveryInv, CalmInv, OwnInv, ~Overlap, NEW s \in Socks, NEW ev, EndsAgain(s, ev)
  PROVE  OwnInv'
<1> DEFINE q == slot[s].ev.cb
<1>1. StructInv /\ TypesInv BY DEF DeliveryInv
<1>2. /\ Clears(s, ev) /\ redelivered' = redelivered \cup {q} /\ slot[s].sock
      /\ UNCHANGED <<await, waiting, runs>>
  BY DEF EndsAgain, Clears
<1>3. PICK b \in batch : b.sock = s /\ "ERR" \in b.events BY DEF EndsAgain
<1>4. q \in Ops /\ await[q].sock = s BY <1>1, <1>2 DEF StructInv, SlotInv
<1>5. Issued(q) BY <1>4, EpollAssumption DEF Issued, Unissued
<1>6. await[q].type # "ACCEPT"
  <2>1. await[q].type = "ACCEPT" => Kind[s] = "LISTENER" BY <1>1, <1>4, <1>5 DEF TypesInv, Fits
  <2> QED BY <1>3, <2>1 DEF CalmInv, CalmKinds
<1>7. \A x \in Socks : x # s => q \notin PendingIn(x)
  BY <1>1, <1>4, PendingWhere
<1> HIDE DEF q
<1>8. \A x \in Socks : PendingIn(x)' \cap redelivered' = {}
  BY <1>2, <1>7, ClearsPending DEF OwnInv
<1> QED BY <1>2, <1>6, <1>8 DEF OwnInv

(* AcceptCallback calls the accept that completed. *)
LEMMA CallsItsOwn ==
  ASSUME DeliveryInv, OwnInv, ~Overlap, Calls
  PROVE  /\ waitset[1].cb \in Ops /\ Callee(waitset[1]) = waitset[1].cb
         /\ redelivered' = redelivered /\ displaced' = displaced
         /\ 1 \in 1..Len(waitset)
<1> DEFINE q == waitset[1].cb
<1>1. StructInv /\ Sums BY ExactlyOnceIsSums DEF DeliveryInv
<1>2. waitset \in Seq(CompletedEvents) /\ waitset # <<>> /\ pc = "scan"
  BY <1>1 DEF StructInv, LoopInv, Calls
<1>3. 1 \in 1..Len(waitset) BY <1>2, EmptySeq
<1>4. waitset[1] \in CompletedEvents BY <1>2, <1>3, ElementOfSeq
<1>5. q \in Ops BY <1>4 DEF CompletedEvents
<1>6. Callee(waitset[1]) = q
  <2>1. CASE await[q].type # "ACCEPT" BY <2>1 DEF Callee
  <2>2. CASE await[q].type = "ACCEPT"
    <3>1. q \notin redelivered BY <1>5, <2>2 DEF OwnInv
    <3>2. Balanced(q) /\ Queue(q) \in Nat /\ runs[q] \in 0..2
      BY <1>1, <1>5, <3>1, SumTerms DEF Sums
    <3>3. Queue(q) # 0
      <4>1. Lo = 1 BY <1>2 DEF Lo
      <4> QED BY <1>1, <1>3, <1>5, <4>1, SumTerms
    <3>4. runs[q] = 0 BY <3>2, <3>3 DEF Balanced, One
    <3> QED BY <1>5, <2>2, <3>4 DEF OwnInv, Callee
  <2> QED BY <2>1, <2>2
<1> QED BY <1>3, <1>5, <1>6 DEF Calls, Called

LEMMA CallsOwn ==
  ASSUME DeliveryInv, OwnInv, ~Overlap, Calls PROVE OwnInv'
<1>1. /\ redelivered' = redelivered /\ waitset[1].cb \in Ops
      /\ Callee(waitset[1]) = waitset[1].cb
  BY CallsItsOwn
<1>2. /\ UNCHANGED <<slot, await, waiting>>
      /\ runs' = [runs EXCEPT ![waitset[1].cb] = IF @ = 2 THEN 2 ELSE @ + 1]
  BY <1>1 DEF Calls, Called
<1>3. runs \in [Ops -> 0..2] BY DEF DeliveryInv, StructInv, TypeOK
<1>4. \A q \in Ops : runs'[q] = 0 => runs[q] = 0 BY <1>1, <1>2, <1>3
<1>5. \A x \in Socks : PendingIn(x)' = PendingIn(x) BY <1>2 DEF PendingIn
<1> QED BY <1>1, <1>2, <1>4, <1>5 DEF OwnInv

LEMMA NextOwn ==
  ASSUME DeliveryInv, CalmInv, OwnInv, [Next]_vars PROVE OwnInv'
<1>1. StructInv /\ TypesInv BY DEF DeliveryInv
<1> SUFFICES ASSUME ~Overlap PROVE OwnInv'
  BY DEF OwnInv
<1>2. CASE Stays
  <2>1. \A x \in Socks : PendingIn(x)' = PendingIn(x) BY <1>2 DEF Stays, Same, PendingIn
  <2> QED BY <1>2, <2>1 DEF Stays, OwnInv
<1>3. ASSUME NEW op \in Ops, NEW s \in Socks, NEW type, NEW t, Waits(op, s, type, t)
      PROVE  OwnInv'
  BY <1>3, BeginsOwn DEF Waits
<1>4. ASSUME NEW op \in Ops, NEW s \in Socks, NEW ev, Fails(op, s, ev) PROVE OwnInv'
  BY <1>4, BeginsOwn DEF Fails
<1>5. CASE Returns
  <2>1. \A x \in Socks : PendingIn(x)' = PendingIn(x) BY <1>5 DEF Returns, PendingIn
  <2> QED BY <1>5, <2>1 DEF Returns, OwnInv
<1> QED BY <1>1, <1>2, <1>3, <1>4, <1>5, EndsOwn, EndsAgainOwn, CallsOwn, Shapes
-----------------------------------------------------------------------------
(* Who opens, registers or closes the sockets that accepts fill.           *)
LEMMA FilledBy ==
  ASSUME StructInv, StepShape, NEW s \in Socks,
         slot[s].type = "ACCEPT", slot'[s].type = "NOOP",
         NEW e \in Events, e.cb \in Ops, e.error = 0, waitset' = SubmitComplete(waitset, e)
  PROVE  \E ev \in Events : Ends(s, ev) /\ ev.error = 0
<1> DEFINE n == Len(waitset) + 1
<1>1. /\ Len(waitset') = n /\ Len(waitset) \in Nat /\ waitset \in Seq(CompletedEvents)
      /\ waitset'[n].error = 0
  BY SubmitCompleteElements, LenProperties DEF StructInv, LoopInv
<1>2. ~Stays BY DEF Stays, Same
<1>3. ASSUME NEW x \in Socks, NEW ev \in Events, Clears(x, ev)
      PROVE  x = s /\ ev.error = 0
  <2>1. x = s BY <1>3 DEF Clears
  <2>2. ev.cb \in Ops /\ waitset' = SubmitComplete(waitset, ev)
    BY <1>3 DEF Clears, StructInv, SlotInv
  <2>3. waitset'[n].error = ev.error BY <1>1, <2>2, SubmitCompleteElements
  <2> QED BY <1>1, <2>1, <2>3
<1>4. CASE \E x \in Socks, ev \in Events : Ends(x, ev)
  BY <1>3, <1>4 DEF Ends
<1>5. CASE \E x \in Socks, ev \in Events : EndsAgain(x, ev)
  BY <1>3, <1>5 DEF EndsAgain
<1> QED BY <1>2, <1>4, <1>5 DEF StepShape

Fills(x) ==
  \E s \in Socks, ev \in Events :
    Ends(s, ev) /\ slot[s].type = "ACCEPT" /\ ev.error = 0 /\ slot[s].data = x

LEMMA TriedFills ==
  ASSUME StructInv, TypesInv, Tried, NEW x \in Fresh PROVE Still(x) \/ Fills(x)
<1> DEFINE s == await[calling].sock
           type == await[calling].type
<1>1. TypeOK /\ LoopInv BY DEF StructInv
<1>2. /\ calling \in Ops /\ s \in Socks /\ type \in InTypes \cup OutTypes
      /\ slot[s].sock /\ slot[s].ev.cb = calling /\ slot[s].type = type
  BY <1>1 DEF Tried, StructInv, CallingInv, TypeOK
<1>3. PICK t \in Try(s, type) :
        /\ k' = KernelAfter(s, type, t)
        /\ \/ t.r = -EAGAIN
           \/ /\ waitset' = SubmitComplete(waitset, Outcome(Event(calling), t.r))
              /\ slot' = [slot EXCEPT ![s] = Clear(slot[s])]
  BY DEF Tried
<1> SUFFICES ASSUME ~Still(x) PROVE Fills(x)
  OBVIOUS
<1> HIDE DEF s, type
<1>4. type = "ACCEPT" /\ t.r = 0 /\ x = slot[s].data BY <1>2, <1>3, TryDescends
<1>5. /\ waitset' = SubmitComplete(waitset, Outcome(Event(calling), t.r))
      /\ slot' = [slot EXCEPT ![s] = Clear(slot[s])]
  BY <1>3, <1>4 DEF EAGAIN
<1> DEFINE e == Outcome(Event(calling), t.r)
<1>6. e \in Events /\ e.cb = calling /\ e.error = 0 BY <1>2, <1>4, OutcomeFields
<1>7. slot'[s].type = "NOOP" BY <1>1, <1>2, <1>5, ClearTyped DEF TypeOK
<1>8. StepShape BY <1>1, TriedShape DEF StepShape
<1>9. waitset' = SubmitComplete(waitset, e) BY <1>5
<1> HIDE DEF e
<1> QED BY <1>2, <1>4, <1>6, <1>7, <1>8, <1>9, FilledBy DEF Fills

LEMMA TransferFills ==
  ASSUME StructInv, TypesInv, NEW b \in batch, DispatchTransfer(b), NEW x \in Fresh
  PROVE  Still(x) \/ Fills(x)
<1> DEFINE s == b.sock
           type == slot[s].type
           fl == Flagged(b)
<1>1. Served(b) /\ type \in InTypes \cup OutTypes BY DEF DispatchTransfer, Edge
<1>2. /\ s \in Socks /\ slot[s].sock /\ slot[s] \in Slots /\ slot[s].ev.cb \in Ops
      /\ slot \in [Socks -> Slots]
  BY <1>1, ServedKeeps
<1>3. PICK t \in Try(s, type) :
        /\ k' = KernelAfter(s, type, t)
        /\ \/ t.r = -EAGAIN
           \/ Completed(b, Outcome(slot[s].ev, t.r), fl)
  BY DEF DispatchTransfer
<1> SUFFICES ASSUME ~Still(x) PROVE Fills(x)
  OBVIOUS
<1>4. fl \in Slots BY FlaggedSame
<1> HIDE DEF s, fl
<1>5. type = "ACCEPT" /\ t.r = 0 /\ x = slot[s].data BY <1>1, <1>2, <1>3, TryDescends
<1> DEFINE op == slot[s].ev.cb
           f == slot[s].ev
           e == Outcome(f, t.r)
<1>6. f = Event(op) BY <1>2, <1>5 DEF TypesInv
<1>7. e \in Events /\ e.cb = op /\ e.error = 0 BY <1>2, <1>5, <1>6, OutcomeFields
<1>8. /\ waitset' = SubmitComplete(waitset, e)
      /\ slot' = [slot EXCEPT ![s] = [Clear(fl) EXCEPT !.ev = e]]
  BY <1>3, <1>5 DEF Completed, EAGAIN, s
<1> DEFINE new == [Clear(fl) EXCEPT !.ev = e]
<1>9. new.type = "NOOP" BY <1>4, <1>7, CompletedTyped
<1> HIDE DEF new, e
<1>10. slot'[s].type = "NOOP" BY <1>2, <1>8, <1>9 DEF new
<1>11. StepShape BY DispatchTransferShape
<1> QED BY <1>2, <1>5, <1>7, <1>8, <1>10, <1>11, FilledBy DEF Fills

LEMMA FreshSteps ==
  ASSUME StructInv, TypesInv, [Next]_vars, NEW x \in Fresh
  PROVE  \/ Still(x)
         \/ Stays /\ FreeTarget(x)
         \/ Stays /\ k[x].reg /\ ~k'[x].open /\ ~k'[x].reg
         \/ Calls /\ k'[x].open = k[x].open
              /\ await[Callee(waitset[1])].type = "ACCEPT"
              /\ x = await[Callee(waitset[1])].target /\ waitset[1].error = 0
         \/ Fills(x)
<1>1. TypeOK BY DEF StructInv
<1>2. CASE \E op \in Ops : Submit(op) BY <1>2, SubmitDescends
<1>3. CASE DirectCall BY <1>3, DirectDescends, StaysShape
<1>4. CASE \/ StartRun \/ LoopTest \/ StartWait \/ UserEnd \/ Interrupted \/ EndCallback
           \/ UNCHANGED vars
  BY <1>1, <1>4, QuietDescends
<1>5. CASE StartCallback
  <2>1. Calls BY <1>5, CallsShape
  <2> QED BY <2>1, CallsDescends
<1>6. CASE Harvest BY <1>1, <1>6, HarvestDescends
<1>7. CASE Tried BY <1>7, TriedFills
<1>8. CASE Environment BY <1>1, <1>8, WorldDescends, FreshAreSocks
<1>9. CASE Dispatch
  <2>1. PICK b \in batch :
          \/ DispatchNull(b) \/ DispatchError(b) \/ DispatchHangup(b) \/ DispatchIdle(b)
          \/ DispatchTransfer(b) \/ DispatchConnect(b) \/ DispatchTimer(b)
          \/ DispatchSignal(b)
    BY <1>9 DEF Dispatch
  <2>2. CASE DispatchTransfer(b) BY <2>2, TransferFills
  <2>3. CASE DispatchSignal(b) BY <2>3, SignalDescends
  <2>4. CASE \/ DispatchNull(b) \/ DispatchError(b) \/ DispatchHangup(b)
             \/ DispatchIdle(b) \/ DispatchConnect(b) \/ DispatchTimer(b)
    BY <1>1, <2>4, QuietDescends
  <2> QED BY <2>1, <2>2, <2>3, <2>4
<1> QED BY <1>2, <1>3, <1>4, <1>5, <1>6, <1>7, <1>8, <1>9 DEF Next, LoopStep
LEMMA FreshStays ==
  ASSUME StructInv, TypesInv, [Next]_vars, Stays, NEW x \in Fresh
  PROVE  Still(x) \/ FreeTarget(x) \/ (k[x].reg /\ ~k'[x].open /\ ~k'[x].reg)
<1>1. ~Calls BY DEF Stays, Calls
<1>2. ~Fills(x) BY DEF Stays, Same, Fills, Ends, Clears
<1> QED BY <1>1, <1>2, FreshSteps

LEMMA FreshBegins ==
  ASSUME StructInv, TypesInv, [Next]_vars, NEW op \in Ops, NEW s \in Socks, NEW type, NEW t,
         Begins(op, s, type, t), NEW x \in Fresh
  PROVE  Still(x)
<1>1. await' # await
  BY StartedIssued DEF Begins, MayStart, Issued
<1>2. ~Calls /\ ~Stays /\ ~Fills(x) BY <1>1 DEF Calls, Stays, Fills, Ends, Clears
<1> QED BY <1>2, FreshSteps

LEMMA FreshClears ==
  ASSUME StructInv, TypesInv, [Next]_vars, NEW s \in Socks, NEW ev \in Events, Clears(s, ev),
         NEW x \in Fresh
  PROVE  Still(x) \/ (slot[s].type = "ACCEPT" /\ x = slot[s].data)
<1>1. ev.cb \in Ops /\ waitset' = SubmitComplete(waitset, ev) /\ waitset \in Seq(CompletedEvents)
  BY DEF Clears, StructInv, SlotInv, LoopInv
<1>2. Len(waitset') = Len(waitset) + 1 /\ Len(waitset) \in Nat
  BY <1>1, SubmitCompleteElements, LenProperties
<1>3. waitset' # waitset BY <1>2
<1>4. ~Calls /\ ~Stays BY <1>3 DEF Calls, Stays
<1>5. Fills(x) => slot[s].type = "ACCEPT" /\ x = slot[s].data
  <2> SUFFICES ASSUME NEW y \in Socks, NEW e \in Events, Ends(y, e), slot[y].type = "ACCEPT",
                      slot[y].data = x
               PROVE  y = s
    BY DEF Fills
  <2> QED BY DEF Ends, Clears
<1> QED BY <1>4, <1>5, FreshSteps

LEMMA FreshCalls ==
  ASSUME DeliveryInv, OwnInv, ~Overlap, [Next]_vars, Calls, NEW x \in Fresh
  PROVE  /\ k'[x].open = k[x].open
         /\ Still(x) \/ (ToResume(1) /\ x = await[waitset[1].cb].target)
<1>1. StructInv /\ TypesInv BY DEF DeliveryInv
<1>2. ~Stays /\ ~Fills(x) BY DEF Calls, Stays, Fills, Ends, Clears
<1>3. Callee(waitset[1]) = waitset[1].cb /\ pc = "scan" BY CallsItsOwn DEF Calls
<1> QED BY <1>1, <1>2, <1>3, FreshSteps DEF Still, ToResume

LEMMA TargetIsFresh ==
  ASSUME DeliveryInv
  PROVE  /\ \A s \in Socks : Accepting(s) => slot[s].data \in Fresh /\ slot[s].ev.cb \in Ops
         /\ \A i \in 1..Len(waitset) : ToResume(i) => await[waitset[i].cb].target \in Fresh
<1>1. StructInv BY DEF DeliveryInv
<1> QED BY <1>1, OldItem DEF StructInv, SlotInv, AwaitInv, Accepting, ToResume

LEMMA InitAccept == Init => AcceptInv
<1> SUFFICES ASSUME Init PROVE AcceptInv
  OBVIOUS
<1>1. waitset = <<>> /\ \A s \in Socks : ~Accepting(s)
  BY DEF Init, LoopInit, NewSlot, Accepting
<1> QED BY <1>1 DEF AcceptInv

LEMMA StaysAccept ==
  ASSUME DeliveryInv, AcceptInv, ~Overlap, [Next]_vars, Stays PROVE AcceptInv'
<1>1. StructInv /\ TypesInv BY DEF DeliveryInv
<1>2. UNCHANGED <<waitset, it, await>> /\ (pc' = "callback" <=> pc = "callback") BY DEF Stays
<1>3. \A s \in Socks : /\ Accepting(s)' <=> Accepting(s)
                       /\ slot'[s].data = slot[s].data /\ slot'[s].ev = slot[s].ev
  BY DEF Stays, Same, Accepting
<1>4. \A i \in 1..Len(waitset) : ToResume(i)' <=> ToResume(i) BY <1>2 DEF ToResume
<1>5. ASSUME NEW s \in Socks, Accepting(s)
      PROVE  slot[s].data = await[slot[s].ev.cb].target /\ ~k'[slot[s].data].open
  <2>1. slot[s].data \in Fresh /\ ~k[slot[s].data].open
    BY <1>5, TargetIsFresh DEF AcceptInv
  <2>2. ~FreeTarget(slot[s].data) BY <1>5 DEF FreeTarget, Accepting
  <2>3. ~k'[slot[s].data].open BY <1>1, <2>1, <2>2, FreshStays DEF Still
  <2> QED BY <1>5, <2>3 DEF AcceptInv
<1>6. ASSUME NEW i \in 1..Len(waitset), ToResume(i)
      PROVE  k'[await[waitset[i].cb].target].open /\ ~k'[await[waitset[i].cb].target].reg
  <2> DEFINE t == await[waitset[i].cb].target
  <2>1. t \in Fresh /\ k[t].open /\ ~k[t].reg BY <1>6, TargetIsFresh DEF AcceptInv
  <2> HIDE DEF t
  <2>2. ~FreeTarget(t) BY <2>1 DEF FreeTarget
  <2>3. Still(t) BY <1>1, <2>1, <2>2, FreshStays
  <2> QED BY <2>1, <2>3 DEF Still, t
<1> QED BY <1>2, <1>3, <1>4, <1>5, <1>6 DEF AcceptInv

(* The slots and the list after a Submit call, but for what it begins. *)
LEMMA BeginsAccept ==
  ASSUME DeliveryInv, AcceptInv, ~Overlap, [Next]_vars, NEW op \in Ops, NEW s \in Socks,
         NEW type, NEW t, Begins(op, s, type, t)
  PROVE  /\ \A x \in Socks : x # s /\ Accepting(x)' =>
              /\ Accepting(x) /\ slot'[x] = slot[x]
              /\ slot[x].data = await'[slot[x].ev.cb].target /\ ~k'[slot[x].data].open
         /\ \A i \in 1..Len(waitset) :
              /\ await'[waitset[i].cb] = await[waitset[i].cb]
              /\ ToResume(i) =>
                   /\ k'[await[waitset[i].cb].target].open
                   /\ ~k'[await[waitset[i].cb].target].reg
<1>1. StructInv /\ TypesInv BY DEF DeliveryInv
<1>2. \A x \in Fresh : Still(x) BY <1>1, FreshBegins
<1>3. /\ ~Issued(op) /\ \A x \in Socks : x # s => slot'[x] = slot[x]
      /\ \A q \in Ops : q # op => await'[q] = await[q]
  BY <1>1, StartedIssued DEF Begins, MayStart, Issued
<1>4. ASSUME NEW x \in Socks, x # s, Accepting(x)'
      PROVE  /\ Accepting(x) /\ slot'[x] = slot[x]
             /\ slot[x].data = await'[slot[x].ev.cb].target /\ ~k'[slot[x].data].open
  <2>1. Accepting(x) /\ slot'[x] = slot[x] BY <1>3, <1>4 DEF Accepting
  <2>2. slot[x].ev.cb \in Ops /\ slot[x].data \in Fresh BY <2>1, TargetIsFresh
  <2>3. slot[x].ev.cb \in PendingIn(x) BY <2>1, <2>2 DEF PendingIn, Accepting
  <2>4. slot[x].ev.cb # op BY <1>1, <1>3, <2>3, PendingWhere
  <2> QED BY <1>2, <1>3, <2>1, <2>2, <2>4 DEF AcceptInv, Still
<1>5. ASSUME NEW i \in 1..Len(waitset)
      PROVE  /\ await'[waitset[i].cb] = await[waitset[i].cb]
             /\ ToResume(i) =>
                  /\ k'[await[waitset[i].cb].target].open
                  /\ ~k'[await[waitset[i].cb].target].reg
  <2>1. await'[waitset[i].cb] = await[waitset[i].cb] BY <1>1, OldItem, AwaitsStay
  <2> QED BY <1>2, <2>1, TargetIsFresh DEF AcceptInv, Still
<1> QED BY <1>4, <1>5
LEMMA WaitsAccept ==
  ASSUME DeliveryInv, AcceptInv, ~Overlap, [Next]_vars, NEW op \in Ops, NEW s \in Socks,
         NEW type, NEW t, Waits(op, s, type, t)
  PROVE  AcceptInv'
<1>1. StructInv BY DEF DeliveryInv
<1>2. /\ Begins(op, s, type, t) /\ waitset' = waitset
      /\ slot'[s].sock /\ slot'[s].type = type /\ slot'[s].ev = Event(op)
      /\ type = "ACCEPT" => slot'[s].data = t
  BY DEF Waits
<1>3. /\ \A x \in Socks : x # s /\ Accepting(x)' =>
           /\ Accepting(x) /\ slot'[x] = slot[x]
           /\ slot[x].data = await'[slot[x].ev.cb].target /\ ~k'[slot[x].data].open
      /\ \A i \in 1..Len(waitset) :
           /\ await'[waitset[i].cb] = await[waitset[i].cb]
           /\ ToResume(i) =>
                /\ k'[await[waitset[i].cb].target].open
                /\ ~k'[await[waitset[i].cb].target].reg
  BY <1>2, BeginsAccept
<1>4. pc' = pc /\ it' = it BY <1>2 DEF Begins
<1>5. \A i \in 1..Len(waitset) : ToResume(i)' <=> ToResume(i)
  BY <1>2, <1>3, <1>4 DEF ToResume
<1>6. ASSUME Accepting(s)'
      PROVE  /\ slot'[s].data = await'[slot'[s].ev.cb].target /\ ~k'[slot'[s].data].open
             /\ \A x \in Socks : x # s /\ Accepting(x)' => slot'[x].data # slot'[s].data
  <2>1. type = "ACCEPT" /\ slot'[s].data = t BY <1>2, <1>6 DEF Accepting
  <2>2. Started(op, type, s, t) /\ FreeTarget(t) BY <1>2, <2>1 DEF Begins
  <2>3. await'[op] = [type |-> type, sock |-> s, target |-> t] BY <1>1, <2>2, StartedIssued
  <2>4. await'[op].target = t BY <2>3
  <2>5. slot'[s].ev.cb = op BY <1>2, EventTyped
  <2>6. Still(t) /\ ~k[t].open
    <3>1. t \in Fresh /\ ~k[t].open BY <2>2 DEF FreeTarget
    <3>2. TypesInv BY DEF DeliveryInv
    <3> QED BY <1>1, <1>2, <3>1, <3>2, FreshBegins
  <2>7. ASSUME NEW x \in Socks, x # s, Accepting(x)' PROVE slot'[x].data # t
    <3>1. Accepting(x) /\ slot'[x] = slot[x] BY <1>3, <2>7
    <3> QED BY <2>2, <3>1 DEF FreeTarget, Accepting
  <2> QED BY <2>1, <2>4, <2>5, <2>6, <2>7 DEF Still
<1>7. \A x \in Socks : Accepting(x)' =>
         slot'[x].data = await'[slot'[x].ev.cb].target /\ ~k'[slot'[x].data].open
  BY <1>3, <1>6
<1>8. ASSUME NEW x \in Socks, NEW y \in Socks, Accepting(x)', Accepting(y)',
             slot'[x].data = slot'[y].data
      PROVE  x = y
  <2>1. CASE x = s BY <1>6, <1>8, <2>1
  <2>2. CASE y = s BY <1>6, <1>8, <2>2
  <2>3. CASE x # s /\ y # s BY <1>3, <1>8, <2>3 DEF AcceptInv
  <2> QED BY <2>1, <2>2, <2>3
<1>9. \A i \in 1..Len(waitset') : ToResume(i)' =>
         LET u == await'[waitset'[i].cb].target IN k'[u].open /\ ~k'[u].reg
  BY <1>2, <1>3, <1>5
<1>10. \A i, j \in 1..Len(waitset') :
         /\ ToResume(i)' /\ ToResume(j)'
         /\ await'[waitset'[i].cb].target = await'[waitset'[j].cb].target
         => i = j
  BY <1>2, <1>3, <1>5 DEF AcceptInv
<1> QED BY <1>7, <1>8, <1>9, <1>10 DEF AcceptInv

(* An event that no accept was given cannot resume one. *)
LEMMA OldResumes ==
  ASSUME DeliveryInv, [Next]_vars, NEW ev \in Events, ev.cb \in Ops,
         waitset' = SubmitComplete(waitset, ev), it' = it,
         pc' = "callback" <=> pc = "callback",
         NEW i \in 1..Len(waitset'), ToResume(i)'
  PROVE  \/ /\ i \in 1..Len(waitset) /\ ToResume(i) /\ waitset'[i] = waitset[i]
            /\ await'[waitset[i].cb] = await[waitset[i].cb]
         \/ /\ i = Len(waitset) + 1 /\ waitset'[i].cb = ev.cb
            /\ await'[ev.cb].type = "ACCEPT" /\ ev.error = 0
<1>1. StructInv /\ TypesInv BY DEF DeliveryInv
<1>2. CASE i \in 1..Len(waitset) /\ waitset'[i] = waitset[i]
  <2>1. await'[waitset[i].cb] = await[waitset[i].cb] BY <1>1, <1>2, OldItem, AwaitsStay
  <2> QED BY <1>2, <2>1 DEF ToResume
<1>3. CASE i = Len(waitset) + 1 /\ Like(waitset'[i], ev)
  BY <1>3 DEF Like, ToResume
<1> QED BY <1>1, <1>2, <1>3, NewItem

LEMMA FailsAccept ==
  ASSUME DeliveryInv, AcceptInv, ~Overlap, [Next]_vars, NEW op \in Ops, NEW s \in Socks,
         NEW ev \in Events, Fails(op, s, ev)
  PROVE  AcceptInv'
<1>1. StructInv BY DEF DeliveryInv
<1>2. /\ Begins(op, s, "CONNECT", NoSock) /\ slot'[s].type = "NOOP" /\ ev.cb = op
      /\ waitset' = SubmitComplete(waitset, ev)
  BY DEF Fails
<1>3. /\ \A x \in Socks : x # s /\ Accepting(x)' =>
           /\ Accepting(x) /\ slot'[x] = slot[x]
           /\ slot[x].data = await'[slot[x].ev.cb].target /\ ~k'[slot[x].data].open
      /\ \A i \in 1..Len(waitset) :
           /\ await'[waitset[i].cb] = await[waitset[i].cb]
           /\ ToResume(i) =>
                /\ k'[await[waitset[i].cb].target].open
                /\ ~k'[await[waitset[i].cb].target].reg
  BY <1>2, BeginsAccept
<1>4. pc' = pc /\ it' = it BY <1>2 DEF Begins
<1>5. ~Accepting(s)' BY <1>2 DEF Accepting
<1>6. await'[op].type # "ACCEPT"
  <2>1. await'[op] = [type |-> "CONNECT", sock |-> s, target |-> NoSock] BY <1>1, FailsStarts
  <2> QED BY <2>1
<1>7. ASSUME NEW i \in 1..Len(waitset'), ToResume(i)'
      PROVE  i \in 1..Len(waitset) /\ ToResume(i) /\ waitset'[i] = waitset[i]
  BY <1>2, <1>4, <1>6, <1>7, OldResumes
<1>8. \A x \in Socks : Accepting(x)' =>
         slot'[x].data = await'[slot'[x].ev.cb].target /\ ~k'[slot'[x].data].open
  BY <1>3, <1>5
<1>9. \A x, y \in Socks : Accepting(x)' /\ Accepting(y)' /\ slot'[x].data = slot'[y].data => x = y
  BY <1>3, <1>5 DEF AcceptInv
<1>10. \A i \in 1..Len(waitset') : ToResume(i)' =>
         LET u == await'[waitset'[i].cb].target IN k'[u].open /\ ~k'[u].reg
  BY <1>3, <1>7
<1>11. \A i, j \in 1..Len(waitset') :
         /\ ToResume(i)' /\ ToResume(j)'
         /\ await'[waitset'[i].cb].target = await'[waitset'[j].cb].target
         => i = j
  BY <1>3, <1>7 DEF AcceptInv
<1> QED BY <1>8, <1>9, <1>10, <1>11 DEF AcceptInv
(* The descriptor of an accept that completes is open from then on. *)
LEMMA ClearsAccept ==
  ASSUME DeliveryInv, AcceptInv, ~Overlap, [Next]_vars, NEW s \in Socks, NEW ev \in Events,
         Clears(s, ev),
         await[ev.cb].type = "ACCEPT" /\ ev.error = 0
           => slot[s].type = "ACCEPT" /\ k'[slot[s].data] = AcceptedFd
  PROVE  AcceptInv'
<1>1. StructInv /\ TypesInv BY DEF DeliveryInv
<1>2. /\ ev.cb \in Ops /\ ev.cb = slot[s].ev.cb /\ slot[s].sock /\ slot'[s].type = "NOOP"
      /\ waitset' = SubmitComplete(waitset, ev) /\ await' = await /\ it' = it
      /\ pc' = "callback" <=> pc = "callback"
      /\ \A x \in Socks : x # s => slot'[x] = slot[x]
  BY <1>1 DEF Clears, StructInv, SlotInv
<1>3. ASSUME NEW x \in Socks, Accepting(x)'
      PROVE  x # s /\ Accepting(x) /\ slot'[x] = slot[x]
  BY <1>2, <1>3 DEF Accepting
<1>4. ASSUME NEW x \in Socks, Accepting(x)'
      PROVE  slot[x].data = await[slot[x].ev.cb].target /\ ~k'[slot[x].data].open
  <2>1. x # s /\ Accepting(x) /\ slot[x].data \in Fresh BY <1>3, <1>4, TargetIsFresh
  <2>2. slot[x].data = await[slot[x].ev.cb].target /\ ~k[slot[x].data].open
    BY <2>1 DEF AcceptInv
  <2>3. slot[s].type = "ACCEPT" => slot[x].data # slot[s].data
    BY <1>2, <2>1 DEF AcceptInv, Accepting
  <2>4. Still(slot[x].data) BY <1>1, <2>1, <2>3, FreshClears
  <2> QED BY <2>2, <2>4 DEF Still
<1>5. ASSUME NEW i \in 1..Len(waitset), ToResume(i)
      PROVE  LET t == await[waitset[i].cb].target
             IN k[t].open /\ k'[t].open /\ ~k'[t].reg
  <2> DEFINE t == await[waitset[i].cb].target
  <2>1. t \in Fresh /\ k[t].open /\ ~k[t].reg BY <1>5, TargetIsFresh DEF AcceptInv
  <2> HIDE DEF t
  <2>2. slot[s].type = "ACCEPT" => t # slot[s].data BY <1>2, <2>1 DEF AcceptInv, Accepting
  <2>3. Still(t) BY <1>1, <2>1, <2>2, FreshClears
  <2> QED BY <2>1, <2>3 DEF Still, t
<1>6. ASSUME NEW i \in 1..Len(waitset'), ToResume(i)'
      PROVE  \/ i \in 1..Len(waitset) /\ ToResume(i) /\ waitset'[i] = waitset[i]
             \/ /\ i = Len(waitset) + 1 /\ slot[s].type = "ACCEPT"
                /\ await'[waitset'[i].cb].target = slot[s].data
                /\ ~k[slot[s].data].open /\ k'[slot[s].data] = AcceptedFd
  <2>1. CASE i \in 1..Len(waitset) /\ ToResume(i) /\ waitset'[i] = waitset[i] BY <2>1
  <2>2. CASE /\ i = Len(waitset) + 1 /\ waitset'[i].cb = ev.cb
             /\ await'[ev.cb].type = "ACCEPT" /\ ev.error = 0
    <3>1. slot[s].type = "ACCEPT" /\ k'[slot[s].data] = AcceptedFd BY <1>2, <2>2
    <3>2. slot[s].data = await[ev.cb].target /\ ~k[slot[s].data].open
      BY <1>2, <3>1 DEF AcceptInv, Accepting
    <3> QED BY <1>2, <2>2, <3>1, <3>2
  <2> QED BY <1>2, <1>6, <2>1, <2>2, OldResumes
<1>7. \A x \in Socks : Accepting(x)' =>
         slot'[x].data = await'[slot'[x].ev.cb].target /\ ~k'[slot'[x].data].open
  BY <1>2, <1>3, <1>4
<1>8. \A x, y \in Socks : Accepting(x)' /\ Accepting(y)' /\ slot'[x].data = slot'[y].data => x = y
  BY <1>3 DEF AcceptInv
<1>9. \A i \in 1..Len(waitset') : ToResume(i)' =>
         LET u == await'[waitset'[i].cb].target IN k'[u].open /\ ~k'[u].reg
  <2>1. AcceptedFd.open /\ ~AcceptedFd.reg BY DEF AcceptedFd, ClosedFd
  <2> QED BY <1>2, <1>5, <1>6, <2>1
<1>10. ASSUME NEW i \in 1..Len(waitset'), NEW j \in 1..Len(waitset'),
              ToResume(i)', ToResume(j)',
              await'[waitset'[i].cb].target = await'[waitset'[j].cb].target
       PROVE  i = j
  <2>1. CASE i \in 1..Len(waitset) /\ ToResume(i) /\ waitset'[i] = waitset[i]
    <3>1. k[await'[waitset'[i].cb].target].open BY <1>2, <1>5, <2>1
    <3>2. j \in 1..Len(waitset) /\ ToResume(j) /\ waitset'[j] = waitset[j]
      BY <1>6, <1>10, <3>1
    <3> QED BY <1>2, <1>10, <2>1, <3>2 DEF AcceptInv
  <2>2. CASE i = Len(waitset) + 1 /\ ~k[await'[waitset'[i].cb].target].open
    <3>1. ~(j \in 1..Len(waitset) /\ ToResume(j) /\ waitset'[j] = waitset[j])
      BY <1>2, <1>5, <1>10, <2>2
    <3> QED BY <1>6, <1>10, <2>2, <3>1, SMTT(40)
  <2> QED BY <1>6, <1>10, <2>1, <2>2
<1> QED BY <1>7, <1>8, <1>9, <1>10 DEF AcceptInv

LEMMA EndsAccept ==
  ASSUME DeliveryInv, CalmInv, AcceptInv, ~Overlap, [Next]_vars,
         NEW s \in Socks, NEW ev \in Events, Ends(s, ev), Reason(s, ev)
  PROVE  AcceptInv'
<1>1. StructInv /\ TypesInv BY DEF DeliveryInv
<1>2. Clears(s, ev) /\ slot[s].type # "NOOP" /\ slot[s].sock /\ ev.cb = slot[s].ev.cb
  BY DEF Ends, Clears
<1>3. ASSUME await[ev.cb].type = "ACCEPT", ev.error = 0
      PROVE  slot[s].type = "ACCEPT" /\ k'[slot[s].data] = AcceptedFd
  <2>1. slot[s].type = "ACCEPT" BY <1>1, <1>2, <1>3 DEF TypesInv
  <2>2. Kind[s] = "LISTENER" BY <1>1, <1>2, <2>1 DEF StructInv, SlotInv, Fits
  <2>3. ~Reported(s, {"ERR"}) BY <2>2 DEF Reported, CalmInv, CalmKinds
  <2> QED BY <1>3, <2>1, <2>3 DEF Reason
<1> QED BY <1>2, <1>3, ClearsAccept

LEMMA EndsAgainAccept ==
  ASSUME DeliveryInv, CalmInv, AcceptInv, ~Overlap, [Next]_vars,
         NEW s \in Socks, NEW ev \in Events, EndsAgain(s, ev)
  PROVE  AcceptInv'
<1>1. StructInv /\ TypesInv BY DEF DeliveryInv
<1>2. /\ Clears(s, ev) /\ slot[s].sock /\ ev.cb = slot[s].ev.cb
      /\ \E b \in batch : b.sock = s /\ "ERR" \in b.events
  BY DEF EndsAgain, Clears
<1>3. ev.cb \in Ops /\ await[ev.cb].sock = s BY <1>1, <1>2 DEF StructInv, SlotInv
<1>4. Issued(ev.cb) BY <1>3, EpollAssumption DEF Issued, Unissued
<1>5. await[ev.cb].type # "ACCEPT"
  <2>1. await[ev.cb].type = "ACCEPT" => Kind[s] = "LISTENER"
    BY <1>1, <1>3, <1>4 DEF TypesInv, Fits
  <2> QED BY <1>2, <2>1 DEF CalmInv, CalmKinds
<1> QED BY <1>2, <1>5, ClearsAccept

LEMMA CallsAccept ==
  ASSUME DeliveryInv, OwnInv, AcceptInv, ~Overlap, [Next]_vars, Calls
  PROVE  AcceptInv'
<1>1. StructInv /\ TypesInv BY DEF DeliveryInv
<1>2. /\ UNCHANGED <<waitset, it, slot, await>> /\ pc = "scan" /\ pc' = "callback"
      /\ it = 1 /\ 1 \in 1..Len(waitset)
  BY <1>1, CallsItsOwn DEF Calls, StructInv, LoopInv
<1>3. ASSUME NEW i \in 1..Len(waitset), ToResume(i)' PROVE i # 1 /\ ToResume(i)
  BY <1>2, <1>3 DEF ToResume
<1>4. ASSUME NEW x \in Socks, Accepting(x)
      PROVE  slot[x].data = await[slot[x].ev.cb].target /\ ~k'[slot[x].data].open
  <2>1. slot[x].data \in Fresh BY <1>4, TargetIsFresh
  <2> QED BY <1>4, <2>1, FreshCalls DEF AcceptInv
<1>5. ASSUME NEW i \in 1..Len(waitset), ToResume(i), i # 1
      PROVE  k'[await[waitset[i].cb].target].open /\ ~k'[await[waitset[i].cb].target].reg
  <2> DEFINE t == await[waitset[i].cb].target
  <2>1. t \in Fresh /\ k[t].open /\ ~k[t].reg BY <1>5, TargetIsFresh DEF AcceptInv
  <2>2. ToResume(1) => t # await[waitset[1].cb].target BY <1>2, <1>5 DEF AcceptInv
  <2> HIDE DEF t
  <2>3. Still(t) BY <2>1, <2>2, FreshCalls
  <2> QED BY <2>1, <2>3 DEF Still, t
<1>6. \A x \in Socks : Accepting(x)' <=> Accepting(x) BY <1>2 DEF Accepting
<1> QED BY <1>2, <1>3, <1>4, <1>5, <1>6 DEF AcceptInv

LEMMA ReturnsAccept ==
  ASSUME DeliveryInv, AcceptInv, ~Overlap, Returns PROVE AcceptInv'
<1>1. /\ waitset \in Seq(CompletedEvents) /\ waitset # <<>> /\ it = 1
      /\ pc = "callback" /\ pc' = "scan" /\ waitset' = Tail(waitset)
      /\ UNCHANGED <<it, await, k, slot>>
  BY DEF DeliveryInv, StructInv, LoopInv, Returns
<1>2. /\ Len(waitset') = Len(waitset) - 1 /\ Len(waitset) \in Nat
      /\ \A i \in 1..Len(waitset') : i + 1 \in 1..Len(waitset) /\ waitset'[i] = waitset[i + 1]
  BY <1>1, HeadTailProperties, EmptySeq, LenProperties
<1>3. ASSUME NEW i \in 1..Len(waitset'), ToResume(i)'
      PROVE  i + 1 \in 1..Len(waitset) /\ ToResume(i + 1) /\ waitset'[i] = waitset[i + 1]
  <2>1. i + 1 \in 1..Len(waitset) /\ waitset'[i] = waitset[i + 1] /\ i \in Nat /\ ~(i + 1 <= 1)
    BY <1>2
  <2> QED BY <1>1, <1>3, <2>1 DEF ToResume
<1>4. \A x \in Socks : Accepting(x)' <=> Accepting(x) BY <1>1, SMTT(40) DEF Accepting
<1>5. \A i \in 1..Len(waitset') : ToResume(i)' =>
         LET u == await'[waitset'[i].cb].target IN k'[u].open /\ ~k'[u].reg
  BY <1>1, <1>3 DEF AcceptInv
<1>6. \A i, j \in 1..Len(waitset') :
         /\ ToResume(i)' /\ ToResume(j)'
         /\ await'[waitset'[i].cb].target = await'[waitset'[j].cb].target
         => i + 1 = j + 1
  BY <1>1, <1>3 DEF AcceptInv
<1>7. \A i, j \in 1..Len(waitset') : i + 1 = j + 1 => i = j BY <1>2
<1> QED BY <1>1, <1>4, <1>5, <1>6, <1>7 DEF AcceptInv

LEMMA NextAccept ==
  ASSUME DeliveryInv, CalmInv, OwnInv, AcceptInv, [Next]_vars PROVE AcceptInv'
<1>1. StructInv /\ TypesInv BY DEF DeliveryInv
<1> SUFFICES ASSUME ~Overlap PROVE AcceptInv'
  BY DEF AcceptInv
<1>2. CASE Stays BY <1>2, StaysAccept
<1>3. CASE \E op \in Ops, s \in Socks, type \in Types, t \in Socks \cup {NoSock} :
             Waits(op, s, type, t)
  BY <1>3, WaitsAccept
<1>4. CASE \E op \in Ops, s \in Socks, ev \in Events : Fails(op, s, ev)
  BY <1>4, FailsAccept
<1>5. CASE \E s \in Socks, ev \in Events : Ends(s, ev) /\ Reason(s, ev)
  BY <1>5, EndsAccept
<1>6. CASE \E s \in Socks, ev \in Events : EndsAgain(s, ev)
  BY <1>6, EndsAgainAccept
<1> QED BY <1>1, <1>2, <1>3, <1>4, <1>5, <1>6, CallsAccept, ReturnsAccept, Shapes

(* An accept reported done has stored a connection in its own target: two  *)
(* acceptors never fill the same socket, and none that is open             *)
(* (epollimpl.h:102, linuxsock.h:243-264, acceptor.h:96-102).              *)
THEOREM AcceptsAreDone == Spec => []AcceptedWhenToldSo
<1> DEFINE Parts == DeliveryInv /\ CalmInv /\ OwnInv /\ AcceptInv
<1>1. Init => Parts BY InitDelivery, InitCalm, InitOwn, InitAccept
<1>2. Parts /\ [Next]_vars => Parts'
  <2>1. DeliveryInv => StructInv BY DEF DeliveryInv
  <2> QED BY <2>1, NextDelivery, NextCalm, NextOwn, NextAccept
<1>3. Parts => AcceptedWhenToldSo BY DEF AcceptInv, AcceptedWhenToldSo, ToResume
<1> QED BY <1>1, <1>2, <1>3, PTL DEF Spec
-----------------------------------------------------------------------------
(* The epoll back end implements AsyncOps.                                 *)

(* The abstract state. *)
StartedOps == {op \in Ops : Issued(op)}
PendingOps == UNION {PendingIn(s) : s \in Socks}
DueNow == IF pc = "callback" THEN Tail(Callbacks) ELSE Callbacks

(* No socket reports an error that nobody waits for. *)
ErrorsAreAwaited ==
  \A b \in batch : "ERR" \in b.events /\ slot[b.sock].sock => PendingIn(b.sock) # {}

(* No accept starts before the callback of the one before it on the same   *)
(* acceptor, so that AcceptCallback calls the one that completed.          *)
AcceptsAreOwn ==
  \A op \in Ops : await[op].type = "ACCEPT" /\ runs[op] = 0 => waiting[await[op].sock] = op

(* Then nothing is delivered again, and the callback that runs is that of  *)
(* the completion that is served.                                          *)
RunningInv ==
  /\ redelivered = {}
  /\ pc = "callback" => runs[waitset[1].cb] # 0 /\ waitset[1].cb \notin displaced

(* Whose callback runs waits nowhere. *)
LEMMA RunningDoesNotWait ==
  ASSUME DeliveryInv, RunningInv, pc = "callback", NEW s \in Socks
  PROVE  waitset[1].cb \notin PendingIn(s) /\ 1 \in 1..Len(waitset)
<1> DEFINE q == waitset[1].cb
<1>1. StructInv /\ Sums BY ExactlyOnceIsSums DEF DeliveryInv
<1>2. waitset \in Seq(CompletedEvents) /\ waitset # <<>> BY <1>1 DEF StructInv, LoopInv
<1>3. 1 \in 1..Len(waitset) BY <1>2, EmptySeq
<1>4. q \in Ops
  <2>1. waitset[1] \in CompletedEvents BY <1>2, <1>3, ElementOfSeq
  <2> QED BY <2>1 DEF CompletedEvents
<1>5. q \notin redelivered /\ runs[q] # 0 BY DEF RunningInv
<1> HIDE DEF q
<1>6. Balanced(q) /\ Queue(q) \in Nat /\ runs[q] \in 0..2
  BY <1>1, <1>4, <1>5, SumTerms DEF Sums
<1>7. ~Held(q) BY <1>5, <1>6 DEF Balanced, One
<1> QED BY <1>3, <1>7 DEF Held, q

LEMMA AbstractStart ==
  ASSUME NEW op \in Ops, op \notin StartedOps, StartedOps' = StartedOps \cup {op},
         Running' = Running, NEW lost \in SUBSET PendingOps, Overlap \/ lost = {},
         \/ PendingOps' = (PendingOps \ lost) \cup {op} /\ DueNow' = DueNow
         \/ PendingOps' = PendingOps \ lost /\ DueNow' = Append(DueNow, op)
  PROVE  Abstract!Next
<1>1. Abstract!Start(op) BY DEF StartedOps, PendingOps, DueNow, Abstract!Start
<1> QED BY <1>1 DEF Abstract!Next

LEMMA AbstractComplete ==
  ASSUME NEW op \in Ops, op \in PendingOps, PendingOps' = PendingOps \ {op},
         DueNow' = Append(DueNow, op), StartedOps' = StartedOps, Running' = Running
  PROVE  Abstract!Next
<1>1. Abstract!Complete(op) BY DEF StartedOps, PendingOps, DueNow, Abstract!Complete
<1> QED BY <1>1 DEF Abstract!Next

LEMMA InitRefines == Init => Abstract!Init
<1> SUFFICES ASSUME Init PROVE Abstract!Init
  OBVIOUS
<1>1. StartedOps = {} BY DEF Init, StartedOps, Issued
<1>2. PendingOps = {} BY DEF Init, NewSlot, PendingOps, PendingIn
<1>3. Callbacks = <<>>
  <2>1. waitset \in Seq(CompletedEvents) /\ waitset = <<>> BY EmptySeq DEF Init, LoopInit
  <2>2. CallbacksOf(waitset) \in Seq(Ops) /\ Len(CallbacksOf(waitset)) = 0
    BY <2>1, CallbacksTyped, EmptySeq
  <2>3. CallbacksOf(waitset) = <<>> BY <2>2, EmptySeq
  <2> QED BY <2>3 DEF Callbacks, CallbacksOf
<1>4. DueNow = <<>> /\ Running = NoOp BY <1>3 DEF Init, LoopInit, DueNow, Running
<1> QED BY <1>1, <1>2, <1>4 DEF Abstract!Init, StartedOps, PendingOps, DueNow

(* A completed event is called after those that are there. *)
LEMMA DueGrows ==
  ASSUME StructInv, NEW ev \in Events, ev.cb \in Ops, waitset' = SubmitComplete(waitset, ev),
         it' = it, pc' = "callback" <=> pc = "callback"
  PROVE  /\ DueNow' = Append(DueNow, ev.cb)
         /\ pc = "callback" => 1 \in 1..Len(waitset) /\ waitset'[1] = waitset[1]
<1>1. waitset \in Seq(CompletedEvents) /\ it = 1 /\ (pc = "callback" => waitset # <<>>)
  BY DEF StructInv, LoopInv
<1>2. CallbacksOf(waitset') = Append(CallbacksOf(waitset), ev.cb)
  BY <1>1, CallbacksOfAppended
<1>3. Callbacks = CallbacksOf(waitset) /\ Callbacks' = Append(Callbacks, ev.cb)
  BY <1>2 DEF Callbacks, CallbacksOf
<1>4. CASE pc # "callback" BY <1>3, <1>4 DEF DueNow
<1>5. CASE pc = "callback"
  <2>1. CallbacksOf(waitset) \in Seq(Ops) /\ CallbacksOf(waitset) # <<>>
    BY <1>1, <1>5, CallbacksTyped, CallbacksOfTail
  <2>2. Tail(Callbacks') = Append(Tail(Callbacks), ev.cb) BY <1>3, <2>1, HeadTailAppend
  <2>3. 1 \in 1..Len(waitset) BY <1>1, <1>5, EmptySeq
  <2>4. waitset'[1] = waitset[1] BY <1>1, <2>3, SubmitCompleteElements
  <2> QED BY <1>1, <1>5, <2>2, <2>3, <2>4 DEF DueNow
<1> QED BY <1>4, <1>5

(* An operation that starts or completes leaves the callback running.      *)
LEMMA RunningStays ==
  ASSUME DeliveryInv, RunningInv, NEW s \in Socks, it' = it,
         displaced' = displaced \/ displaced' = displaced \cup PendingIn(s),
         runs' = runs, redelivered' = redelivered, pc' = "callback" <=> pc = "callback",
         pc = "callback" => waitset'[1] = waitset[1]
  PROVE  RunningInv' /\ Running' = Running
<1>1. it = 1 BY DEF DeliveryInv, StructInv, LoopInv
<1>2. pc = "callback" => waitset[1].cb \notin PendingIn(s) BY RunningDoesNotWait
<1>3. RunningInv' BY <1>2 DEF RunningInv
<1>4. Running' = Running BY <1>1, <1>2 DEF Running
<1> QED BY <1>3, <1>4

LEMMA StaysRefines ==
  ASSUME RunningInv, Stays PROVE UNCHANGED Abstract!absVars /\ RunningInv'
<1>1. \A s \in Socks : PendingIn(s)' = PendingIn(s) BY DEF Stays, Same, PendingIn
<1>2. PendingOps' = PendingOps BY <1>1 DEF PendingOps
<1>3. StartedOps' = StartedOps BY DEF Stays, StartedOps, Issued
<1>4. Callbacks' = Callbacks BY DEF Stays, Callbacks
<1>5. DueNow' = DueNow /\ Running' = Running BY <1>4 DEF Stays, DueNow, Running
<1>6. UNCHANGED Abstract!absVars
  BY <1>2, <1>3, <1>5 DEF StartedOps, PendingOps, DueNow, Abstract!absVars
<1>7. RunningInv' BY DEF Stays, RunningInv
<1> QED BY <1>6, <1>7

(* A program whose operations do not overlap displaces none. *)
LEMMA NothingToLose ==
  ASSUME DeliveryInv, OwnInv, ~Overlap, NEW op \in Ops, NEW s \in Socks, MayStart(op, s)
  PROVE  PendingIn(s) = {}
<1>1. StructInv /\ Sums BY ExactlyOnceIsSums DEF DeliveryInv
<1> SUFFICES ASSUME NEW q \in PendingIn(s) PROVE FALSE
  OBVIOUS
<1>2. q \in Ops /\ await[q].sock = s BY <1>1, PendingWhere
<1>3. q \notin redelivered BY DEF OwnInv
<1>4. Held(q) /\ Balanced(q) /\ Queue(q) \in Nat /\ runs[q] \in 0..2
  BY <1>1, <1>2, <1>3, SumTerms DEF Held, Sums
<1>5. runs[q] = 0 BY <1>4 DEF Balanced, One
<1> QED BY <1>2, <1>5 DEF MayStart

LEMMA BeginsRefines ==
  ASSUME DeliveryInv, OwnInv, NEW op \in Ops, NEW s \in Socks, NEW type, NEW t,
         Begins(op, s, type, t), PendingIn(s)' \subseteq {op}
  PROVE  /\ op \notin StartedOps /\ StartedOps' = StartedOps \cup {op}
         /\ Overlap \/ PendingIn(s) = {}
         /\ PendingIn(s) \in SUBSET PendingOps
         /\ PendingOps' = (PendingOps \ PendingIn(s)) \cup PendingIn(s)'
<1>1. StructInv /\ MayStart(op, s) /\ Started(op, type, s, t)
  BY DEF DeliveryInv, Begins
<1>2. op \notin StartedOps BY <1>1 DEF StartedOps, Issued, MayStart
<1>3. StartedOps' = StartedOps \cup {op} BY <1>1, StartedIssued DEF StartedOps
<1>4. \A x \in Socks : x # s => PendingIn(x)' = PendingIn(x) BY DEF Begins, PendingIn
<1>5. \A x \in Socks : \A q \in PendingIn(x) : q \in PendingIn(s) => x = s
  BY <1>1, PendingWhere
<1>6. PendingOps' = (PendingOps \ PendingIn(s)) \cup PendingIn(s)'
  BY <1>4, <1>5 DEF PendingOps
<1>7. PendingIn(s) \in SUBSET PendingOps BY DEF PendingOps
<1> QED BY <1>1, <1>2, <1>3, <1>6, <1>7, NothingToLose

LEMMA WaitsRefines ==
  ASSUME DeliveryInv, OwnInv, RunningInv, NEW op \in Ops, NEW s \in Socks, NEW type, NEW t,
         Waits(op, s, type, t)
  PROVE  Abstract!Next /\ RunningInv'
<1>1. /\ Begins(op, s, type, t) /\ waitset' = waitset /\ type # "NOOP"
      /\ slot'[s].sock /\ slot'[s].type = type /\ slot'[s].ev = Event(op)
  BY DEF Waits, Begins
<1>2. PendingIn(s)' = {op} BY <1>1, EventTyped DEF PendingIn
<1>3. /\ op \notin StartedOps /\ StartedOps' = StartedOps \cup {op}
      /\ Overlap \/ PendingIn(s) = {}
      /\ PendingIn(s) \in SUBSET PendingOps
      /\ PendingOps' = (PendingOps \ PendingIn(s)) \cup {op}
  BY <1>1, <1>2, BeginsRefines
<1>4. Callbacks' = Callbacks BY <1>1 DEF Callbacks
<1>5. DueNow' = DueNow BY <1>1, <1>4 DEF DueNow, Begins
<1>6. RunningInv' /\ Running' = Running BY <1>1, RunningStays DEF Begins
<1> QED BY <1>3, <1>5, <1>6, AbstractStart

LEMMA FailsRefines ==
  ASSUME DeliveryInv, OwnInv, RunningInv, NEW op \in Ops, NEW s \in Socks, NEW ev,
         Fails(op, s, ev)
  PROVE  Abstract!Next /\ RunningInv'
<1>1. /\ Begins(op, s, "CONNECT", NoSock) /\ slot'[s].type = "NOOP"
      /\ ev \in Events /\ ev.cb = op /\ waitset' = SubmitComplete(waitset, ev)
  BY DEF Fails
<1>2. PendingIn(s)' = {} BY <1>1 DEF PendingIn
<1>3. /\ op \notin StartedOps /\ StartedOps' = StartedOps \cup {op}
      /\ Overlap \/ PendingIn(s) = {}
      /\ PendingIn(s) \in SUBSET PendingOps
      /\ PendingOps' = PendingOps \ PendingIn(s)
  BY <1>1, <1>2, BeginsRefines
<1>4. /\ DueNow' = Append(DueNow, op)
      /\ pc = "callback" => waitset'[1] = waitset[1]
  BY <1>1, DueGrows DEF Begins, DeliveryInv
<1>5. RunningInv' /\ Running' = Running BY <1>1, <1>4, RunningStays DEF Begins
<1> QED BY <1>3, <1>4, <1>5, AbstractStart

LEMMA EndsRefines ==
  ASSUME DeliveryInv, RunningInv, NEW s \in Socks, NEW ev, Ends(s, ev)
  PROVE  Abstract!Next /\ RunningInv'
<1>1. /\ Clears(s, ev) /\ slot[s].type # "NOOP" /\ slot[s].sock
      /\ ev \in Events /\ ev.cb = slot[s].ev.cb /\ waitset' = SubmitComplete(waitset, ev)
      /\ pc' = "callback" <=> pc = "callback"
      /\ UNCHANGED <<it, await, runs, displaced, redelivered>>
  BY DEF Ends, Clears
<1>2. StructInv BY DEF DeliveryInv
<1>3. ev.cb \in Ops BY <1>1, <1>2 DEF StructInv, SlotInv
<1>4. PendingIn(s) = {ev.cb} BY <1>1, <1>3 DEF PendingIn
<1>5. PendingIn(s)' = {} /\ \A x \in Socks : x # s => PendingIn(x)' = PendingIn(x)
  BY <1>1, ClearsPending
<1>6. \A x \in Socks : ev.cb \in PendingIn(x) => x = s BY <1>2, <1>4, PendingWhere
<1>7. ev.cb \in PendingOps /\ PendingOps' = PendingOps \ {ev.cb}
  BY <1>4, <1>5, <1>6 DEF PendingOps
<1>8. StartedOps' = StartedOps BY <1>1 DEF StartedOps, Issued
<1>9. /\ DueNow' = Append(DueNow, ev.cb)
      /\ pc = "callback" => waitset'[1] = waitset[1]
  BY <1>1, <1>2, <1>3, DueGrows
<1>10. RunningInv' /\ Running' = Running BY <1>1, <1>9, RunningStays
<1> QED BY <1>3, <1>7, <1>8, <1>9, <1>10, AbstractComplete

(* AcceptCallback calls the accept that completed. *)
LEMMA CallsTheCompleted ==
  ASSUME DeliveryInv, RunningInv, AcceptsAreOwn, Calls
  PROVE  /\ RunningInv' /\ Running' = waitset[1].cb
<1> DEFINE q == waitset[1].cb
<1>1. StructInv /\ Sums BY ExactlyOnceIsSums DEF DeliveryInv
<1>2. /\ waitset \in Seq(CompletedEvents) /\ waitset # <<>> /\ pc = "scan" /\ it = 1
      /\ runs \in [Ops -> 0..2]
  BY <1>1 DEF StructInv, TypeOK, LoopInv, Calls
<1>3. 1 \in 1..Len(waitset) BY <1>2, EmptySeq
<1>4. q \in Ops
  <2>1. waitset[1] \in CompletedEvents BY <1>2, <1>3, ElementOfSeq
  <2> QED BY <2>1 DEF CompletedEvents
<1>5. Balanced(q) /\ Queue(q) \in Nat /\ runs[q] \in 0..2
  BY <1>1, <1>4, SumTerms DEF Sums, RunningInv
<1>6. Queue(q) # 0
  <2>1. Lo = 1 BY <1>2 DEF Lo
  <2> QED BY <1>1, <1>3, <1>4, <2>1, SumTerms
<1>7. runs[q] = 0 /\ q \notin displaced BY <1>5, <1>6 DEF Balanced, One
<1>8. Callee(waitset[1]) = q BY <1>4, <1>7 DEF AcceptsAreOwn, Callee
<1>9. /\ UNCHANGED <<waitset, it, displaced, redelivered>> /\ pc' = "callback"
      /\ runs' = [runs EXCEPT ![q] = IF @ = 2 THEN 2 ELSE @ + 1]
  BY <1>8 DEF Calls, Called
<1> HIDE DEF q
<1>10. runs'[q] # 0 BY <1>2, <1>4, <1>7, <1>9
<1> QED BY <1>2, <1>7, <1>9, <1>10 DEF RunningInv, Running, q

LEMMA CallsRefines ==
  ASSUME DeliveryInv, RunningInv, AcceptsAreOwn, Calls
  PROVE  Abstract!Next /\ RunningInv'
<1>1. /\ pc = "scan" /\ pc' = "callback" /\ waitset # <<>> /\ it = 1
      /\ waitset \in Seq(CompletedEvents)
      /\ UNCHANGED <<waitset, it, slot, await>>
  BY DEF Calls, DeliveryInv, StructInv, LoopInv
<1>2. CallbacksOf(waitset) # <<>> /\ Head(CallbacksOf(waitset)) = waitset[1].cb
  BY <1>1, CallbacksOfTail
<1>3. Callbacks = CallbacksOf(waitset) /\ Callbacks' = Callbacks
  BY <1>1 DEF Callbacks, CallbacksOf
<1>4. StartedOps' = StartedOps /\ PendingOps' = PendingOps
  BY <1>1 DEF StartedOps, Issued, PendingOps, PendingIn
<1>5. Running = NoOp /\ DueNow = Callbacks BY <1>1 DEF Running, DueNow
<1>6. Running' = waitset[1].cb /\ DueNow' = Tail(Callbacks) /\ RunningInv'
  BY <1>1, <1>3, CallsTheCompleted DEF DueNow
<1>7. Abstract!Call
  BY <1>2, <1>3, <1>4, <1>5, <1>6
  DEF StartedOps, PendingOps, DueNow, Abstract!Call
<1> QED BY <1>6, <1>7 DEF Abstract!Next

LEMMA ReturnsRefines ==
  ASSUME DeliveryInv, RunningInv, Returns PROVE Abstract!Next /\ RunningInv'
<1>1. /\ pc = "callback" /\ pc' = "scan" /\ it = 1 /\ waitset # <<>>
      /\ waitset \in Seq(CompletedEvents) /\ waitset' = Tail(waitset)
      /\ UNCHANGED <<slot, await, redelivered>>
  BY DEF Returns, DeliveryInv, StructInv, LoopInv
<1>2. CallbacksOf(waitset') = Tail(CallbacksOf(waitset)) BY <1>1, CallbacksOfTail
<1>3. DueNow' = DueNow BY <1>1, <1>2 DEF DueNow, Callbacks, CallbacksOf
<1>4. Running # NoOp
  <2>1. 1 \in 1..Len(waitset) BY <1>1, EmptySeq
  <2>2. waitset[1] \in CompletedEvents BY <1>1, <2>1, ElementOfSeq
  <2>3. Running = waitset[1].cb BY <1>1 DEF Running, RunningInv
  <2> QED BY <2>2, <2>3, NoOpAssumption DEF CompletedEvents
<1>5. Running' = NoOp /\ RunningInv' BY <1>1 DEF Running, RunningInv
<1>6. StartedOps' = StartedOps /\ PendingOps' = PendingOps
  BY <1>1 DEF StartedOps, Issued, PendingOps, PendingIn
<1>7. Abstract!Finish
  BY <1>3, <1>4, <1>5, <1>6 DEF StartedOps, PendingOps, DueNow, Abstract!Finish
<1> QED BY <1>5, <1>7 DEF Abstract!Next

LEMMA StepRefines ==
  ASSUME DeliveryInv, OwnInv, RunningInv, ErrorsAreAwaited, AcceptsAreOwn, [Next]_vars
  PROVE  [Abstract!Next]_(Abstract!absVars) /\ RunningInv'
<1>1. StructInv /\ TypesInv BY DEF DeliveryInv
<1>2. CASE Stays BY <1>2, StaysRefines
<1>3. CASE \E op \in Ops, s \in Socks, type \in Types, t \in Socks \cup {NoSock} :
             Waits(op, s, type, t)
  BY <1>3, WaitsRefines
<1>4. CASE \E op \in Ops, s \in Socks, ev \in Events : Fails(op, s, ev)
  BY <1>4, FailsRefines
<1>5. CASE \E s \in Socks, ev \in Events : Ends(s, ev)
  BY <1>5, EndsRefines
<1>6. ASSUME NEW s \in Socks, NEW ev \in Events PROVE ~EndsAgain(s, ev)
  BY DEF EndsAgain, Clears, ErrorsAreAwaited, PendingIn
<1> QED BY <1>1, <1>2, <1>3, <1>4, <1>5, <1>6, CallsRefines, ReturnsRefines, Shapes

(* Whatever sockets and operations there are, and however the program's    *)
(* calls, the kernel's events and Wait interleave, completions are queued  *)
(* in the order in which Submit and Wait produce them, and the callback of *)
(* each is called once, in that order, as long as no socket reports an     *)
(* error that nobody waits for and no accept takes the place of another in *)
(* Acceptor::waiting_; reads, writes and waits may displace one another    *)
(* (epollimpl.h:23-150, 172-176, 185-293; context.h:36-60;                 *)
(* acceptor.h:65-78).                                                      *)
THEOREM EpollImplementsAsyncOps ==
  Spec /\ []ErrorsAreAwaited /\ []AcceptsAreOwn => ImplementsAsyncOps
<1> DEFINE Parts == DeliveryInv /\ CalmInv /\ OwnInv
<1>1. Init => Parts BY InitDelivery, InitCalm, InitOwn
<1>2. Parts /\ [Next]_vars => Parts'
  <2>1. DeliveryInv => StructInv BY DEF DeliveryInv
  <2> QED BY <2>1, NextDelivery, NextCalm, NextOwn
<1>3. Init => Abstract!Init BY InitRefines
<1>4. Init => RunningInv BY DEF Init, LoopInit, RunningInv
<1>5. Parts /\ RunningInv /\ ErrorsAreAwaited /\ AcceptsAreOwn /\ [Next]_vars =>
        [Abstract!Next]_(Abstract!absVars) /\ RunningInv'
  BY StepRefines
<1> QED BY <1>1, <1>2, <1>3, <1>4, <1>5, PTL DEF Spec, ImplementsAsyncOps, Abstract!Spec

(* The conditions hold of every program whose operations do not overlap,   *)
(* or that has no acceptor, where no connection is reset or refused and no *)
(* ICMP error arrives.                                                     *)
THEOREM FaultlessImplementsAsyncOps ==
  ASSUME Faults \cap {"RST", "ICMP"} = {},
         Overlap => \A s \in Socks : Kind[s] # "LISTENER"
  PROVE  Spec => ImplementsAsyncOps
<1> DEFINE Parts == DeliveryInv /\ CalmInv /\ OwnInv /\ FaultlessInv
<1>1. Init => Parts BY InitDelivery, InitCalm, InitOwn, InitFaultless
<1>2. Parts /\ [Next]_vars => Parts'
  <2>1. DeliveryInv => StructInv BY DEF DeliveryInv
  <2> QED BY <2>1, NextDelivery, NextCalm, NextOwn, NextFaultless
<1>3. Parts => ErrorsAreAwaited BY DEF FaultlessInv, ErrorsAreAwaited
<1>4. ASSUME Parts PROVE AcceptsAreOwn
  <2> SUFFICES ASSUME NEW op \in Ops, await[op].type = "ACCEPT", runs[op] = 0
               PROVE  waiting[await[op].sock] = op
    BY DEF AcceptsAreOwn
  <2>1. Issued(op) BY DEF Issued, Unissued
  <2>2. Kind[await[op].sock] = "LISTENER" /\ await[op].sock \in Socks
    BY <1>4, <2>1 DEF DeliveryInv, StructInv, AwaitInv, TypesInv, Fits, Issued
  <2> QED BY <1>4, <2>2 DEF OwnInv
<1>5. Spec => []ErrorsAreAwaited /\ []AcceptsAreOwn BY <1>1, <1>2, <1>3, <1>4, PTL DEF Spec
<1> QED BY <1>5, EpollImplementsAsyncOps, PTL
=============================================================================
