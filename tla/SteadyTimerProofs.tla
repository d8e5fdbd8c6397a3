------------------------- MODULE SteadyTimerProofs -------------------------
(***************************************************************************)
(* Why every Wait() of a SteadyTimer makes for one call of its callback,   *)
(* and why no timer depends on the platform handler, for any timers and    *)
(* operations.                                                             *)
(***************************************************************************)
EXTENDS SteadyTimer, ContextProofs

Asleep(t) == sleeping = t /\ ~slept

TypesInv ==
  /\ LoopInv
  /\ cb \in [Timers -> Ops \cup {NoOp}]
  /\ timerOf \in [Ops -> Timers \cup {NoTimer}]
  /\ sleeping \in Timers \cup {NoTimer}
  /\ slept \in BOOLEAN
  /\ calls \in [Ops -> Nat]

(* A timer that was waited for holds the callback of one of its waits, and *)
(* only such timers sleep, complete events or call.                        *)
NamesInv ==
  /\ sleeping # NoTimer => pc \in {"setup", "callback"} /\ cb[sleeping] # NoOp
  /\ \A t \in Timers : cb[t] # NoOp => timerOf[cb[t]] = t
  /\ \A op \in Ops : timerOf[op] # NoTimer => cb[timerOf[op]] # NoOp
  /\ \A i \in 1..Len(waitset) : timerOf[waitset[i].cb] # NoTimer
  /\ \A op \in Ops : calls[op] > 0 => timerOf[op] # NoTimer

(* The callback a timer holds was called, or is yet to be. *)
HeldInv ==
  \A t \in Timers : cb[t] # NoOp =>
    \/ calls[cb[t]] > 0
    \/ Asleep(t)
    \/ \E i \in Lo..Len(waitset) : timerOf[waitset[i].cb] = t

(* Finitely many operations wait. *)
WaitsOf(t) == {op \in Ops : timerOf[op] = t}
FiniteInv == \A t \in Timers : IsFiniteSet(WaitsOf(t))

(* The parts of CallbackPerWait, for one timer. *)
Waiting(t) == One(Asleep(t)) + Count(waitset, WaitsOf(t), Lo)
Called(t) == SumFunctionOnSet(calls, WaitsOf(t))
PerWait == \A t \in Timers : Cardinality(WaitsOf(t)) = Waiting(t) + Called(t)

TimerInv ==
  /\ TypesInv
  /\ NamesInv
  /\ HeldInv
  /\ FiniteInv
  /\ CallbackPerWait

-----------------------------------------------------------------------------
LEMMA ListTyped ==
  ASSUME TypesInv
  PROVE  /\ waitset \in Seq(CompletedEvents) /\ Len(waitset) \in Nat
         /\ \A i \in 1..Len(waitset) : waitset[i].cb \in Ops
<1>1. waitset \in Seq(CompletedEvents) BY DEF TypesInv, LoopInv
<1>2. Len(waitset) \in Nat BY <1>1, LenProperties
<1>3. \A i \in 1..Len(waitset) : waitset[i] \in CompletedEvents BY <1>1, ElementOfSeq
<1> QED BY <1>1, <1>2, <1>3 DEF CompletedEvents

LEMMA PerWaitIs == TypesInv => (CallbackPerWait <=> PerWait)
<1> SUFFICES ASSUME TypesInv, NEW t \in Timers PROVE QueuedEvents(t) = Awaiting(waitset, WaitsOf(t), Lo)
  BY DEF CallbackPerWait, PerWait, Waiting, Called, WaitsOf, Asleep, One, Count
<1>1. Len(waitset) \in Nat /\ it = 1 BY ListTyped DEF TypesInv, LoopInv
<1>2. \A i \in 1..Len(waitset) : waitset[i].cb \in Ops BY ListTyped
<1> QED BY <1>1, <1>2 DEF QueuedEvents, Awaiting, WaitsOf, Lo

LEMMA PerWaitNext == TypesInv' => (CallbackPerWait' <=> PerWait')
  BY PerWaitIs, PTL

LEMMA Numbers ==
  ASSUME TypesInv, FiniteInv, NEW t \in Timers
  PROVE  /\ WaitsOf(t) \in SUBSET Ops /\ IsFiniteSet(WaitsOf(t))
         /\ Cardinality(WaitsOf(t)) \in Nat
         /\ Count(waitset, WaitsOf(t), Lo) \in Nat
         /\ Called(t) \in Nat
         /\ \A op \in Ops : calls[op] \in Nat
<1>1. WaitsOf(t) \in SUBSET Ops /\ IsFiniteSet(WaitsOf(t)) BY DEF WaitsOf, FiniteInv
<1>2. waitset \in Seq(CompletedEvents) /\ Lo \in {1, 2} /\ \A op \in Ops : calls[op] \in Nat
  BY DEF TypesInv, LoopInv, Lo
<1>3. Cardinality(WaitsOf(t)) \in Nat BY <1>1, FS_CardinalityType
<1>4. Count(waitset, WaitsOf(t), Lo) \in Nat BY <1>2, AwaitingFinite
<1>5. Called(t) \in Nat BY <1>1, <1>2, SumAdds DEF Called
<1> QED BY <1>1, <1>2, <1>3, <1>4, <1>5

-----------------------------------------------------------------------------
LEMMA InitTimer == Init => TimerInv
<1> SUFFICES ASSUME Init PROVE TimerInv
  OBVIOUS
<1>1. LoopInv BY LoopInitInv DEF Init
<1>2. TypesInv BY <1>1 DEF Init, TypesInv
<1>3. waitset = <<>> /\ Len(waitset) = 0 /\ waitset \in Seq(CompletedEvents) /\ Lo = 1
  BY EmptySeq DEF Init, LoopInit, Lo
<1>4. NamesInv /\ HeldInv BY <1>3 DEF Init, NamesInv, HeldInv
<1>5. \A t \in Timers : WaitsOf(t) = {} BY TimerAssumption DEF Init, WaitsOf
<1>6. FiniteInv BY <1>5, FS_EmptySet DEF FiniteInv
<1>7. PerWait
  <2> SUFFICES ASSUME NEW t \in Timers PROVE Cardinality(WaitsOf(t)) = Waiting(t) + Called(t)
    BY DEF PerWait
  <2>1. Cardinality({}) = 0 /\ IsFiniteSet({}) BY FS_EmptySet
  <2>2. Count(<<>>, {}, 1) = 0 BY CountEmpty
  <2>3. SumFunctionOnSet(calls, {}) = 0 BY <2>1, SumAdds
  <2>4. ~Asleep(t) BY TimerAssumption DEF Init, Asleep
  <2> QED BY <1>3, <1>5, <2>1, <2>2, <2>3, <2>4 DEF Waiting, Called, One
<1> QED BY <1>2, <1>4, <1>6, <1>7, PerWaitIs DEF TimerInv

(* Steps that leave the timers and the list alone. *)
LEMMA OtherTimer ==
  ASSUME TimerInv, LoopInv', UNCHANGED <<waitset, cb, timerOf, sleeping, slept, calls>>,
         pc' = "callback" <=> pc = "callback", pc' = pc \/ sleeping = NoTimer
  PROVE  TimerInv'
<1>1. TypesInv /\ NamesInv /\ HeldInv /\ FiniteInv /\ PerWait BY PerWaitIs DEF TimerInv
<1>2. TypesInv' BY <1>1 DEF TypesInv
<1>3. NamesInv' BY <1>1 DEF NamesInv
<1>4. Lo' = Lo BY DEF Lo
<1>5. HeldInv' BY <1>1, <1>4 DEF HeldInv, Asleep
<1>6. FiniteInv' BY <1>1 DEF FiniteInv, WaitsOf
<1>7. PerWait' BY <1>1, <1>4 DEF PerWait, Waiting, Called, WaitsOf, Asleep
<1> QED BY <1>2, <1>3, <1>5, <1>6, <1>7, PerWaitNext DEF TimerInv

(* Wait(): one more operation waits for t, which sleeps. *)
LEMMA WaitTimer ==
  ASSUME TimerInv, NEW t \in Timers, NEW op \in Ops, Wait(t, op) PROVE TimerInv'
<1>1. TypesInv /\ NamesInv /\ HeldInv /\ FiniteInv /\ PerWait BY PerWaitIs DEF TimerInv
<1>2. /\ pc \in {"setup", "callback"} /\ sleeping = NoTimer /\ timerOf[op] = NoTimer
      /\ cb' = [cb EXCEPT ![t] = op] /\ timerOf' = [timerOf EXCEPT ![op] = t]
      /\ sleeping' = t /\ slept' = FALSE
      /\ UNCHANGED <<waitset, it, canContinue, pc, calls>>
  BY DEF Wait, InUser, loopVars
<1>3. /\ cb'[t] = op /\ \A u \in Timers : u # t => cb'[u] = cb[u]
      /\ timerOf'[op] = t /\ \A q \in Ops : q # op => timerOf'[q] = timerOf[q]
  BY <1>1, <1>2 DEF TypesInv
<1>4. /\ waitset \in Seq(CompletedEvents) /\ Len(waitset) \in Nat
      /\ \A i \in 1..Len(waitset) : waitset[i].cb \in Ops /\ waitset[i].cb # op
  <2>1. waitset \in Seq(CompletedEvents) BY <1>1 DEF TypesInv, LoopInv
  <2>2. Len(waitset) \in Nat /\ \A i \in 1..Len(waitset) : waitset[i].cb \in Ops
    BY <1>1, ListTyped
  <2> QED BY <1>1, <1>2, <2>1, <2>2 DEF NamesInv
<1>5. TypesInv'
  <2>1. LoopInv' BY <1>1, <1>2, LoopStepInv DEF TypesInv, loopVars
  <2> QED BY <1>1, <1>2, <2>1 DEF TypesInv
<1>6. NamesInv'
  <2>1. op # NoOp /\ t # NoTimer BY NoOpAssumption, TimerAssumption
  <2>2. \A u \in Timers : cb'[u] # NoOp => timerOf'[cb'[u]] = u
    <3> SUFFICES ASSUME NEW u \in Timers, u # t, cb[u] # NoOp PROVE timerOf'[cb[u]] = u
      BY <1>3
    <3>1. timerOf[cb[u]] = u /\ cb[u] \in Ops BY <1>1 DEF NamesInv, TypesInv
    <3>2. cb[u] # op BY <1>2, <3>1, TimerAssumption
    <3> QED BY <1>3, <3>1, <3>2
  <2>3. \A q \in Ops : timerOf'[q] # NoTimer => cb'[timerOf'[q]] # NoOp
    <3> SUFFICES ASSUME NEW q \in Ops, timerOf'[q] # NoTimer PROVE cb'[timerOf'[q]] # NoOp
      OBVIOUS
    <3>1. CASE timerOf'[q] = t BY <1>3, <2>1, <3>1
    <3>2. CASE timerOf'[q] # t
      <4>1. timerOf'[q] = timerOf[q] BY <1>3, <3>2
      <4>2. timerOf[q] \in Timers /\ cb[timerOf[q]] # NoOp
        BY <1>1, <4>1 DEF NamesInv, TypesInv
      <4> QED BY <1>3, <3>2, <4>1, <4>2
    <3> QED BY <3>1, <3>2
  <2>4. \A i \in 1..Len(waitset) : timerOf'[waitset[i].cb] # NoTimer
    BY <1>1, <1>3, <1>4 DEF NamesInv
  <2>5. \A q \in Ops : calls[q] > 0 => timerOf'[q] # NoTimer
    BY <1>1, <1>3, <2>1 DEF NamesInv
  <2> QED BY <1>2, <1>3, <2>1, <2>2, <2>3, <2>4, <2>5 DEF NamesInv
<1>7. HeldInv'
  <2> SUFFICES ASSUME NEW u \in Timers, cb'[u] # NoOp, ~Asleep(u)'
               PROVE  \/ calls'[cb'[u]] > 0
                      \/ \E i \in Lo'..Len(waitset') : timerOf'[waitset'[i].cb] = u
    BY DEF HeldInv
  <2>1. u # t BY <1>2 DEF Asleep
  <2>2. ~Asleep(u) BY <1>2, TimerAssumption DEF Asleep
  <2>3. Lo' = Lo /\ Lo \in {1, 2} BY <1>2 DEF Lo
  <2>4. CASE calls[cb[u]] > 0 BY <1>2, <1>3, <2>1, <2>4
  <2>5. CASE \E i \in Lo..Len(waitset) : timerOf[waitset[i].cb] = u
    BY <1>2, <1>3, <1>4, <2>3, <2>5
  <2> QED BY <1>1, <1>3, <2>1, <2>2, <2>4, <2>5 DEF HeldInv
<1>8. /\ WaitsOf(t)' = WaitsOf(t) \cup {op} /\ op \notin WaitsOf(t)
      /\ \A u \in Timers : u # t => WaitsOf(u)' = WaitsOf(u)
  BY <1>2, <1>3, TimerAssumption DEF WaitsOf
<1>9. FiniteInv' BY <1>1, <1>8, FS_AddElement DEF FiniteInv
<1>10. PerWait'
  <2> SUFFICES ASSUME NEW u \in Timers
               PROVE  (Cardinality(WaitsOf(u)) = Waiting(u) + Called(u))'
    BY DEF PerWait
  <2>1. Cardinality(WaitsOf(u)) = Waiting(u) + Called(u) BY <1>1 DEF PerWait
  <2>2. ~Asleep(u) BY <1>2, TimerAssumption DEF Asleep
  <2>3. Lo' = Lo /\ Lo \in {1, 2} BY <1>2 DEF Lo
  <2>4. CASE u # t
    <3>1. WaitsOf(u)' = WaitsOf(u) BY <1>8, <2>4
    <3>2. ~Asleep(u)' BY <1>2, <2>4 DEF Asleep
    <3> QED BY <1>2, <2>1, <2>2, <2>3, <3>1, <3>2 DEF Waiting, Called, One
  <2>5. CASE u = t
    <3>1. Asleep(t)' BY <1>2 DEF Asleep
    <3>2. /\ WaitsOf(t) \in SUBSET Ops /\ IsFiniteSet(WaitsOf(t))
          /\ Cardinality(WaitsOf(t)) \in Nat
          /\ Count(waitset, WaitsOf(t), Lo) \in Nat
          /\ Called(t) \in Nat /\ \A q \in Ops : calls[q] \in Nat
      BY <1>1, Numbers
    <3>3. Cardinality(WaitsOf(t)') = Cardinality(WaitsOf(t)) + 1
      BY <1>8, <3>2, FS_AddElement
    <3>4. Count(waitset, WaitsOf(t)', Lo) = Count(waitset, WaitsOf(t), Lo)
      <4>1. Awaiting(waitset, WaitsOf(t)', Lo) = Awaiting(waitset, WaitsOf(t), Lo)
        BY <1>4, <1>8, <2>3 DEF Awaiting
      <4> QED BY <4>1 DEF Count
    <3>5. calls[op] = 0 BY <1>1, <1>2, <3>2 DEF NamesInv
    <3>6. SumFunctionOnSet(calls, WaitsOf(t) \cup {op})
            = SumFunctionOnSet(calls, WaitsOf(t)) + calls[op]
      <4> DEFINE W == WaitsOf(t)
      <4>1. op \in Ops \ W /\ W \in SUBSET Ops /\ IsFiniteSet(W) BY <1>8, <3>2
      <4>2. \A q \in Ops : calls[q] \in Nat BY <3>2
      <4> HIDE DEF W
      <4>3. SumFunctionOnSet(calls, W \cup {op}) = SumFunctionOnSet(calls, W) + calls[op]
        BY <4>1, <4>2, SumAdds
      <4> QED BY <4>3 DEF W
    <3>7. Called(t)' = Called(t) BY <1>2, <1>8, <3>2, <3>5, <3>6 DEF Called
    <3>8. Waiting(t)' = Count(waitset, WaitsOf(t), Lo) + 1
      BY <1>2, <2>3, <3>1, <3>2, <3>4 DEF Waiting, One
    <3>9. Waiting(t) = Count(waitset, WaitsOf(t), Lo)
      BY <2>2, <2>5, <3>2 DEF Waiting, One
    <3> QED BY <2>1, <2>5, <3>2, <3>3, <3>7, <3>8, <3>9
  <2> QED BY <2>4, <2>5
<1> QED BY <1>5, <1>6, <1>7, <1>9, <1>10, PerWaitNext DEF TimerInv
(* The thread's SubmitComplete: the timer no longer sleeps, its event is   *)
(* the last of the list.                                                   *)
LEMMA ElapseTimer == ASSUME TimerInv, Elapse PROVE TimerInv'
<1> DEFINE ev == Event(cb[sleeping])
<1>1. TypesInv /\ NamesInv /\ HeldInv /\ FiniteInv /\ PerWait BY PerWaitIs DEF TimerInv
<1>2. /\ sleeping # NoTimer /\ ~slept /\ slept' = TRUE
      /\ waitset' = SubmitComplete(waitset, ev)
      /\ UNCHANGED <<it, canContinue, pc, cb, timerOf, sleeping, others, calls>>
  BY DEF Elapse
<1>3. /\ sleeping \in Timers /\ cb[sleeping] \in Ops /\ timerOf[cb[sleeping]] = sleeping
      /\ pc \in {"setup", "callback"} /\ LoopInv
  BY <1>1, <1>2 DEF TypesInv, NamesInv
<1>4. ev \in Events /\ ev.cb = cb[sleeping] BY <1>3, EventTyped
<1> HIDE DEF ev
<1>5. waitset \in Seq(CompletedEvents) /\ Len(waitset) \in Nat BY <1>1, ListTyped
<1>6. /\ Len(waitset') = Len(waitset) + 1
      /\ \A i \in 1..Len(waitset) : waitset'[i] = waitset[i]
      /\ waitset'[Len(waitset) + 1].cb = cb[sleeping]
  BY <1>2, <1>3, <1>4, <1>5, SubmitCompleteElements
<1>7. Lo' = Lo /\ Lo \in {1, 2} /\ (Lo = 2 => waitset # <<>>)
  BY <1>2, <1>3 DEF Lo, LoopInv
<1>8. Lo <= Len(waitset) + 1 BY <1>5, <1>7, EmptySeq
<1>9. TypesInv'
  <2>1. LoopInv' BY <1>2, <1>3, <1>4, CompletionInv DEF LoopInv
  <2> QED BY <1>1, <1>2, <2>1 DEF TypesInv
<1>10. NamesInv'
  <2>1. \A i \in 1..Len(waitset') : timerOf[waitset'[i].cb] # NoTimer
    BY <1>1, <1>2, <1>3, <1>5, <1>6 DEF NamesInv
  <2> QED BY <1>1, <1>2, <2>1 DEF NamesInv
<1>11. HeldInv'
  <2> SUFFICES ASSUME NEW u \in Timers, cb[u] # NoOp, ~(calls[cb[u]] > 0)
               PROVE  \E i \in Lo..Len(waitset') : timerOf[waitset'[i].cb] = u
    BY <1>2, <1>7 DEF HeldInv
  <2>1. CASE u = sleeping BY <1>3, <1>5, <1>6, <1>7, <1>8, <2>1
  <2>2. CASE u # sleeping
    <3>1. \E i \in Lo..Len(waitset) : timerOf[waitset[i].cb] = u
      BY <1>1, <2>2 DEF HeldInv, Asleep
    <3> QED BY <1>5, <1>6, <1>7, <3>1
  <2> QED BY <2>1, <2>2
<1>12. FiniteInv' BY <1>1, <1>2 DEF FiniteInv, WaitsOf
<1>13. PerWait'
  <2> SUFFICES ASSUME NEW u \in Timers
               PROVE  (Cardinality(WaitsOf(u)) = Waiting(u) + Called(u))'
    BY DEF PerWait
  <2>1. Cardinality(WaitsOf(u)) = Waiting(u) + Called(u) BY <1>1 DEF PerWait
  <2>2. WaitsOf(u)' = WaitsOf(u) /\ Called(u)' = Called(u) BY <1>2 DEF WaitsOf, Called
  <2>3. Count(waitset', WaitsOf(u), Lo)
          = Count(waitset, WaitsOf(u), Lo) + One(cb[sleeping] \in WaitsOf(u))
    BY <1>2, <1>3, <1>4, <1>5, <1>7, CountAppended
  <2>4. Count(waitset, WaitsOf(u), Lo) \in Nat BY <1>1, Numbers
  <2>5. cb[sleeping] \in WaitsOf(u) <=> u = sleeping BY <1>3 DEF WaitsOf
  <2>6. ~Asleep(u)' /\ (Asleep(u) <=> u = sleeping) BY <1>2 DEF Asleep
  <2>7. Waiting(u)' = Waiting(u)
    <3>1. Waiting(u)' = Count(waitset', WaitsOf(u), Lo)
      <4>1. Count(waitset', WaitsOf(u), Lo) \in Nat BY <2>3, <2>4 DEF One
      <4> QED BY <1>7, <2>2, <2>6, <4>1 DEF Waiting, One
    <3> QED BY <2>3, <2>4, <2>5, <2>6, <3>1 DEF Waiting, One
  <2> QED BY <2>1, <2>2, <2>7
<1> QED BY <1>9, <1>10, <1>11, <1>12, <1>13, PerWaitNext DEF TimerInv

(* The thread is joined: what slept has its event. *)
LEMMA JoinTimer == ASSUME TimerInv, Join PROVE TimerInv'
<1>1. TypesInv /\ NamesInv /\ HeldInv /\ FiniteInv /\ PerWait BY PerWaitIs DEF TimerInv
<1>2. /\ slept /\ sleeping' = NoTimer
      /\ UNCHANGED <<waitset, it, canContinue, pc, cb, timerOf, slept, calls>>
  BY DEF Join, loopVars
<1>3. Lo' = Lo /\ \A u \in Timers : ~Asleep(u) /\ ~Asleep(u)' BY <1>2 DEF Lo, Asleep
<1>4. TypesInv'
  <2>1. LoopInv' BY <1>1, <1>2, LoopStepInv DEF TypesInv, loopVars
  <2> QED BY <1>1, <1>2, <2>1 DEF TypesInv
<1>5. NamesInv' BY <1>1, <1>2 DEF NamesInv
<1>6. HeldInv' BY <1>1, <1>2, <1>3 DEF HeldInv
<1>7. FiniteInv' BY <1>1, <1>2 DEF FiniteInv, WaitsOf
<1>8. PerWait' 
  <2> SUFFICES ASSUME NEW u \in Timers
               PROVE  (Cardinality(WaitsOf(u)) = Waiting(u) + Called(u))'
    BY DEF PerWait
  <2>1. WaitsOf(u)' = WaitsOf(u) /\ Called(u)' = Called(u) BY <1>2 DEF WaitsOf, Called
  <2>2. Waiting(u)' = Waiting(u) BY <1>2, <1>3, <2>1 DEF Waiting, One
  <2> QED BY <1>1, <2>1, <2>2 DEF PerWait
<1> QED BY <1>4, <1>5, <1>6, <1>7, <1>8, PerWaitNext DEF TimerInv

(* The first event's callback starts: it is called, and not queued. *)
LEMMA CallsTimer == ASSUME TimerInv, StartCallback PROVE TimerInv'
<1> DEFINE t == timerOf[waitset[1].cb]
           op == cb[t]
<1>1. TypesInv /\ NamesInv /\ HeldInv /\ FiniteInv /\ PerWait BY PerWaitIs DEF TimerInv
<1>2. LoopInv /\ it = 1 BY <1>1 DEF TypesInv, LoopInv
<1>3. /\ Scan /\ Due(waitset[1]) /\ pc' = "callback" /\ pc = "scan" /\ Lo = 1 /\ Lo' = 2
  BY <1>2, ScannedIsDue DEF StartCallback, Scan, Lo
<1>4. /\ UNCHANGED <<waitset, cb, timerOf, sleeping, slept>>
      /\ calls' = [calls EXCEPT ![op] = @ + 1]
  BY <1>2, <1>3 DEF StartCallback, Scan, Callee
<1>5. /\ waitset \in Seq(CompletedEvents) /\ Len(waitset) \in Nat /\ waitset # <<>>
      /\ 1 \in 1..Len(waitset)
  BY <1>1, <1>2, <1>3, ListTyped, EmptySeq DEF Scan
<1>6. waitset[1].cb \in Ops /\ t \in Timers /\ op \in Ops /\ timerOf[op] = t
  <2>1. waitset[1].cb \in Ops BY <1>1, <1>5, ListTyped
  <2>2. t \in Timers BY <1>1, <1>5, <2>1 DEF NamesInv, TypesInv
  <2>3. op # NoOp BY <1>1, <2>1, <2>2, TimerAssumption DEF NamesInv
  <2> QED BY <1>1, <2>1, <2>2, <2>3 DEF NamesInv, TypesInv
<1>7. sleeping = NoTimer BY <1>1, <1>3 DEF NamesInv
<1> HIDE DEF op
<1>8. /\ calls'[op] = calls[op] + 1 /\ \A q \in Ops : q # op => calls'[q] = calls[q]
      /\ \A q \in Ops : calls[q] \in Nat
  BY <1>1, <1>4, <1>6 DEF TypesInv
<1>9. TypesInv'
  <2>1. LoopInv' BY <1>2, <1>3, LoopStepInv
  <2>2. calls' \in [Ops -> Nat] BY <1>1, <1>4, <1>6 DEF TypesInv
  <2> QED BY <1>1, <1>4, <2>1, <2>2 DEF TypesInv
<1>10. NamesInv'
  <2>1. \A q \in Ops : calls'[q] > 0 => timerOf[q] # NoTimer
    BY <1>1, <1>6, <1>8, TimerAssumption DEF NamesInv
  <2> QED BY <1>1, <1>4, <1>7, <2>1 DEF NamesInv
<1>11. HeldInv'
  <2> SUFFICES ASSUME NEW u \in Timers, cb[u] # NoOp
               PROVE  \/ calls'[cb[u]] > 0
                      \/ \E i \in 2..Len(waitset) : timerOf[waitset[i].cb] = u
    BY <1>3, <1>4 DEF HeldInv
  <2>0. cb[u] \in Ops BY <1>1 DEF TypesInv
  <2>1. ~Asleep(u) BY <1>7, TimerAssumption DEF Asleep
  <2>2. CASE calls[cb[u]] > 0 BY <1>8, <2>0, <2>2
  <2>3. CASE \E i \in 1..Len(waitset) : timerOf[waitset[i].cb] = u
    <3>1. CASE u = t
      <4>1. cb[u] = op BY <3>1 DEF op
      <4> QED BY <1>8, <2>0, <4>1
    <3>2. CASE u # t BY <1>5, <2>3, <3>2
    <3> QED BY <3>1, <3>2
  <2> QED BY <1>1, <1>3, <2>1, <2>2, <2>3 DEF HeldInv
<1>12. FiniteInv' BY <1>1, <1>4 DEF FiniteInv, WaitsOf
<1>13. PerWait'
  <2> SUFFICES ASSUME NEW u \in Timers
               PROVE  (Cardinality(WaitsOf(u)) = Waiting(u) + Called(u))'
    BY DEF PerWait
  <2>1. /\ WaitsOf(u) \in SUBSET Ops /\ IsFiniteSet(WaitsOf(u))
        /\ Cardinality(WaitsOf(u)) \in Nat /\ Called(u) \in Nat
    BY <1>1, Numbers
  <2>2. WaitsOf(u)' = WaitsOf(u) BY <1>4 DEF WaitsOf
  <2>3. ~Asleep(u) /\ ~Asleep(u)' BY <1>4, <1>7, TimerAssumption DEF Asleep
  <2>4. op \in WaitsOf(u) <=> waitset[1].cb \in WaitsOf(u) BY <1>6 DEF WaitsOf
  <2>5. Count(waitset, WaitsOf(u), 1)
          = Count(waitset, WaitsOf(u), 2) + One(waitset[1].cb \in WaitsOf(u))
    BY <1>5, CountCalled
  <2>6. Count(waitset, WaitsOf(u), 2) \in Nat BY <1>5, AwaitingFinite
  <2>7. Called(u)' = Called(u) + One(op \in WaitsOf(u))
    <3> DEFINE W == WaitsOf(u)
    <3>1. W \in SUBSET Ops /\ IsFiniteSet(W) /\ op \in Ops BY <1>6, <2>1
    <3> HIDE DEF W
    <3>2. SumFunctionOnSet(calls', W)
            = SumFunctionOnSet(calls, W) + (IF op \in W THEN 1 ELSE 0)
      BY <1>8, <3>1, SumCounts
    <3> QED BY <2>2, <3>2 DEF Called, One, W
  <2>8. Cardinality(WaitsOf(u)) = Count(waitset, WaitsOf(u), 1) + Called(u)
    <3>1. Count(waitset, WaitsOf(u), 1) \in Nat BY <1>5, AwaitingFinite
    <3>2. Waiting(u) = Count(waitset, WaitsOf(u), 1)
      BY <1>3, <2>3, <3>1 DEF Waiting, One
    <3> QED BY <1>1, <3>2 DEF PerWait
  <2>9. Waiting(u)' = Count(waitset, WaitsOf(u), 2)
    BY <1>3, <1>4, <2>2, <2>3, <2>6 DEF Waiting, One
  <2> QED BY <2>1, <2>2, <2>4, <2>5, <2>6, <2>7, <2>8, <2>9 DEF One
<1> QED BY <1>9, <1>10, <1>11, <1>12, <1>13, PerWaitNext DEF TimerInv
(* ... and ends: its event is erased. *)
LEMMA ReturnsTimer == ASSUME TimerInv, EndCallback PROVE TimerInv'
<1>1. TypesInv /\ NamesInv /\ HeldInv /\ FiniteInv /\ PerWait BY PerWaitIs DEF TimerInv
<1>2. LoopInv /\ it = 1 BY <1>1 DEF TypesInv, LoopInv
<1>3. /\ sleeping = NoTimer /\ Return /\ pc = "callback" /\ pc' = "scan"
      /\ waitset' = RemoveAt(waitset, 1)
      /\ UNCHANGED <<cb, timerOf, sleeping, slept, calls>>
  BY <1>2 DEF EndCallback, Return, timerVars
<1>4. /\ waitset \in Seq(CompletedEvents) /\ waitset # <<>> /\ Len(waitset) \in Nat \ {0}
      /\ Lo = 2 /\ Lo' = 1
  BY <1>1, <1>2, <1>3, ListTyped, EmptySeq DEF LoopInv, Lo
<1>5. /\ waitset' = Tail(waitset) /\ Len(waitset') = Len(waitset) - 1
      /\ \A i \in 1..Len(waitset') : waitset'[i] = waitset[i + 1]
  BY <1>3, <1>4, EraseFirst, HeadTailProperties
<1>6. \A u \in Timers : ~Asleep(u) /\ ~Asleep(u)' BY <1>3, TimerAssumption DEF Asleep
<1>7. TypesInv'
  <2>1. LoopInv' BY <1>2, <1>3, LoopStepInv
  <2> QED BY <1>1, <1>3, <2>1 DEF TypesInv
<1>8. NamesInv'
  <2>1. \A i \in 1..Len(waitset') : timerOf[waitset'[i].cb] # NoTimer
    BY <1>1, <1>4, <1>5 DEF NamesInv
  <2> QED BY <1>1, <1>3, <2>1 DEF NamesInv
<1>9. HeldInv'
  <2> SUFFICES ASSUME NEW u \in Timers, cb[u] # NoOp, ~(calls[cb[u]] > 0)
               PROVE  \E i \in 1..Len(waitset') : timerOf[waitset'[i].cb] = u
    BY <1>3, <1>4 DEF HeldInv
  <2>1. PICK i \in 2..Len(waitset) : timerOf[waitset[i].cb] = u
    BY <1>1, <1>4, <1>6 DEF HeldInv
  <2>2. i - 1 \in 1..Len(waitset') /\ (i - 1) + 1 = i BY <1>4, <1>5
  <2>3. waitset'[i - 1] = waitset[i] BY <1>5, <2>2
  <2> QED BY <2>1, <2>2, <2>3
<1>10. FiniteInv' BY <1>1, <1>3 DEF FiniteInv, WaitsOf
<1>11. PerWait'
  <2> SUFFICES ASSUME NEW u \in Timers
               PROVE  (Cardinality(WaitsOf(u)) = Waiting(u) + Called(u))'
    BY DEF PerWait
  <2>1. WaitsOf(u)' = WaitsOf(u) /\ Called(u)' = Called(u) BY <1>3 DEF WaitsOf, Called
  <2>2. Count(waitset', WaitsOf(u), 1) = Count(waitset, WaitsOf(u), 2)
    BY <1>4, <1>5, CountErased
  <2>3. Waiting(u)' = Waiting(u) BY <1>4, <1>6, <2>1, <2>2 DEF Waiting, One
  <2> QED BY <1>1, <2>1, <2>3 DEF PerWait
<1> QED BY <1>7, <1>8, <1>9, <1>10, <1>11, PerWaitNext DEF TimerInv

-----------------------------------------------------------------------------
LEMMA NextTimer == ASSUME TimerInv, [Next]_vars PROVE TimerInv'
<1>0. LoopInv /\ it = 1 /\ TypesInv /\ NamesInv BY DEF TimerInv, TypesInv, LoopInv
<1>1. CASE \E t \in Timers, op \in Ops : Wait(t, op) BY <1>1, WaitTimer
<1>2. CASE Elapse BY <1>2, ElapseTimer
<1>3. CASE Join BY <1>3, JoinTimer
<1>4. CASE StartCallback BY <1>4, CallsTimer
<1>5. CASE EndCallback BY <1>5, ReturnsTimer
<1>6. CASE StartRun
  <2>1. /\ UNCHANGED <<waitset, cb, timerOf, sleeping, slept, calls>> /\ sleeping = NoTimer
        /\ pc = "setup" /\ pc' = "top"
    BY <1>6 DEF StartRun, Run, timerVars
  <2>2. LoopInv' BY <1>0, <1>6, LoopStepInv DEF StartRun
  <2> QED BY <2>1, <2>2, OtherTimer
<1>7. CASE LoopTest
  <2>1. /\ UNCHANGED <<waitset, cb, timerOf, sleeping, slept, calls>>
        /\ pc = "top" /\ pc' \in {"scan", "done"}
    BY <1>7 DEF LoopTest, Enter, timerVars
  <2>2. LoopInv' BY <1>0, <1>7, LoopStepInv DEF LoopTest
  <2>3. sleeping = NoTimer BY <1>0, <2>1 DEF NamesInv
  <2> QED BY <2>1, <2>2, <2>3, OtherTimer
<1>8. CASE StartWait
  <2>1. /\ UNCHANGED <<waitset, cb, timerOf, sleeping, slept, calls>>
        /\ pc = "scan" /\ pc' = "wait"
    BY <1>8 DEF StartWait, EnterWait, timerVars
  <2>2. LoopInv' BY <1>0, <1>8, LoopStepInv DEF StartWait
  <2>3. sleeping = NoTimer BY <1>0, <2>1 DEF NamesInv
  <2> QED BY <2>1, <2>2, <2>3, OtherTimer
<1>9. CASE UserEnd
  <2>1. UNCHANGED <<waitset, cb, timerOf, sleeping, slept, calls, pc>>
    BY <1>9 DEF UserEnd, End, timerVars
  <2>2. LoopInv' BY <1>0, <1>9, LoopStepInv DEF UserEnd
  <2> QED BY <2>1, <2>2, OtherTimer
<1>10. CASE OtherEvent
  <2>1. UNCHANGED <<loopVars, cb, timerOf, sleeping, slept, calls>>
    BY <1>10 DEF OtherEvent
  <2>2. LoopInv' BY <1>0, <2>1, LoopStepInv
  <2> QED BY <2>1, <2>2, OtherTimer DEF loopVars
<1>11. CASE HandlerWait
  <2>1. /\ UNCHANGED <<waitset, it, canContinue, cb, timerOf, sleeping, slept, calls>>
        /\ pc = "wait" /\ pc' = "top"
    BY <1>11 DEF HandlerWait
  <2>2. LoopInv' BY <1>0, <2>1 DEF LoopInv, NothingDueInWait, Places
  <2>3. sleeping = NoTimer BY <1>0, <2>1 DEF NamesInv
  <2> QED BY <2>1, <2>2, <2>3, OtherTimer
<1>12. CASE UNCHANGED vars
  <2>1. UNCHANGED <<loopVars, cb, timerOf, sleeping, slept, calls>>
    BY <1>12 DEF vars, loopVars
  <2>2. LoopInv' BY <1>0, <2>1, LoopStepInv
  <2> QED BY <2>1, <2>2, OtherTimer DEF loopVars
<1> QED BY <1>1, <1>2, <1>3, <1>4, <1>5, <1>6, <1>7, <1>8, <1>9, <1>10, <1>11, <1>12 DEF Next

LEMMA TimerInvariant == Spec => []TimerInv
<1>1. Init => TimerInv BY InitTimer
<1>2. TimerInv /\ [Next]_vars => TimerInv' BY NextTimer
<1> QED BY <1>1, <1>2, PTL DEF Spec

(* Every Wait() makes for one call of a callback its timer holds: the      *)
(* waits of a timer are those whose thread sleeps, those whose event is    *)
(* queued and those that were called, however the program nests waits in   *)
(* callbacks, waits again for a timer whose event is queued, and ends or   *)
(* runs the loop (wintimer.h:36-41, context.h:36-56).                      *)
THEOREM WaitsAreCalledOnce == Spec => []CallbackPerWait
<1>1. TimerInv => CallbackPerWait BY DEF TimerInv
<1> QED BY <1>1, TimerInvariant, PTL

(* When handler_.Wait() may block no Wait() sleeps, and the callback each   *)
(* timer holds has run: a timer never needs the handler to wake the loop    *)
(* (wintimer.h:36-41, pltlock.h:23, context.h:36-56).                       *)
THEOREM TimersNeedNoHandler == Spec => []TimerNeverWaitsForHandler
<1>1. TimerInv => TimerNeverWaitsForHandler
  <2> SUFFICES ASSUME TimerInv, pc = "wait"
               PROVE  /\ sleeping = NoTimer
                      /\ \A t \in Timers : cb[t] # NoOp => calls[cb[t]] > 0
    BY DEF TimerNeverWaitsForHandler
  <2>1. TypesInv /\ NamesInv /\ HeldInv BY DEF TimerInv
  <2>2. waitset = <<>> /\ Len(waitset) = 0
    BY <2>1, EmptySeq DEF TypesInv, LoopInv, NothingDueInWait
  <2>3. sleeping = NoTimer BY <2>1 DEF NamesInv
  <2>4. \A t \in Timers : ~Asleep(t) BY <2>3, TimerAssumption DEF Asleep
  <2> QED BY <2>1, <2>2, <2>3, <2>4 DEF HeldInv, Lo
<1> QED BY <1>1, TimerInvariant, PTL
=============================================================================
