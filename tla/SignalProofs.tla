---------------------------- MODULE SignalProofs ----------------------------
(***************************************************************************)
(* What module WinSignal promises, for any handlers, signals and threads.  *)
(***************************************************************************)
EXTENDS WinSignal, TLAPS

-----------------------------------------------------------------------------
(* The inductive invariant.                                                *)

Entered(t, s) == at[t] = "entered" /\ carries[t] = s

(* A thread in Wait() works for one await, its own. *)
WaitsInv ==
  /\ \A t \in Threads : at[t] \in {"writing", "arming"} <=> calls[t] # NoOp
  /\ \A t \in Threads : calls[t] # NoOp => awaits[calls[t]] # NoHandler
  /\ \A t, u \in Threads : calls[t] = calls[u] /\ calls[t] # NoOp => t = u

(* The map names awaits of the program, under signals of their handlers,   *)
(* once Wait() has written it.                                             *)
MapInv ==
  \A s \in Signals : sigmap[s] # NoOp =>
    /\ awaits[sigmap[s]] # NoHandler
    /\ s \in Set[awaits[sigmap[s]]]
    /\ \A t \in Threads : at[t] = "writing" => calls[t] # sigmap[s]

(* What is armed or being delivered is in the map. *)
ArmedInv ==
  /\ \A s \in armed : sigmap[s] # NoOp
  /\ \A t \in Threads : at[t] = "entered" => carries[t] \in Signals /\ sigmap[carries[t]] # NoOp

(* Only what is awaited was resumed. *)
ResumedInv ==
  /\ \A op \in Ops : retsig[op] # NoSignal => awaits[op] # NoHandler
  /\ \A e \in again : awaits[e[1]] # NoHandler

(* Nothing has been awaited but op. *)
Alone(op) == \A p \in Ops : awaits[p] # NoHandler => p = op

(* Until a second Wait() each signal is delivered once. *)
AloneInv ==
  \A op \in Ops : Alone(op) =>
    /\ \A s \in Signals : retsig[op] = s => s \notin armed /\ \A t \in Threads : ~Entered(t, s)
    /\ \A s \in armed, t \in Threads : ~Entered(t, s)
    /\ \A t, u \in Threads, s \in Signals : Entered(t, s) /\ Entered(u, s) => t = u
    /\ \A t \in Threads : calls[t] # NoOp =>
         /\ armed = {}
         /\ \A s \in Signals, u \in Threads : ~Entered(u, s)
         /\ retsig[op] = NoSignal

SigInv ==
  /\ TypeOK
  /\ WaitsInv
  /\ MapInv
  /\ ArmedInv
  /\ ResumedInv
  /\ AloneInv
  /\ WatchedUntilDelivered
  /\ ResumedAgainOnlyIfArmedAgain
  /\ ResumedByItsOwnSignal
  /\ FirstWaitDoesNotRace

-----------------------------------------------------------------------------
LEMMA InitInv == Init => SigInv
BY SignalAssumption
   DEF Init, SigInv, TypeOK, Places, WaitsInv, MapInv, ArmedInv, ResumedInv, Alone, AloneInv, Entered,
       WatchedUntilDelivered, InWait, ResumedAgainOnlyIfArmedAgain, ResumedByItsOwnSignal,
       FirstWaitDoesNotRace

(* The thread is in the first loop of Wait(), the map still as it was. *)
LEMMA WaitInv ==
  ASSUME SigInv, NEW t \in Threads, NEW op \in Ops, NEW h \in Handlers, Wait(t, op, h)
  PROVE SigInv'
<1>1. TypeOK'
  BY SignalAssumption DEF SigInv, TypeOK, ArmedInv, MapInv, Places, Wait
<1>2. WaitsInv'
  BY SignalAssumption DEF SigInv, WaitsInv, TypeOK, Wait
<1>3. MapInv'
  BY SignalAssumption DEF SigInv, MapInv, TypeOK, WaitsInv, Wait
<1>4. ArmedInv'
  BY SignalAssumption DEF SigInv, ArmedInv, TypeOK, WaitsInv, MapInv, Wait
<1>5. ResumedInv'
  BY SignalAssumption DEF SigInv, ResumedInv, TypeOK, MapInv, ArmedInv, Wait
<1>6. AloneInv'
  BY SignalAssumption DEF SigInv, AloneInv, Alone, Entered, TypeOK, WaitsInv, MapInv,
    ArmedInv, ResumedInv, Wait
<1>7. WatchedUntilDelivered'
  BY SignalAssumption DEF SigInv, WatchedUntilDelivered, InWait, TypeOK, WaitsInv,
    MapInv, ArmedInv, Wait
<1>8. ResumedAgainOnlyIfArmedAgain'
  BY SignalAssumption DEF SigInv, ResumedAgainOnlyIfArmedAgain, TypeOK, AloneInv,
    Alone, Entered, ArmedInv, MapInv, Wait
<1>9. ResumedByItsOwnSignal'
  BY SignalAssumption DEF SigInv, ResumedByItsOwnSignal, TypeOK, MapInv, ArmedInv,
    ResumedInv, Wait
<1>10. FirstWaitDoesNotRace'
  BY SignalAssumption DEF SigInv, FirstWaitDoesNotRace, TypeOK, WaitsInv, MapInv,
    ArmedInv, Wait
<1> QED BY <1>1, <1>2, <1>3, <1>4, <1>5, <1>6, <1>7, <1>8, <1>9, <1>10 DEF SigInv

(* The map names the thread's await. *)
LEMMA WriteInv ==
  ASSUME SigInv, NEW t \in Threads, Write(t)
  PROVE SigInv'
<1>1. TypeOK'
  BY SignalAssumption DEF SigInv, TypeOK, ArmedInv, MapInv, Places, Write
<1>2. WaitsInv'
  BY SignalAssumption DEF SigInv, WaitsInv, TypeOK, Write
<1>3. MapInv'
  BY SignalAssumption DEF SigInv, MapInv, TypeOK, WaitsInv, Write
<1>4. ArmedInv'
  BY SignalAssumption DEF SigInv, ArmedInv, TypeOK, WaitsInv, MapInv, Write
<1>5. ResumedInv'
  BY SignalAssumption DEF SigInv, ResumedInv, TypeOK, MapInv, ArmedInv, Write
<1>6. AloneInv'
  BY SignalAssumption DEF SigInv, AloneInv, Alone, Entered, TypeOK, WaitsInv, MapInv,
    ArmedInv, ResumedInv, Write
<1>7. WatchedUntilDelivered'
  BY SignalAssumption DEF SigInv, WatchedUntilDelivered, InWait, TypeOK, WaitsInv,
    MapInv, ArmedInv, Write
<1>8. ResumedAgainOnlyIfArmedAgain'
  BY SignalAssumption DEF SigInv, ResumedAgainOnlyIfArmedAgain, TypeOK, AloneInv,
    Alone, Entered, ArmedInv, MapInv, Write
<1>9. ResumedByItsOwnSignal'
  BY SignalAssumption DEF SigInv, ResumedByItsOwnSignal, TypeOK, MapInv, ArmedInv,
    ResumedInv, Write
<1>10. FirstWaitDoesNotRace'
  BY SignalAssumption DEF SigInv, FirstWaitDoesNotRace, TypeOK, WaitsInv, MapInv,
    ArmedInv, Write
<1> QED BY <1>1, <1>2, <1>3, <1>4, <1>5, <1>6, <1>7, <1>8, <1>9, <1>10 DEF SigInv

(* Every signal of the map is armed. *)
LEMMA ArmInv ==
  ASSUME SigInv, NEW t \in Threads, Arm(t)
  PROVE SigInv'
<1>1. TypeOK'
  BY SignalAssumption DEF SigInv, TypeOK, ArmedInv, MapInv, Places, Arm
<1>2. WaitsInv'
  BY SignalAssumption DEF SigInv, WaitsInv, TypeOK, Arm
<1>3. MapInv'
  BY SignalAssumption DEF SigInv, MapInv, TypeOK, WaitsInv, Arm
<1>4. ArmedInv'
  BY SignalAssumption DEF SigInv, ArmedInv, TypeOK, WaitsInv, MapInv, Arm
<1>5. ResumedInv'
  BY SignalAssumption DEF SigInv, ResumedInv, TypeOK, MapInv, ArmedInv, Arm
<1>6. AloneInv'
  BY SignalAssumption DEF SigInv, AloneInv, Alone, Entered, TypeOK, WaitsInv, MapInv,
    ArmedInv, ResumedInv, Arm
<1>7. WatchedUntilDelivered'
  BY SignalAssumption DEF SigInv, WatchedUntilDelivered, InWait, TypeOK, WaitsInv,
    MapInv, ArmedInv, Arm
<1>8. ResumedAgainOnlyIfArmedAgain'
  BY SignalAssumption DEF SigInv, ResumedAgainOnlyIfArmedAgain, TypeOK, AloneInv,
    Alone, Entered, ArmedInv, MapInv, Arm
<1>9. ResumedByItsOwnSignal'
  BY SignalAssumption DEF SigInv, ResumedByItsOwnSignal, TypeOK, MapInv, ArmedInv,
    ResumedInv, Arm
<1>10. FirstWaitDoesNotRace'
  BY SignalAssumption DEF SigInv, FirstWaitDoesNotRace, TypeOK, WaitsInv, MapInv,
    ArmedInv, Arm
<1> QED BY <1>1, <1>2, <1>3, <1>4, <1>5, <1>6, <1>7, <1>8, <1>9, <1>10 DEF SigInv

(* What was armed is being delivered. *)
LEMMA DeliverInv ==
  ASSUME SigInv, NEW t \in Threads, NEW s \in Signals, Deliver(s, t)
  PROVE SigInv'
<1>1. TypeOK'
  BY SignalAssumption DEF SigInv, TypeOK, ArmedInv, MapInv, Places, Deliver
<1>2. WaitsInv'
  BY SignalAssumption DEF SigInv, WaitsInv, TypeOK, Deliver
<1>3. MapInv'
  BY SignalAssumption DEF SigInv, MapInv, TypeOK, WaitsInv, Deliver
<1>4. ArmedInv'
  BY SignalAssumption DEF SigInv, ArmedInv, TypeOK, WaitsInv, MapInv, Deliver
<1>5. ResumedInv'
  BY SignalAssumption DEF SigInv, ResumedInv, TypeOK, MapInv, ArmedInv, Deliver
<1>6. AloneInv'
  BY SignalAssumption DEF SigInv, AloneInv, Alone, Entered, TypeOK, WaitsInv, MapInv,
    ArmedInv, ResumedInv, Deliver
<1>7. WatchedUntilDelivered'
  BY SignalAssumption DEF SigInv, WatchedUntilDelivered, InWait, TypeOK, WaitsInv,
    MapInv, ArmedInv, Deliver
<1>8. ResumedAgainOnlyIfArmedAgain'
  BY SignalAssumption DEF SigInv, ResumedAgainOnlyIfArmedAgain, TypeOK, AloneInv,
    Alone, Entered, ArmedInv, MapInv, Deliver
<1>9. ResumedByItsOwnSignal'
  BY SignalAssumption DEF SigInv, ResumedByItsOwnSignal, TypeOK, MapInv, ArmedInv,
    ResumedInv, Deliver
<1>10. FirstWaitDoesNotRace'
  BY SignalAssumption DEF SigInv, FirstWaitDoesNotRace, TypeOK, WaitsInv, MapInv,
    ArmedInv, Deliver
<1> QED BY <1>1, <1>2, <1>3, <1>4, <1>5, <1>6, <1>7, <1>8, <1>9, <1>10 DEF SigInv

(* Nothing moves any more. *)
LEMMA KillInv ==
  ASSUME SigInv, NEW s \in Signals, Kill(s)
  PROVE SigInv'
<1>1. TypeOK'
  BY SignalAssumption DEF SigInv, TypeOK, ArmedInv, MapInv, Places, Kill
<1>2. WaitsInv'
  BY SignalAssumption DEF SigInv, WaitsInv, TypeOK, Kill
<1>3. MapInv'
  BY SignalAssumption DEF SigInv, MapInv, TypeOK, WaitsInv, Kill
<1>4. ArmedInv'
  BY SignalAssumption DEF SigInv, ArmedInv, TypeOK, WaitsInv, MapInv, Kill
<1>5. ResumedInv'
  BY SignalAssumption DEF SigInv, ResumedInv, TypeOK, MapInv, ArmedInv, Kill
<1>6. AloneInv'
  BY SignalAssumption DEF SigInv, AloneInv, Alone, Entered, TypeOK, WaitsInv, MapInv,
    ArmedInv, ResumedInv, Kill
<1>7. WatchedUntilDelivered'
  BY SignalAssumption DEF SigInv, WatchedUntilDelivered, InWait, TypeOK, WaitsInv,
    MapInv, ArmedInv, Kill
<1>8. ResumedAgainOnlyIfArmedAgain'
  BY SignalAssumption DEF SigInv, ResumedAgainOnlyIfArmedAgain, TypeOK, AloneInv,
    Alone, Entered, ArmedInv, MapInv, Kill
<1>9. ResumedByItsOwnSignal'
  BY SignalAssumption DEF SigInv, ResumedByItsOwnSignal, TypeOK, MapInv, ArmedInv,
    ResumedInv, Kill
<1>10. FirstWaitDoesNotRace'
  BY SignalAssumption DEF SigInv, FirstWaitDoesNotRace, TypeOK, WaitsInv, MapInv,
    ArmedInv, Kill
<1> QED BY <1>1, <1>2, <1>3, <1>4, <1>5, <1>6, <1>7, <1>8, <1>9, <1>10 DEF SigInv

(* The map names an await, which is resumed. *)
LEMMA SigCallbackInv ==
  ASSUME SigInv, NEW t \in Threads, SigCallback(t)
  PROVE SigInv'
<1>1. TypeOK'
  BY SignalAssumption DEF SigInv, TypeOK, ArmedInv, MapInv, Places, SigCallback,
    Called
<1>2. WaitsInv'
  BY SignalAssumption DEF SigInv, WaitsInv, TypeOK, SigCallback, Called
<1>3. MapInv'
  BY SignalAssumption DEF SigInv, MapInv, TypeOK, WaitsInv, SigCallback, Called
<1>4. ArmedInv'
  BY SignalAssumption DEF SigInv, ArmedInv, TypeOK, WaitsInv, MapInv, SigCallback,
    Called
<1>5. ResumedInv'
  BY SignalAssumption DEF SigInv, ResumedInv, TypeOK, MapInv, ArmedInv, SigCallback,
    Called
<1>6. AloneInv'
  BY SignalAssumption DEF SigInv, AloneInv, Alone, Entered, TypeOK, WaitsInv, MapInv,
    ArmedInv, ResumedInv, SigCallback, Called
<1>7. WatchedUntilDelivered'
  BY SignalAssumption DEF SigInv, WatchedUntilDelivered, InWait, TypeOK, WaitsInv,
    MapInv, ArmedInv, SigCallback, Called
<1>8. ResumedAgainOnlyIfArmedAgain'
  BY SignalAssumption DEF SigInv, ResumedAgainOnlyIfArmedAgain, TypeOK, AloneInv,
    Alone, Entered, ArmedInv, MapInv, SigCallback, Called
<1>9. ResumedByItsOwnSignal'
  BY SignalAssumption DEF SigInv, ResumedByItsOwnSignal, TypeOK, MapInv, ArmedInv,
    ResumedInv, SigCallback, Called
<1>10. FirstWaitDoesNotRace'
  BY SignalAssumption DEF SigInv, FirstWaitDoesNotRace, TypeOK, WaitsInv, MapInv,
    ArmedInv, SigCallback, Called
<1> QED BY <1>1, <1>2, <1>3, <1>4, <1>5, <1>6, <1>7, <1>8, <1>9, <1>10 DEF SigInv

(* A thread is idle again. *)
LEMMA ReturnInv ==
  ASSUME SigInv, NEW t \in Threads, Return(t)
  PROVE SigInv'
<1>1. TypeOK'
  BY SignalAssumption DEF SigInv, TypeOK, ArmedInv, MapInv, Places, Return
<1>2. WaitsInv'
  BY SignalAssumption DEF SigInv, WaitsInv, TypeOK, Return
<1>3. MapInv'
  BY SignalAssumption DEF SigInv, MapInv, TypeOK, WaitsInv, Return
<1>4. ArmedInv'
  BY SignalAssumption DEF SigInv, ArmedInv, TypeOK, WaitsInv, MapInv, Return
<1>5. ResumedInv'
  BY SignalAssumption DEF SigInv, ResumedInv, TypeOK, MapInv, ArmedInv, Return
<1>6. AloneInv'
  BY SignalAssumption DEF SigInv, AloneInv, Alone, Entered, TypeOK, WaitsInv, MapInv,
    ArmedInv, ResumedInv, Return
<1>7. WatchedUntilDelivered'
  BY SignalAssumption DEF SigInv, WatchedUntilDelivered, InWait, TypeOK, WaitsInv,
    MapInv, ArmedInv, Return
<1>8. ResumedAgainOnlyIfArmedAgain'
  BY SignalAssumption DEF SigInv, ResumedAgainOnlyIfArmedAgain, TypeOK, AloneInv,
    Alone, Entered, ArmedInv, MapInv, Return
<1>9. ResumedByItsOwnSignal'
  BY SignalAssumption DEF SigInv, ResumedByItsOwnSignal, TypeOK, MapInv, ArmedInv,
    ResumedInv, Return
<1>10. FirstWaitDoesNotRace'
  BY SignalAssumption DEF SigInv, FirstWaitDoesNotRace, TypeOK, WaitsInv, MapInv,
    ArmedInv, Return
<1> QED BY <1>1, <1>2, <1>3, <1>4, <1>5, <1>6, <1>7, <1>8, <1>9, <1>10 DEF SigInv

(* Two threads use the map, for two awaits. *)
LEMMA RaceInv ==
  ASSUME SigInv, NEW t \in Threads, Race(t)
  PROVE SigInv'
<1>1. TypeOK'
  BY SignalAssumption DEF SigInv, TypeOK, ArmedInv, MapInv, Places, Race
<1>2. WaitsInv'
  BY SignalAssumption DEF SigInv, WaitsInv, TypeOK, Race
<1>3. MapInv'
  BY SignalAssumption DEF SigInv, MapInv, TypeOK, WaitsInv, Race
<1>4. ArmedInv'
  BY SignalAssumption DEF SigInv, ArmedInv, TypeOK, WaitsInv, MapInv, Race
<1>5. ResumedInv'
  BY SignalAssumption DEF SigInv, ResumedInv, TypeOK, MapInv, ArmedInv, Race
<1>6. AloneInv'
  BY SignalAssumption DEF SigInv, AloneInv, Alone, Entered, TypeOK, WaitsInv, MapInv,
    ArmedInv, ResumedInv, Race
<1>7. WatchedUntilDelivered'
  BY SignalAssumption DEF SigInv, WatchedUntilDelivered, InWait, TypeOK, WaitsInv,
    MapInv, ArmedInv, Race
<1>8. ResumedAgainOnlyIfArmedAgain'
  BY SignalAssumption DEF SigInv, ResumedAgainOnlyIfArmedAgain, TypeOK, AloneInv,
    Alone, Entered, ArmedInv, MapInv, Race
<1>9. ResumedByItsOwnSignal'
  BY SignalAssumption DEF SigInv, ResumedByItsOwnSignal, TypeOK, MapInv, ArmedInv,
    ResumedInv, Race
<1>10. FirstWaitDoesNotRace'
  BY SignalAssumption DEF SigInv, FirstWaitDoesNotRace, TypeOK, WaitsInv, MapInv,
    ArmedInv, Race
<1> QED BY <1>1, <1>2, <1>3, <1>4, <1>5, <1>6, <1>7, <1>8, <1>9, <1>10 DEF SigInv

LEMMA StepInv == SigInv /\ [Next]_vars => SigInv'
<1> SUFFICES ASSUME SigInv, [Next]_vars PROVE SigInv' OBVIOUS
<1>1. CASE UNCHANGED vars
  BY <1>1 DEF vars, SigInv, TypeOK, WaitsInv, MapInv, ArmedInv, ResumedInv, Alone, AloneInv, Entered,
              WatchedUntilDelivered, InWait, ResumedAgainOnlyIfArmedAgain,
              ResumedByItsOwnSignal, FirstWaitDoesNotRace
<1>2. CASE Next
  BY <1>2, WaitInv, WriteInv, ArmInv, DeliverInv, KillInv, SigCallbackInv, ReturnInv, RaceInv DEF Next
<1> QED BY <1>1, <1>2

(* Signals, whatever handlers share them and however often they come: what *)
(* is watched, who is resumed, and when the map may be raced for           *)
(* (winsignalimpl.h:21-31).                                                *)
THEOREM SignalsInvariant == Spec => []SigInv
<1>1. Init => SigInv BY InitInv
<1>2. SigInv /\ [Next]_vars => SigInv' BY StepInv
<1> QED BY <1>1, <1>2, PTL DEF Spec

(* The signal of a waiting handler does not end the process. *)
THEOREM SignalsAreWatched == Spec => []WatchedUntilDelivered
<1>1. SigInv => WatchedUntilDelivered BY DEF SigInv
<1> QED BY <1>1, SignalsInvariant, PTL

(* A coroutine resumed by the signal that resumed it last takes another    *)
(* await of the program, whose Wait() arms it again.                       *)
THEOREM NoSecondResumption == Spec => []ResumedAgainOnlyIfArmedAgain
<1>1. SigInv => ResumedAgainOnlyIfArmedAgain BY DEF SigInv
<1> QED BY <1>1, SignalsInvariant, PTL

(* Nothing races for the map before a second Wait(). *)
THEOREM FirstWaitIsSafe == Spec => []FirstWaitDoesNotRace
<1>1. SigInv => FirstWaitDoesNotRace BY DEF SigInv
<1> QED BY <1>1, SignalsInvariant, PTL

(* Whatever the map holds, an await is told a signal of its own handler. *)
THEOREM OnlyOwnSignals == Spec => []ResumedByItsOwnSignal
<1>1. SigInv => ResumedByItsOwnSignal BY DEF SigInv
<1> QED BY <1>1, SignalsInvariant, PTL
=============================================================================
