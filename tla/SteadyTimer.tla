---------------------------- MODULE SteadyTimer ----------------------------
(***************************************************************************)
(* SteadyTimer as every platform builds it: plttimer.h selects             *)
(* WinSteadyTimer on Linux too.  Wait() starts a thread with std::async    *)
(* and drops the future it returns, whose destructor waits for the thread: *)
(* the call returns when the time is over.  The completed event calls the  *)
(* cb_ the timer holds when the event is served.                           *)
(***************************************************************************)
EXTENDS Context, FiniteSets

CONSTANTS Timers, NoTimer

ASSUME TimerAssumption == NoTimer \notin Timers

VARIABLES cb,        \* cb_ of each timer
          timerOf,   \* the timer each operation waits for
          sleeping,  \* the timer whose Wait() is inside the future's destructor
          slept,     \* has its thread called SubmitComplete?
          others,    \* does the platform handler have an event to report?
          calls      \* history: how often each callback ran

timerVars == <<cb, timerOf, sleeping, slept, others, calls>>
vars == <<waitset, it, canContinue, pc, cb, timerOf, sleeping, slept, others, calls>>

TypeOK ==
  /\ LoopTypeOK
  /\ cb \in [Timers -> Ops \cup {NoOp}]
  /\ timerOf \in [Ops -> Timers \cup {NoTimer}]
  /\ sleeping \in Timers \cup {NoTimer}
  /\ slept \in BOOLEAN
  /\ others \in BOOLEAN
  /\ calls \in [Ops -> 0..Cardinality(Ops)]

Init ==
  /\ LoopInit
  /\ cb = [t \in Timers |-> NoOp]
  /\ timerOf = [op \in Ops |-> NoTimer]
  /\ sleeping = NoTimer
  /\ slept = FALSE
  /\ others = FALSE
  /\ calls = [op \in Ops |-> 0]

InUser == pc \in {"setup", "callback"} /\ sleeping = NoTimer

-----------------------------------------------------------------------------
(* SteadyTimerAwait and AsyncWaitcb: Wait() up to the end of its block,    *)
(* where the future is destroyed.                                          *)
Wait(t, op) ==
  /\ InUser
  /\ timerOf[op] = NoTimer
  /\ cb' = [cb EXCEPT ![t] = op]
  /\ timerOf' = [timerOf EXCEPT ![op] = t]
  /\ sleeping' = t
  /\ slept' = FALSE
  /\ UNCHANGED <<loopVars, others, calls>>

(* The thread: sleep_for, then SubmitComplete.  The event is named for the *)
(* operation that caused it, though its callback only refers to the timer. *)
Elapse ==
  /\ sleeping # NoTimer
  /\ ~slept
  /\ slept' = TRUE
  /\ waitset' = SubmitComplete(waitset, Event(cb[sleeping]))
  /\ UNCHANGED <<it, canContinue, pc, cb, timerOf, sleeping, others, calls>>

(* Mutant: the call does not wait for its thread. *)
JoinAtOnce ==
  /\ sleeping # NoTimer
  /\ sleeping' = NoTimer
  /\ UNCHANGED <<loopVars, cb, timerOf, slept, others, calls>>

(* The thread is joined and Wait() returns. *)
Join ==
  /\ sleeping # NoTimer
  /\ slept
  /\ sleeping' = NoTimer
  /\ UNCHANGED <<loopVars, cb, timerOf, slept, others, calls>>

-----------------------------------------------------------------------------
StartRun == sleeping = NoTimer /\ Run /\ UNCHANGED timerVars
LoopTest == Enter /\ UNCHANGED timerVars
UserEnd == sleeping = NoTimer /\ End /\ UNCHANGED timerVars
EndCallback == sleeping = NoTimer /\ Return /\ UNCHANGED timerVars
StartWait == EnterWait /\ UNCHANGED timerVars

(* [this](int, int) { this->cb_(0); } *)
Callee(ev) == cb[timerOf[ev.cb]]

StartCallback ==
  /\ Scan
  /\ IF Due(waitset[it]) THEN calls' = [calls EXCEPT ![Callee(waitset[it])] = @ + 1]
                         ELSE UNCHANGED calls
  /\ UNCHANGED <<cb, timerOf, sleeping, slept, others>>

(* handler_.Wait() returns when something else of the program is ready. *)
OtherEvent ==
  /\ ~others
  /\ pc \notin {"setup", "done"}
  /\ others' = TRUE
  /\ UNCHANGED <<loopVars, cb, timerOf, sleeping, slept, calls>>

HandlerWait ==
  /\ pc = "wait"
  /\ others
  /\ pc' = "top"
  /\ others' = FALSE
  /\ UNCHANGED <<waitset, it, canContinue, cb, timerOf, sleeping, slept, calls>>

Next ==
  \/ \E t \in Timers, op \in Ops : Wait(t, op)
  \/ Elapse \/ Join
  \/ StartRun \/ LoopTest \/ StartCallback \/ EndCallback \/ StartWait \/ UserEnd
  \/ OtherEvent \/ HandlerWait

Spec == Init /\ [][Next]_vars

(* The sleeping thread wakes, the loop's thread keeps running, and the     *)
(* program's own code returns.                                             *)
Fairness ==
  /\ WF_vars(Elapse \/ Join)
  /\ WF_vars(LoopTest \/ StartCallback \/ StartWait \/ HandlerWait)
  /\ WF_vars(StartRun \/ EndCallback)

FairSpec == Spec /\ Fairness

-----------------------------------------------------------------------------
(* When handler_.Wait() may block no timer is asleep, and the last callback*)
(* given to each has been called.  A timer never needs the handler to wake *)
(* the loop, because its Wait() has held the loop until it was over        *)
(* (wintimer.h:36-41, context.h:36-56).                                    *)
TimerNeverWaitsForHandler ==
  pc = "wait" =>
    /\ sleeping = NoTimer
    /\ \A t \in Timers : cb[t] # NoOp => calls[cb[t]] > 0

(* The events of a timer that are queued: not yet handed to a callback.    *)
QueuedEvents(t) ==
  {i \in 1..Len(waitset) : timerOf[waitset[i].cb] = t /\ ~(pc = "callback" /\ i = it)}

(* Every Wait() makes for one call of a callback of its timer: the waits   *)
(* of a timer are those asleep, those queued, and those called, whichever  *)
(* callback they called (wintimer.h:36-41).                                *)
CallbackPerWait ==
  \A t \in Timers :
    LET waits == {op \in Ops : timerOf[op] = t}
    IN Cardinality(waits) =
         (IF sleeping = t /\ ~slept THEN 1 ELSE 0)
           + Cardinality(QueuedEvents(t))
           + SumFunctionOnSet(calls, waits)

(* Every wait for a timer ends with its callback, unless the program waits *)
(* for the same timer again or ends the loop.                              *)
WaitIsServed ==
  \A op \in Ops :
    timerOf[op] # NoTimer ~>
      \/ calls[op] > 0
      \/ \E t \in Timers : timerOf[op] = t /\ cb[t] # op
      \/ ~canContinue
=============================================================================
