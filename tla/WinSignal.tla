----------------------------- MODULE WinSignal ------------------------------
(***************************************************************************)
(* Signals on Windows (winsignal.h, winsignalimpl.h, signal.h): a static   *)
(* map from signals to callbacks, written by Wait() on whatever thread the *)
(* program is on, and read by SigCallback on a thread that the C runtime   *)
(* makes for each delivery.  A callback resumes the coroutine that waits,  *)
(* which goes on there, without the loop of module Context.                *)
(*                                                                         *)
(* The C runtime is external: delivering a signal resets it to the default *)
(* action, which ends the process.                                         *)
(***************************************************************************)
EXTENDS Integers, FiniteSets

CONSTANTS Signals, NoSignal,
          Handlers, NoHandler,
          Set,         \* signals_ of each handler
          Ops, NoOp,   \* the SignalAwaits of the program
          Threads,     \* the program's thread, and those of the C runtime
          main

ASSUME SignalAssumption ==
  /\ NoSignal \notin Signals
  /\ NoHandler \notin Handlers
  /\ Set \in [Handlers -> SUBSET Signals]
  /\ NoOp \notin Ops
  /\ main \in Threads

VARIABLES sigmap,     \* WinSigManager::sigmap_
          armed,      \* signals whose action is SigCallback
          at,         \* where each thread is
          carries,    \* the signal a thread of the C runtime was made for
          calls,      \* the await whose Wait() a thread is in
          awaits,     \* the handler of each await
          retsig,     \* retsig of each await, NoSignal until it is resumed
          again,      \* history: awaits resumed again, by which signal after which
          process

vars == <<sigmap, armed, at, carries, calls, awaits, retsig, again, process>>

(* user: in the program's code; writing, arming: in the two loops of Wait; *)
(* entered: in SigCallback, before the map is read.                        *)
Places == {"idle", "user", "writing", "arming", "entered"}

TypeOK ==
  /\ sigmap \in [Signals -> Ops \cup {NoOp}]
  /\ armed \subseteq Signals
  /\ at \in [Threads -> Places]
  /\ carries \in [Threads -> Signals \cup {NoSignal}]
  /\ calls \in [Threads -> Ops \cup {NoOp}]
  /\ awaits \in [Ops -> Handlers \cup {NoHandler}]
  /\ retsig \in [Ops -> Signals \cup {NoSignal}]
  /\ again \subseteq Ops \X Signals \X Signals
  /\ process \in {"runs", "killed", "crashed"}

Init ==
  /\ sigmap = [s \in Signals |-> NoOp]
  /\ armed = {}
  /\ at = [t \in Threads |-> IF t = main THEN "user" ELSE "idle"]
  /\ carries = [t \in Threads |-> NoSignal]
  /\ calls = [t \in Threads |-> NoOp]
  /\ awaits = [op \in Ops |-> NoHandler]
  /\ retsig = [op \in Ops |-> NoSignal]
  /\ again = {}
  /\ process = "runs"

-----------------------------------------------------------------------------
(* Mutant: one loop, which arms each signal before it writes the map. *)
WaitArmsFirst(t, op, h) ==
  /\ process = "runs"
  /\ at[t] = "user"
  /\ awaits[op] = NoHandler
  /\ awaits' = [awaits EXCEPT ![op] = h]
  /\ armed' = armed \cup Set[h]
  /\ at' = [at EXCEPT ![t] = "writing"]
  /\ calls' = [calls EXCEPT ![t] = op]
  /\ UNCHANGED <<sigmap, carries, retsig, again, process>>

(* co_await AsyncWait(handler): await_suspend, up to Wait's first loop.    *)
Wait(t, op, h) ==
  /\ process = "runs"
  /\ at[t] = "user"
  /\ awaits[op] = NoHandler
  /\ awaits' = [awaits EXCEPT ![op] = h]
  /\ at' = [at EXCEPT ![t] = "writing"]
  /\ calls' = [calls EXCEPT ![t] = op]
  /\ UNCHANGED <<sigmap, armed, carries, retsig, again, process>>

(* m.sigmap_[i] = fn for each signal of the handler. *)
Write(t) ==
  /\ process = "runs"
  /\ at[t] = "writing"
  /\ sigmap' = [s \in Signals |-> IF s \in Set[awaits[calls[t]]] THEN calls[t] ELSE sigmap[s]]
  /\ at' = [at EXCEPT ![t] = "arming"]
  /\ UNCHANGED <<armed, carries, calls, awaits, retsig, again, process>>

(* Mutant: the loop ends after the handler's first signal. *)
ArmOne(t) ==
  /\ process = "runs"
  /\ at[t] = "arming"
  /\ armed' = armed \cup {CHOOSE s \in Set[awaits[calls[t]]] : TRUE}
  /\ at' = [at EXCEPT ![t] = "user"]
  /\ calls' = [calls EXCEPT ![t] = NoOp]
  /\ UNCHANGED <<sigmap, carries, awaits, retsig, again, process>>

(* signal(i.first, SigCallback) for every signal of the map, those of      *)
(* other handlers included.                                                *)
Arm(t) ==
  /\ process = "runs"
  /\ at[t] = "arming"
  /\ armed' = armed \cup {s \in Signals : sigmap[s] # NoOp}
  /\ at' = [at EXCEPT ![t] = "user"]
  /\ calls' = [calls EXCEPT ![t] = NoOp]
  /\ UNCHANGED <<sigmap, carries, awaits, retsig, again, process>>

(* External: a signal that is armed is handed to a new thread. *)
Deliver(s, t) ==
  /\ process = "runs"
  /\ s \in armed
  /\ at[t] = "idle"
  /\ armed' = armed \ {s}
  /\ at' = [at EXCEPT ![t] = "entered"]
  /\ carries' = [carries EXCEPT ![t] = s]
  /\ UNCHANGED <<sigmap, calls, awaits, retsig, again, process>>

(* External: the default action of a signal that is not. *)
Kill(s) ==
  /\ process = "runs"
  /\ s \notin armed
  /\ process' = "killed"
  /\ UNCHANGED <<sigmap, armed, at, carries, calls, awaits, retsig, again>>

(* sigmap_[signal](signal), which is SignalAwait::Resume; an empty function *)
(* throws.                                                                 *)
Called(s) ==
  LET op == sigmap[s]
  IN IF op = NoOp THEN process' = "crashed" /\ UNCHANGED <<retsig, again>>
     ELSE /\ retsig' = [retsig EXCEPT ![op] = s]
          /\ again' = IF retsig[op] = NoSignal THEN again ELSE again \cup {<<op, s, retsig[op]>>}
          /\ UNCHANGED process

(* Mutant: the callback arms its signal again, as Unix programs do. *)
SigCallbackRearms(t) ==
  /\ process = "runs"
  /\ at[t] = "entered"
  /\ Called(carries[t])
  /\ armed' = armed \cup {carries[t]}
  /\ at' = [at EXCEPT ![t] = "user"]
  /\ UNCHANGED <<sigmap, carries, calls, awaits>>

SigCallback(t) ==
  /\ process = "runs"
  /\ at[t] = "entered"
  /\ Called(carries[t])
  /\ at' = [at EXCEPT ![t] = "user"]
  /\ UNCHANGED <<sigmap, armed, carries, calls, awaits>>

(* The coroutine suspends elsewhere or ends, and the thread ends. *)
Return(t) ==
  /\ process = "runs"
  /\ t # main
  /\ at[t] = "user"
  /\ at' = [at EXCEPT ![t] = "idle"]
  /\ carries' = [carries EXCEPT ![t] = NoSignal]
  /\ UNCHANGED <<sigmap, armed, calls, awaits, retsig, again, process>>

(* A thread uses the map while another one writes to it. *)
Race(t) ==
  /\ process = "runs"
  /\ at[t] \in {"writing", "arming", "entered"}
  /\ \E u \in Threads \ {t} : at[u] = "writing"
  /\ process' = "crashed"
  /\ UNCHANGED <<sigmap, armed, at, carries, calls, awaits, retsig, again>>

Next ==
  \/ \E t \in Threads :
       \/ \E op \in Ops, h \in Handlers : Wait(t, op, h)
       \/ Write(t) \/ Arm(t) \/ SigCallback(t) \/ Return(t) \/ Race(t)
       \/ \E s \in Signals : Deliver(s, t)
  \/ \E s \in Signals : Kill(s)

Spec == Init /\ [][Next]_vars

-----------------------------------------------------------------------------
(* Does op's Wait() still run? *)
InWait(op) == \E t \in Threads : calls[t] = op

(* A signal of a handler that waits does not end the process: it is armed, *)
(* or being delivered, as long as the map names the await that waits.  The *)
(* process can be killed only by a signal nobody waits for, by the second  *)
(* of two in a row, by one another handler took over, or inside Wait()     *)
(* (winsignalimpl.h:21, 26-30).                                            *)
WatchedUntilDelivered ==
  \A s \in Signals :
    sigmap[s] # NoOp /\ retsig[sigmap[s]] = NoSignal =>
      \/ s \in armed
      \/ InWait(sigmap[s])
      \/ \E t \in Threads : at[t] = "entered" /\ carries[t] = s

(* The signal that resumed a coroutine last resumes it once more, though   *)
(* it no longer waits there and the SignalAwait may be gone, only in a     *)
(* program that has another await: one Wait() arms each signal once, and   *)
(* it takes a second to arm again whatever the map holds                   *)
(* (winsignalimpl.h:28-30, signal.h:49-52).                                *)
ResumedAgainOnlyIfArmedAgain ==
  \A e \in again : e[2] = e[3] => \E p \in Ops \ {e[1]} : awaits[p] # NoHandler

(* Whatever the map holds after several Wait() calls of handlers that      *)
(* share signals, an await is resumed by a signal of its own handler's set *)
(* only (winsignalimpl.h:21, 25-27).                                       *)
ResumedByItsOwnSignal ==
  \A op \in Ops :
    /\ retsig[op] # NoSignal => retsig[op] \in Set[awaits[op]]
    /\ \A e \in again : e[1] = op => {e[2], e[3]} \subseteq Set[awaits[op]]

(* SigCallback finds its callback, and the map is not used by two threads  *)
(* at once before a second Wait(): nothing is armed until the first has    *)
(* filled the map (winsignalimpl.h:21, 25-30).                             *)
FirstWaitDoesNotRace ==
  process = "crashed" => \E p, q \in Ops : p # q /\ awaits[p] # NoHandler /\ awaits[q] # NoHandler
=============================================================================
