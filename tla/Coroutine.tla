----------------------------- MODULE Coroutine -----------------------------
(***************************************************************************)
(* Future<T> of coroutine.h: frames that start when they are called, wait  *)
(* for events of the loop or for the Future of a frame they called, and    *)
(* hand control back when they end.                                        *)
(*                                                                         *)
(* inner_ is written and never read, and is left out.                      *)
(*                                                                         *)
(* A frame is one activation of a coroutine.  The event loop resumes the   *)
(* frame whose event completed; everything that frame then calls runs on   *)
(* the C++ stack above it.                                                 *)
(***************************************************************************)
EXTENDS Integers, Sequences, SequencesExt, FiniteSets

CONSTANTS Frames, NoFrame,
          Ret,      \* the T of each frame's Future<T>; "void" is specialized
          Throws,   \* frames that may end with an exception
          Takers    \* frames with parameters that refer to Futures

ASSUME FrameAssumption ==
  /\ NoFrame \notin Frames
  /\ Ret \in [Frames -> STRING]
  /\ Throws \subseteq Frames
  /\ Takers \subseteq Frames

VARIABLES state,    \* of each frame
          outer,    \* promise_type::outer_
          result,   \* promise_type::result
          knows,    \* the Futures a frame, or the program, can await
          awaited,  \* the Future each frame has suspended on
          got,      \* what a frame that runs got from which co_await of a Future
          stack,    \* frames running now, the innermost last
          dangling, \* history: who used which destroyed frame
          overtaken \* history: frames whose place in outer_ another one took

coVars == <<state, outer, result, knows, awaited, got, stack, dangling, overtaken>>

(* event: suspended on the completion of an operation; future: suspended   *)
(* on another frame; final: suspended at its end, never to be resumed;     *)
(* destroyed: its memory is freed.                                         *)
States == {"unborn", "running", "event", "future", "final", "destroyed"}

Results == {"unset", "value", "exception"}
Ends == Results \ {"unset"}
Answers == [of : Frames \cup {NoFrame}, result : Results]
Nothing == [of |-> NoFrame, result |-> "unset"]

TypeOK ==
  /\ state \in [Frames -> States]
  /\ outer \in [Frames -> Frames \cup {NoFrame}]
  /\ result \in [Frames -> Results]
  /\ knows \in [Frames \cup {NoFrame} -> SUBSET Frames]
  /\ awaited \in [Frames -> Frames \cup {NoFrame}]
  /\ got \in [Frames -> Answers]
  /\ stack \in Seq(Frames)
  /\ dangling \subseteq Frames \X Frames
  /\ overtaken \subseteq Frames

Init ==
  /\ state = [f \in Frames |-> "unborn"]
  /\ outer = [f \in Frames |-> NoFrame]
  /\ result = [f \in Frames |-> "unset"]
  /\ knows = [f \in Frames \cup {NoFrame} |-> {}]
  /\ awaited = [f \in Frames |-> NoFrame]
  /\ got = [f \in Frames |-> Nothing]
  /\ stack = <<>>
  /\ dangling = {}
  /\ overtaken = {}

Top(f) == stack # <<>> /\ Last(stack) = f

(* await_suspend() of a Future is overloaded: only a frame with a promise  *)
(* of the same type is recorded as outer_.                                 *)
SameType(f, g) == Ret[f] = Ret[g]

-----------------------------------------------------------------------------
(* A call: initial_suspend never suspends.  The caller, which may be the   *)
(* program, gets the Future, and passes references to others it has.       *)
Call(f, passed) ==
  LET caller == IF stack = <<>> THEN NoFrame ELSE Last(stack)
  IN /\ state[f] = "unborn"
     /\ passed \subseteq (IF f \in Takers THEN knows[caller] ELSE {})
     /\ state' = [state EXCEPT ![f] = "running"]
     /\ knows' = [knows EXCEPT ![caller] = @ \cup {f}, ![f] = passed]
     /\ stack' = Append(stack, f)
     /\ UNCHANGED <<outer, result, awaited, got, dangling, overtaken>>

(* co_await of a read, an accept, a timer ... *)
AwaitEvent(f) ==
  /\ Top(f)
  /\ state' = [state EXCEPT ![f] = "event"]
  /\ stack' = Front(stack)
  /\ got' = [got EXCEPT ![f] = Nothing]
  /\ UNCHANGED <<outer, result, knows, awaited, dangling, overtaken>>

(* The loop runs the callback of the event: handle.resume(). *)
Resume(f) ==
  /\ stack = <<>>
  /\ state[f] = "event"
  /\ state' = [state EXCEPT ![f] = "running"]
  /\ stack' = <<f>>
  /\ UNCHANGED <<outer, result, knows, awaited, got, dangling, overtaken>>

(* co_await of the Future of g, which is not done: await_suspend, which    *)
(* does not ask whether another frame waits there already.                 *)
AwaitFuture(f, g) ==
  /\ Top(f)
  /\ g \in knows[f]
  /\ state[g] \in {"running", "event", "future"}
  /\ state' = [state EXCEPT ![f] = "future"]
  /\ awaited' = [awaited EXCEPT ![f] = g]
  /\ IF SameType(f, g)
     THEN /\ outer' = [outer EXCEPT ![g] = f]
          /\ overtaken' = overtaken \cup ({outer[g]} \ {NoFrame})
     ELSE UNCHANGED <<outer, overtaken>>
  /\ stack' = Front(stack)
  /\ got' = [got EXCEPT ![f] = Nothing]
  /\ UNCHANGED <<result, knows, dangling>>

(* co_await of the Future of a frame that is done: await_ready is true.    *)
AwaitDone(f, g) ==
  /\ Top(f)
  /\ g \in knows[f]
  /\ state[g] = "final"
  /\ got' = [got EXCEPT ![f] = [of |-> g, result |-> result[g]]]
  /\ UNCHANGED <<state, outer, result, knows, awaited, stack, dangling, overtaken>>

(* co_await of a Future whose frame destroyed itself: done() reads freed   *)
(* memory, so either outcome is possible.                                  *)
AwaitDestroyed(f, g) ==
  /\ Top(f)
  /\ g \in knows[f]
  /\ state[g] = "destroyed"
  /\ dangling' = dangling \cup {<<f, g>>}
  /\ got' = [got EXCEPT ![f] = Nothing]
  /\ \/ UNCHANGED <<state, awaited, stack>>
     \/ /\ state' = [state EXCEPT ![f] = "future"]
        /\ awaited' = [awaited EXCEPT ![f] = g]
        /\ stack' = Front(stack)
  /\ UNCHANGED <<outer, result, knows, overtaken>>

(* The body of f is over, and the Futures in its frame are gone. *)
Ending(f) ==
  /\ Top(f)
  /\ knows' = [knows EXCEPT ![f] = {}]
  /\ UNCHANGED <<outer, dangling, overtaken>>

(* return_value or unhandled_exception. *)
Returns(f, how) ==
  /\ Ending(f)
  /\ Ret[f] # "void"
  /\ how \in IF f \in Throws THEN Ends ELSE {"value"}
  /\ result' = [result EXCEPT ![f] = how]

(* Mutants of ReturnValue: outer_ is never resumed; it is called, not      *)
(* transferred to; the frame is destroyed.                                 *)
ReturnValueOnly(f, how) ==
  /\ Returns(f, how)
  /\ state' = [state EXCEPT ![f] = "final"]
  /\ stack' = Front(stack)
  /\ got' = [got EXCEPT ![f] = Nothing]
  /\ UNCHANGED awaited

ReturnValueNested(f, how) ==
  /\ Returns(f, how)
  /\ outer[f] # NoFrame
  /\ state' = [state EXCEPT ![f] = "final", ![outer[f]] = "running"]
  /\ stack' = Append(stack, outer[f])
  /\ awaited' = [awaited EXCEPT ![outer[f]] = NoFrame]
  /\ UNCHANGED got

ReturnValueDestroys(f, how) ==
  /\ Returns(f, how)
  /\ state' = [g \in Frames |-> IF g = f THEN "destroyed"
                                ELSE IF g = outer[f] THEN "running" ELSE state[g]]
  /\ stack' = Front(stack) \o (IF outer[f] = NoFrame THEN <<>> ELSE <<outer[f]>>)
  /\ UNCHANGED <<awaited, got>>

(* The end of a Future<T>: FinalAwaitable resumes outer_ in its place,     *)
(* where await_resume returns the result, and leaves the frame suspended   *)
(* for good.                                                               *)
ReturnValue(f, how) ==
  /\ Returns(f, how)
  /\ IF outer[f] = NoFrame
     THEN /\ state' = [state EXCEPT ![f] = "final"]
          /\ stack' = Front(stack)
          /\ got' = [got EXCEPT ![f] = Nothing]
          /\ UNCHANGED awaited
     ELSE /\ state' = [state EXCEPT ![f] = "final", ![outer[f]] = "running"]
          /\ stack' = Append(Front(stack), outer[f])
          /\ awaited' = [awaited EXCEPT ![outer[f]] = NoFrame]
          /\ got' = [got EXCEPT ![f] = Nothing, ![outer[f]] = [of |-> f, result |-> how]]

(* The end of a Future<void>: final_suspend does not suspend, so the frame *)
(* is destroyed, the exception it may have kept with it, and outer_ is not *)
(* looked at.                                                              *)
ReturnVoid(f) ==
  /\ Ending(f)
  /\ Ret[f] = "void"
  /\ state' = [state EXCEPT ![f] = "destroyed"]
  /\ stack' = Front(stack)
  /\ got' = [got EXCEPT ![f] = Nothing]
  /\ UNCHANGED <<result, awaited>>

Return(f) == ReturnVoid(f) \/ \E how \in Ends : ReturnValue(f, how)

Next ==
  \E f \in Frames :
    \/ \E passed \in SUBSET Frames : Call(f, passed)
    \/ AwaitEvent(f)
    \/ Resume(f)
    \/ Return(f)
    \/ \E g \in Frames : AwaitFuture(f, g) \/ AwaitDone(f, g) \/ AwaitDestroyed(f, g)

Spec == Init /\ [][Next]_coVars

(* Every operation a frame waits for completes and its callback is called  *)
(* (module Epoll), and a frame that runs goes on until it suspends on a    *)
(* Future or ends.                                                         *)
Fairness ==
  /\ \A f \in Frames : WF_coVars(Resume(f)) /\ SF_coVars(Return(f))

FairSpec == Spec /\ Fairness

-----------------------------------------------------------------------------
(* Control is at one place per frame: the frames on the stack are those    *)
(* that run, each once, so no frame is resumed while it runs or after its  *)
(* end, whatever chain of outer_ handles is followed (coroutine.h:120-132).*)
NoReentry ==
  /\ IsInjective(stack)
  /\ \A f \in Frames : state[f] = "running" <=> \E i \in 1..Len(stack) : stack[i] = f

(* A frame that waits for a Future<T> of its own T is resumed when it      *)
(* ends, unless another one has taken its place in outer_: it never waits  *)
(* for a frame that has ended.  Whoever goes on after a co_await has the   *)
(* result, value or exception, of the very frame it awaited, which has     *)
(* ended (coroutine.h:94-102, 115-131, 141).                               *)
AwaiterOfItsOwnTypeIsResumed ==
  /\ \A f, g \in Frames :
       (state[f] = "future" /\ awaited[f] = g /\ SameType(f, g) /\ Ret[g] # "void"
         /\ f \notin overtaken)
         => outer[g] = f /\ state[g] \in {"running", "event", "future"}
  /\ \A f, g \in Frames :
       got[f].of = g => state[g] = "final" /\ got[f].result = result[g] /\ result[g] \in Ends

(* A frame nobody will resume: it waits for a Future of another type, or   *)
(* for a Future<void>, or a second frame waits where it does.              *)
Lost(f) ==
  /\ state[f] = "future"
  /\ ~SameType(f, awaited[f]) \/ Ret[awaited[f]] = "void" \/ f \in overtaken

(* Freed memory is touched only through the Future of a void coroutine     *)
(* that ended before it was awaited: outer_ never refers to a destroyed    *)
(* frame, and the frames of all other coroutines are never freed, so that  *)
(* they leak but do not dangle (coroutine.h:74, 137, 214).                 *)
OnlyVoidFuturesDangle ==
  /\ \A d \in dangling : Ret[d[2]] = "void"
  /\ \A f, g \in Frames : outer[g] = f => state[f] # "destroyed"

(* The frames f waits for, directly or through others. *)
AwaitChain(f) ==
  LET upto[n \in 0..Cardinality(Frames)] ==
        IF n = 0 THEN {f}
        ELSE upto[n - 1] \cup ({awaited[g] : g \in upto[n - 1]} \ {NoFrame})
  IN upto[Cardinality(Frames)]

(* Every call returns, unless it waits, at however many removes, for a     *)
(* Future of another type, for a Future<void>, or for a Future that a      *)
(* second frame awaits.  So a program with one T that is not void, and one *)
(* awaiter for each call, has all its calls return (coroutine.h:90-98,     *)
(* 120-131).                                                               *)
EveryCallReturns ==
  \A f \in Frames :
    state[f] = "running" ~>
      (state[f] \in {"final", "destroyed"} \/ \E g \in AwaitChain(f) : Lost(g))
=============================================================================
