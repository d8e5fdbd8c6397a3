-------------------------- MODULE EpollRefinement --------------------------
(***************************************************************************)
(* The epoll back end with the loop implements AsyncOps.                   *)
(***************************************************************************)
EXTENDS EpollProps

Callbacks == [i \in 1..Len(waitset) |-> waitset[i].cb]

(* The operation whose completion is served, while its callback runs.  An  *)
(* accept that gave its place in Acceptor::waiting_ to a later one is      *)
(* displaced: what runs is the other's callback, and its own never does    *)
(* (acceptor.h:65-78).                                                     *)
Running ==
  IF pc = "callback" /\ waitset[it].cb \notin displaced THEN waitset[it].cb ELSE NoOp

Abstract ==
  INSTANCE AsyncOps WITH
    MayDrop <- Overlap,
    started <- {op \in Ops : Issued(op)},
    pending <- UNION {PendingIn(s) : s \in Socks},
    due <- IF pc = "callback" THEN Tail(Callbacks) ELSE Callbacks,
    active <- Running

(* Completions are queued in the order in which Submit and Wait produce    *)
(* them, and called once, in that order, one at a time, and never from     *)
(* within a Submit call (epollimpl.h:32, 37; context.h:36-56).             *)
ImplementsAsyncOps == Abstract!Spec

(* While the program does not end the loop, no completion is left lying.   *)
ImplementsFairAsyncOps == Abstract!FairSpec
=============================================================================
