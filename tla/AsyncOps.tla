------------------------------ MODULE AsyncOps ------------------------------
(***************************************************************************)
(* What an asynchronous call promises the program, whatever back end       *)
(* serves it: an operation that was started waits, completes, and has its  *)
(* callback called once; callbacks run one at a time, never inside the     *)
(* call that started the operation, in the order of completion.            *)
(***************************************************************************)
EXTENDS Integers, Sequences, SequencesExt

CONSTANTS Ops, NoOp,
          MayDrop   \* may starting an operation make another one disappear?

VARIABLES started,  \* operations the program has started
          pending,  \* those that wait
          due,      \* completed ones, in the order of completion
          active    \* the one whose callback runs

absVars == <<started, pending, due, active>>

Init ==
  /\ started = {}
  /\ pending = {}
  /\ due = <<>>
  /\ active = NoOp

(* The call that starts op; an operation may complete within the call, but *)
(* its callback is not called there.                                       *)
Start(op) ==
  /\ op \notin started
  /\ started' = started \cup {op}
  /\ \E lost \in SUBSET pending :
       /\ MayDrop \/ lost = {}
       /\ \/ pending' = (pending \ lost) \cup {op} /\ due' = due
          \/ pending' = pending \ lost /\ due' = Append(due, op)
  /\ UNCHANGED active

Complete(op) ==
  /\ op \in pending
  /\ pending' = pending \ {op}
  /\ due' = Append(due, op)
  /\ UNCHANGED <<started, active>>

Call ==
  /\ active = NoOp
  /\ due # <<>>
  /\ active' = Head(due)
  /\ due' = Tail(due)
  /\ UNCHANGED <<started, pending>>

Finish ==
  /\ active # NoOp
  /\ active' = NoOp
  /\ UNCHANGED <<started, pending, due>>

Next == Call \/ Finish \/ \E op \in Ops : Start(op) \/ Complete(op)

Spec == Init /\ [][Next]_absVars

(* A completion is not left lying: the next callback is called. *)
FairSpec == Spec /\ WF_absVars(Call) /\ WF_absVars(Finish)
=============================================================================
