------------------------------ MODULE Context ------------------------------
(***************************************************************************)
(* The event object (event.h) and the loop that runs its callbacks         *)
(* (context.h).  The module holds the state of one Context and the steps   *)
(* of Context::Run; the platform handler that Run calls through            *)
(* handler_.Wait() is modelled by the modules that extend this one.        *)
(*                                                                         *)
(* A callback is abstracted to the operation that owns it, a member of     *)
(* Ops.  NoOp stands for the empty function a default Event carries.       *)
(***************************************************************************)
EXTENDS Integers, Sequences, SequencesExt

CONSTANTS Ops,    \* asynchronous operations the program may start
          NoOp    \* the callback [](int, int) {} of Event()

ASSUME NoOpAssumption == NoOp \notin Ops

VARIABLES waitset,       \* waitset_, the list of completed events
          it,            \* the iterator of the for loop in Run
          canContinue,   \* can_continue_
          pc             \* where the thread that owns the Context is

loopVars == <<waitset, it, canContinue, pc>>

Statuses == {"WAITING", "COMPLETED", "ERR"}

(* setup: user code before Run; top: the while test; scan: the for loop;   *)
(* callback: inside Complete(), in user code; wait and dispatch: inside    *)
(* handler_.Wait(), before and after the system call returned.             *)
Places == {"setup", "top", "scan", "callback", "wait", "dispatch", "done", "crashed"}

Events == [cb : Ops \cup {NoOp}, status : Statuses, error : Int, res : Int]

(* What SubmitComplete puts in the list. *)
CompletedEvents == [cb : Ops, status : Statuses \ {"WAITING"}, error : Int, res : Int]

Event(cb) == [cb |-> cb, status |-> "WAITING", error |-> 0, res |-> 0]

(* Mutant: the event goes to the front of the list. *)
SubmitCompleteInFront(ws, ev) ==
  <<[ev EXCEPT !.status = IF @ = "WAITING" THEN "COMPLETED" ELSE @]>> \o ws

(* Mutant: an event that is still WAITING stays so. *)
SubmitCompleteAsIs(ws, ev) == Append(ws, ev)

(* Context::SubmitComplete, as a function of the list. *)
SubmitComplete(ws, ev) ==
  Append(ws, [ev EXCEPT !.status = IF @ = "WAITING" THEN "COMPLETED" ELSE @])

(* Mutant: failed events are not due. *)
DueIfCompleted(ev) == ev.status = "COMPLETED"

Due(ev) == ev.status \in {"COMPLETED", "ERR"}

LoopInit ==
  /\ waitset = <<>>
  /\ it = 1
  /\ canContinue = TRUE
  /\ pc = "setup"

LoopTypeOK ==
  /\ waitset \in Seq(Events)
  /\ it \in Nat \ {0}
  /\ canContinue \in BOOLEAN
  /\ pc \in Places

-----------------------------------------------------------------------------
(* The program calls Run() once its setup code returns. *)
Run ==
  /\ pc = "setup"
  /\ pc' = "top"
  /\ UNCHANGED <<waitset, it, canContinue>>

(* Mutant: the iterator starts one place too early. *)
EnterBeforeFirst ==
  /\ pc = "top"
  /\ IF canContinue THEN pc' = "scan" /\ it' = 0
                    ELSE pc' = "done" /\ it' = it
  /\ UNCHANGED <<waitset, canContinue>>

(* while (can_continue_) { for (auto i = waitset_.begin(); ... *)
Enter ==
  /\ pc = "top"
  /\ IF canContinue THEN pc' = "scan" /\ it' = 1
                    ELSE pc' = "done" /\ it' = it
  /\ UNCHANGED <<waitset, canContinue>>

(* One test of the for loop's body: i->Complete() starts, or ++i. *)
Scan ==
  /\ pc = "scan"
  /\ it <= Len(waitset)
  /\ IF Due(waitset[it]) THEN pc' = "callback" /\ it' = it
                         ELSE pc' = pc /\ it' = it + 1
  /\ UNCHANGED <<waitset, canContinue>>

(* Mutant: the event that was called stays in the list. *)
ReturnKeeps ==
  /\ pc = "callback"
  /\ pc' = "scan"
  /\ UNCHANGED <<waitset, it, canContinue>>

(* Mutant: the iterator is advanced past the one erase() returned. *)
ReturnSkips ==
  /\ pc = "callback"
  /\ waitset' = RemoveAt(waitset, it)
  /\ it' = it + 1
  /\ pc' = "scan"
  /\ UNCHANGED canContinue

(* Complete() returns and the event it ran is erased: i = erase(i). *)
Return ==
  /\ pc = "callback"
  /\ waitset' = RemoveAt(waitset, it)
  /\ pc' = "scan"
  /\ UNCHANGED <<it, canContinue>>

(* Mutant: End() is noticed before Wait. *)
EnterWaitIfContinuing ==
  /\ pc = "scan"
  /\ it > Len(waitset)
  /\ pc' = IF canContinue THEN "wait" ELSE "done"
  /\ UNCHANGED <<waitset, it, canContinue>>

(* The for loop is over and handler_.Wait() is called, whatever            *)
(* can_continue_ is by now.                                                *)
EnterWait ==
  /\ pc = "scan"
  /\ it > Len(waitset)
  /\ pc' = "wait"
  /\ UNCHANGED <<waitset, it, canContinue>>

(* Context::End(), called by user code. *)
End ==
  /\ pc \in {"setup", "callback"}
  /\ canContinue
  /\ canContinue' = FALSE
  /\ UNCHANGED <<waitset, it, pc>>

-----------------------------------------------------------------------------
(* Run hands the thread to handler_.Wait() only when no completed event is *)
(* left in the list: callbacks that complete further operations on the     *)
(* spot are served in the same pass, so no completion sleeps through a     *)
(* Wait (context.h:48-56).                                                 *)
NothingDueInWait == pc = "wait" => waitset = <<>>

(* Why: the list holds completed events of operations only, so that the    *)
(* for loop never steps over one, and always serves the first.             *)
LoopInv ==
  /\ waitset \in Seq(CompletedEvents)
  /\ it = 1
  /\ canContinue \in BOOLEAN
  /\ pc \in Places
  /\ pc = "callback" => waitset # <<>>
  /\ NothingDueInWait
=============================================================================
