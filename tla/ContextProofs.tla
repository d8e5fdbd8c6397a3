--------------------------- MODULE ContextProofs ---------------------------
(***************************************************************************)
(* The loop invariant of Context::Run, and lemmas about the steps of the   *)
(* loop for the modules that compose it with a platform handler.           *)
(***************************************************************************)
EXTENDS Context, SequenceTheorems, FiniteSetTheorems, WellFoundedInduction, TLAPS

(* SubmitComplete keeps the list a list of completed events. *)
LEMMA SubmitCompleteTyped ==
  ASSUME NEW ws \in Seq(CompletedEvents), NEW ev \in Events, ev.cb \in Ops
  PROVE SubmitComplete(ws, ev) \in Seq(CompletedEvents)
<1> DEFINE done == [ev EXCEPT !.status = IF @ = "WAITING" THEN "COMPLETED" ELSE @]
<1>1. done \in CompletedEvents
  BY DEF Events, CompletedEvents, Statuses
<1> QED BY <1>1 DEF SubmitComplete

LEMMA SubmitCompleteNonEmpty ==
  ASSUME NEW ws \in Seq(CompletedEvents), NEW ev \in Events, ev.cb \in Ops
  PROVE SubmitComplete(ws, ev) # <<>>
<1> DEFINE done == [ev EXCEPT !.status = IF @ = "WAITING" THEN "COMPLETED" ELSE @]
<1>1. done \in CompletedEvents
  BY DEF Events, CompletedEvents, Statuses
<1>2. Len(Append(ws, done)) = Len(ws) + 1
  BY <1>1, AppendProperties
<1> QED BY <1>2 DEF SubmitComplete

LEMMA EventTyped ==
  ASSUME NEW op \in Ops
  PROVE Event(op) \in Events /\ Event(op).cb = op
  BY DEF Event, Events, Statuses

(* Erasing the first event of the list. *)
LEMMA EraseFirst ==
  ASSUME NEW S, NEW ws \in Seq(S), ws # <<>>
  PROVE RemoveAt(ws, 1) = Tail(ws) /\ RemoveAt(ws, 1) \in Seq(S)
<1>1. SubSeq(ws, 1, 0) = <<>>
  BY SubSeqEmpty
<1>2. SubSeq(ws, 2, Len(ws)) = Tail(ws)
  BY TailIsSubSeq
<1>3. Tail(ws) \in Seq(S)
  BY HeadTailProperties
<1> QED BY <1>1, <1>2, <1>3, ConcatEmptySeq DEF RemoveAt

LEMMA LoopInitInv == LoopInit => LoopInv
  BY DEF LoopInit, LoopInv, NothingDueInWait, Places

(* Each step of Run and each call of End keeps the invariant. *)
LEMMA LoopStepInv ==
  ASSUME LoopInv,
         Run \/ Enter \/ Scan \/ Return \/ EnterWait \/ End \/ UNCHANGED loopVars
  PROVE LoopInv'
<1> USE DEF LoopInv, NothingDueInWait, Places
<1>1. CASE Run BY <1>1 DEF Run
<1>2. CASE Enter BY <1>2 DEF Enter
<1>3. CASE Scan
  <2>1. waitset # <<>> /\ Due(waitset[1])
    <3>1. 1 \in 1..Len(waitset) BY <1>3 DEF Scan
    <3>2. waitset[1] \in CompletedEvents BY <3>1, ElementOfSeq
    <3> QED BY <3>1, <3>2 DEF CompletedEvents, Statuses, Due
  <2> QED BY <1>3, <2>1 DEF Scan
<1>4. CASE Return
  <2>1. waitset' \in Seq(CompletedEvents) BY <1>4, EraseFirst DEF Return
  <2> QED BY <1>4, <2>1 DEF Return
<1>5. CASE EnterWait
  <2>1. waitset = <<>> BY <1>5, LenProperties, EmptySeq DEF EnterWait
  <2> QED BY <1>5, <2>1 DEF EnterWait
<1>6. CASE End BY <1>6 DEF End
<1>7. CASE UNCHANGED loopVars BY <1>7 DEF loopVars
<1> QED BY <1>1, <1>2, <1>3, <1>4, <1>5, <1>6, <1>7

(* The for loop never steps over an event. *)
LEMMA ScannedIsDue ==
  ASSUME LoopInv, Scan PROVE Due(waitset[it]) /\ pc' = "callback"
<1>1. it \in 1..Len(waitset) BY DEF LoopInv, Scan
<1>2. waitset[it] \in CompletedEvents BY <1>1, ElementOfSeq DEF LoopInv
<1>3. Due(waitset[it]) BY <1>2 DEF CompletedEvents, Statuses, Due
<1> QED BY <1>3 DEF Scan

(* A handler or a Submit call completes an event, without moving the loop  *)
(* into Wait.                                                              *)
LEMMA CompletionInv ==
  ASSUME LoopInv, NEW ev \in Events, ev.cb \in Ops,
         waitset' = SubmitComplete(waitset, ev) \/ waitset' = waitset,
         UNCHANGED <<it, canContinue>>,
         pc' \in Places, pc' # "wait" \/ UNCHANGED <<waitset, pc>>,
         pc' = "callback" => pc = "callback"
  PROVE LoopInv'
<1>1. waitset' \in Seq(CompletedEvents)
  BY SubmitCompleteTyped DEF LoopInv
<1>2. pc' = "callback" => waitset' # <<>>
  BY SubmitCompleteNonEmpty DEF LoopInv
<1> QED BY <1>1, <1>2 DEF LoopInv, NothingDueInWait

LEMMA LoopInvTypes == LoopInv => LoopTypeOK /\ NothingDueInWait
<1> SUFFICES ASSUME LoopInv PROVE LoopTypeOK
  BY DEF LoopInv
<1>1. CompletedEvents \subseteq Events
  BY DEF CompletedEvents, Events, Statuses
<1>2. waitset \in Seq(Events)
  BY <1>1, SeqMonotonic DEF LoopInv
<1> QED BY <1>2 DEF LoopInv, LoopTypeOK

-----------------------------------------------------------------------------
(* The list as a sequence of callbacks.                                    *)

LEMMA SubmitCompleteElements ==
  ASSUME NEW ws \in Seq(CompletedEvents), NEW ev \in Events, ev.cb \in Ops
  PROVE  LET new == SubmitComplete(ws, ev)
         IN /\ Len(new) = Len(ws) + 1
            /\ \A i \in 1..Len(ws) : new[i] = ws[i]
            /\ new[Len(ws) + 1].cb = ev.cb
            /\ new[Len(ws) + 1].error = ev.error
            /\ new[Len(ws) + 1].res = ev.res
            /\ new[Len(ws) + 1].status = "ERR" <=> ev.status = "ERR"
<1> DEFINE done == [ev EXCEPT !.status = IF @ = "WAITING" THEN "COMPLETED" ELSE @]
<1>1. done \in CompletedEvents
  BY DEF Events, CompletedEvents, Statuses
<1>2. /\ done.cb = ev.cb /\ done.error = ev.error /\ done.res = ev.res
      /\ done.status = "ERR" <=> ev.status = "ERR"
  BY DEF Events
<1> QED BY <1>1, <1>2, AppendProperties DEF SubmitComplete

CallbacksOf(ws) == [i \in 1..Len(ws) |-> ws[i].cb]

LEMMA CallbacksTyped ==
  ASSUME NEW ws \in Seq(CompletedEvents)
  PROVE  /\ CallbacksOf(ws) \in Seq(Ops)
         /\ Len(CallbacksOf(ws)) = Len(ws)
         /\ Len(ws) \in Nat
         /\ \A i \in 1..Len(ws) : CallbacksOf(ws)[i] = ws[i].cb
<1>1. Len(ws) \in Nat BY LenProperties
<1>2. \A i \in 1..Len(ws) : ws[i] \in CompletedEvents BY ElementOfSeq
<1>3. \A i \in 1..Len(ws) : ws[i].cb \in Ops BY <1>2 DEF CompletedEvents
<1> QED BY <1>1, <1>3 DEF CallbacksOf

LEMMA CallbacksOfTail ==
  ASSUME NEW ws \in Seq(CompletedEvents), ws # <<>>
  PROVE  /\ CallbacksOf(ws) # <<>>
         /\ CallbacksOf(Tail(ws)) = Tail(CallbacksOf(ws))
         /\ Head(CallbacksOf(ws)) = ws[1].cb
<1> DEFINE c == CallbacksOf(ws)
<1>1. Len(ws) \in Nat \ {0} BY EmptySeq
<1>2. c \in Seq(Ops) /\ Len(c) = Len(ws) /\ \A i \in 1..Len(ws) : c[i] = ws[i].cb
  BY CallbacksTyped
<1>3. c # <<>> BY <1>1, <1>2
<1>4. /\ Tail(ws) \in Seq(CompletedEvents) /\ Len(Tail(ws)) = Len(ws) - 1
      /\ \A i \in 1..Len(Tail(ws)) : Tail(ws)[i] = ws[i + 1]
  BY HeadTailProperties
<1>5. /\ Tail(c) \in Seq(Ops) /\ Len(Tail(c)) = Len(c) - 1
      /\ \A i \in 1..Len(Tail(c)) : Tail(c)[i] = c[i + 1]
  BY <1>2, <1>3, HeadTailProperties, SMTT(40)
<1>6. /\ CallbacksOf(Tail(ws)) \in Seq(Ops) /\ Len(CallbacksOf(Tail(ws))) = Len(Tail(ws))
      /\ \A i \in 1..Len(Tail(ws)) : CallbacksOf(Tail(ws))[i] = Tail(ws)[i].cb
  BY <1>4, CallbacksTyped
<1> HIDE DEF c
<1>7. CallbacksOf(Tail(ws)) = Tail(c)
  <2>1. Len(CallbacksOf(Tail(ws))) = Len(Tail(c)) BY <1>2, <1>4, <1>5, <1>6
  <2>2. \A i \in 1..Len(Tail(c)) : CallbacksOf(Tail(ws))[i] = Tail(c)[i]
    BY <1>1, <1>2, <1>4, <1>5, <1>6
  <2> QED BY <1>5, <1>6, <2>1, <2>2, SeqEqual
<1>8. Head(c) = ws[1].cb BY <1>1, <1>2, <1>3
<1> QED BY <1>3, <1>7, <1>8 DEF c

LEMMA CallbacksOfAppended ==
  ASSUME NEW ws \in Seq(CompletedEvents), NEW ev \in Events, ev.cb \in Ops
  PROVE  CallbacksOf(SubmitComplete(ws, ev)) = Append(CallbacksOf(ws), ev.cb)
<1> DEFINE new == SubmitComplete(ws, ev)
           c == CallbacksOf(ws)
<1>1. new \in Seq(CompletedEvents) BY SubmitCompleteTyped
<1>2. /\ Len(new) = Len(ws) + 1
      /\ \A i \in 1..Len(ws) : new[i] = ws[i]
      /\ new[Len(ws) + 1].cb = ev.cb
  BY SubmitCompleteElements
<1>3. c \in Seq(Ops) /\ Len(c) = Len(ws) /\ Len(ws) \in Nat
      /\ \A i \in 1..Len(ws) : c[i] = ws[i].cb
  BY CallbacksTyped
<1>4. /\ Append(c, ev.cb) \in Seq(Ops) /\ Len(Append(c, ev.cb)) = Len(c) + 1
      /\ \A i \in 1..Len(c) : Append(c, ev.cb)[i] = c[i]
      /\ Append(c, ev.cb)[Len(c) + 1] = ev.cb
  BY <1>3, AppendProperties
<1>5. CallbacksOf(new) \in Seq(Ops) /\ Len(CallbacksOf(new)) = Len(new)
      /\ \A i \in 1..Len(new) : CallbacksOf(new)[i] = new[i].cb
  BY <1>1, CallbacksTyped
<1> HIDE DEF new, c
<1>6. \A i \in 1..Len(new) : CallbacksOf(new)[i] = Append(c, ev.cb)[i]
  BY <1>2, <1>3, <1>4, <1>5
<1> QED BY <1>2, <1>3, <1>4, <1>5, <1>6, SeqEqual DEF new, c

-----------------------------------------------------------------------------
(* How many events of the list, from the position lo on, name a callback of *)
(* a set C: lo is 1 while no callback runs, and 2 while one does, whose own  *)
(* event is still the first of the list.                                     *)
Lo == IF pc = "callback" THEN 2 ELSE 1
Awaiting(ws, C, lo) == {i \in lo..Len(ws) : ws[i].cb \in C}
Count(ws, C, lo) == Cardinality(Awaiting(ws, C, lo))
One(b) == IF b THEN 1 ELSE 0

LEMMA AwaitingFinite ==
  ASSUME NEW ws \in Seq(CompletedEvents), NEW C, NEW lo \in {1, 2}
  PROVE  /\ IsFiniteSet(Awaiting(ws, C, lo))
         /\ Count(ws, C, lo) \in Nat
         /\ Count(ws, C, lo) = 0 <=> Awaiting(ws, C, lo) = {}
<1>1. Len(ws) \in Nat BY LenProperties
<1>2. IsFiniteSet(lo..Len(ws)) BY <1>1, FS_Interval
<1>3. Awaiting(ws, C, lo) \in SUBSET (lo..Len(ws)) BY DEF Awaiting
<1>4. IsFiniteSet(Awaiting(ws, C, lo)) BY <1>2, <1>3, FS_Subset
<1> QED BY <1>4, FS_CardinalityType, FS_EmptySet DEF Count

LEMMA CountEmpty ==
  ASSUME NEW C, NEW lo \in {1, 2} PROVE Count(<<>>, C, lo) = 0
<1>1. Awaiting(<<>>, C, lo) = {} BY DEF Awaiting
<1> QED BY <1>1, FS_EmptySet DEF Count

LEMMA CountAppended ==
  ASSUME NEW ws \in Seq(CompletedEvents), NEW ev \in Events, ev.cb \in Ops,
         NEW C, NEW lo \in {1, 2}, lo = 2 => ws # <<>>
  PROVE  Count(SubmitComplete(ws, ev), C, lo) = Count(ws, C, lo) + One(ev.cb \in C)
<1> DEFINE new == SubmitComplete(ws, ev)
           n == Len(ws) + 1
           A == Awaiting(ws, C, lo)
           B == Awaiting(new, C, lo)
<1>1. /\ Len(new) = n /\ \A i \in 1..Len(ws) : new[i] = ws[i]
      /\ new[n].cb = ev.cb
  BY SubmitCompleteElements
<1>2. Len(ws) \in Nat /\ lo \in 1..n BY LenProperties, EmptySeq
<1> HIDE DEF new
<1>3. B = IF ev.cb \in C THEN A \cup {n} ELSE A BY <1>1, <1>2 DEF Awaiting
<1>4. n \notin A BY <1>2 DEF Awaiting
<1>5. IsFiniteSet(A) /\ Cardinality(A) \in Nat BY AwaitingFinite DEF Count
<1>6. Cardinality(A \cup {n}) = Cardinality(A) + 1 BY <1>4, <1>5, FS_AddElement
<1>7. Count(ws, C, lo) = Cardinality(A) /\ Count(new, C, lo) = Cardinality(B)
  BY DEF Count
<1>8. CASE ev.cb \in C
  <2>1. B = A \cup {n} BY <1>3, <1>8
  <2> HIDE DEF A, B
  <2> QED BY <1>6, <1>7, <1>8, <2>1 DEF One, new
<1>9. CASE ev.cb \notin C
  <2>1. B = A BY <1>3, <1>9
  <2> HIDE DEF A, B
  <2> QED BY <1>5, <1>7, <1>9, <2>1 DEF One, new
<1> QED BY <1>8, <1>9

(* The first callback starts. *)
LEMMA CountCalled ==
  ASSUME NEW ws \in Seq(CompletedEvents), ws # <<>>, NEW C
  PROVE  Count(ws, C, 1) = Count(ws, C, 2) + One(ws[1].cb \in C)
<1> DEFINE A == Awaiting(ws, C, 1)
           B == Awaiting(ws, C, 2)
<1>1. Len(ws) \in Nat \ {0} BY EmptySeq
<1>2. A = IF ws[1].cb \in C THEN B \cup {1} ELSE B BY <1>1 DEF Awaiting
<1>3. 1 \notin B BY DEF Awaiting
<1>4. IsFiniteSet(B) /\ Cardinality(B) \in Nat BY AwaitingFinite DEF Count
<1>5. Cardinality(B \cup {1}) = Cardinality(B) + 1 BY <1>3, <1>4, FS_AddElement
<1>6. Count(ws, C, 1) = Cardinality(A) /\ Count(ws, C, 2) = Cardinality(B)
  BY DEF Count
<1>7. CASE ws[1].cb \in C
  <2>1. A = B \cup {1} BY <1>2, <1>7
  <2> HIDE DEF A, B
  <2> QED BY <1>5, <1>6, <1>7, <2>1 DEF One
<1>8. CASE ws[1].cb \notin C
  <2>1. A = B BY <1>2, <1>8
  <2> HIDE DEF A, B
  <2> QED BY <1>4, <1>6, <1>8, <2>1 DEF One
<1> QED BY <1>7, <1>8

(* ... and its event is erased. *)
LEMMA CountErased ==
  ASSUME NEW ws \in Seq(CompletedEvents), ws # <<>>, NEW C
  PROVE  Count(Tail(ws), C, 1) = Count(ws, C, 2)
<1> DEFINE A == Awaiting(Tail(ws), C, 1)
           B == Awaiting(ws, C, 2)
           f == [i \in A |-> i + 1]
<1>1. Len(ws) \in Nat \ {0} BY EmptySeq
<1>2. /\ Len(Tail(ws)) = Len(ws) - 1
      /\ \A i \in 1..Len(Tail(ws)) : Tail(ws)[i] = ws[i + 1]
  BY HeadTailProperties
<1>3. \A i \in A : i \in Nat /\ i + 1 \in B BY <1>1, <1>2 DEF Awaiting
<1>4. \A j \in B : j - 1 \in A /\ (j - 1) + 1 = j BY <1>1, <1>2 DEF Awaiting
<1> HIDE DEF A, B
<1>5. f \in Bijection(A, B)
  <2>1. f \in [A -> B] BY <1>3
  <2>2. \A x, y \in A : f[x] = f[y] => x = y BY <1>3
  <2>3. \A j \in B : \E i \in A : f[i] = j BY <1>4
  <2> QED BY <2>1, <2>2, <2>3 DEF Bijection, Injection, Surjection, IsInjective
<1>6. ExistsBijection(A, B) BY <1>5 DEF ExistsBijection
<1>7. IsFiniteSet(A)
  <2>1. Tail(ws) \in Seq(CompletedEvents) BY HeadTailProperties
  <2> QED BY <2>1, AwaitingFinite DEF A
<1> QED BY <1>6, <1>7, FS_Bijection DEF Count, A, B
-----------------------------------------------------------------------------
(* Sums: SumFunctionOnSet is a fold, defined by recursion over subsets.    *)

(* Induction, over numbers and finite sets, for a set of good ones. *)
LEMMA NatSetInduction ==
  ASSUME NEW S, 0 \in S, \A n \in Nat : n \in S => n + 1 \in S
  PROVE Nat \subseteq S
<1> SUFFICES ASSUME Nat \ S # {} PROVE FALSE
  OBVIOUS
<1> DEFINE R == OpToRel(<, Nat)
<1>1. IsWellFoundedOn(R, Nat) BY NatLessThanWellFounded
<1>2. \A n \in Nat, m \in Nat : n < m => <<n, m>> \in R BY DEF OpToRel
<1> HIDE DEF R
<1>3. PICK m \in Nat \ S : \A y \in Nat \ S : <<y, m>> \notin R
  BY <1>1, WFMin
<1>4. m # 0 /\ m - 1 \in Nat /\ (m - 1) + 1 = m BY <1>3
<1>5. m - 1 \in Nat \ S BY <1>3, <1>4
<1>6. <<m - 1, m>> \in R BY <1>2, <1>4
<1> QED BY <1>3, <1>5, <1>6

LEMMA FiniteSetInduction ==
  ASSUME NEW X, IsFiniteSet(X), NEW Good, {} \in Good,
         \A T \in SUBSET X, x \in X : T \in Good => T \cup {x} \in Good
  PROVE X \in Good
<1> SUFFICES ASSUME X \notin Good PROVE FALSE
  OBVIOUS
<1> DEFINE R == StrictSubsetOrdering(X)
           F == FiniteSubsetsOf(X)
           T == {U \in SUBSET X : U \notin Good}
<1>1. IsWellFoundedOn(R, F) BY FS_StrictSubsetOrderingWellFounded
<1>2. F = SUBSET X BY FS_FiniteSubsetsOfFinite
<1>3. PICK m \in T : \A y \in T : <<y, m>> \notin R
  <2>1. T \subseteq F /\ T # {} BY <1>2
  <2> HIDE DEF R, F, T
  <2> QED BY <1>1, <2>1, WFMin
<1>4. PICK x \in m : TRUE BY <1>3
<1>5. m \ {x} \in SUBSET X /\ x \in X /\ (m \ {x}) \cup {x} = m BY <1>3, <1>4
<1>6. m \ {x} \in T BY <1>3, <1>5
<1>7. <<m \ {x}, m>> \in R BY <1>3, <1>4, <1>5 DEF StrictSubsetOrdering
<1> QED BY <1>3, <1>6, <1>7

(* The function that MapThenFoldSet defines, on a family of sets. *)
Some(s) == CHOOSE x \in s : TRUE
Unfolds(f, F, g) ==
  g = [s \in F |-> IF s = {} THEN 0 ELSE f[Some(s)] + g[s \ {Some(s)}]]

Totals(f, S, g) == Unfolds(f, SUBSET S, g)

(* The subsets of S with at most n elements. *)
Small(S, n) == {s \in SUBSET S : Cardinality(s) <= n}

(* What it defines for S, if there is such a function ... *)
LEMMA SumUnfolds ==
  ASSUME NEW f, NEW S, \E g : Totals(f, S, g)
  PROVE \E g : Totals(f, S, g) /\ SumFunctionOnSet(f, S) = g[S]
<1> DEFINE h == CHOOSE g : g = [s \in SUBSET S |->
                   IF s = {} THEN 0
                   ELSE f[CHOOSE x \in s : TRUE] + g[s \ {CHOOSE x \in s : TRUE}]]
<1>1. SumFunctionOnSet(f, S) = h[S]
  BY DEF SumFunctionOnSet, FoldFunctionOnSet, MapThenFoldSet
<1>2. Totals(f, S, h) BY DEF Totals, Unfolds, Some
<1> QED BY <1>1, <1>2

LEMMA Smaller ==
  ASSUME NEW S, IsFiniteSet(S), NEW n \in Nat, NEW s \in Small(S, n + 1), NEW x \in s
  PROVE  s \ {x} \in Small(S, n)
<1>1. s \in SUBSET S /\ Cardinality(s) <= n + 1 BY DEF Small
<1>2. IsFiniteSet(s) BY <1>1, FS_Subset
<1>3. Cardinality(s) \in Nat /\ Cardinality(s \ {x}) = Cardinality(s) - 1
  BY <1>2, FS_CardinalityType, FS_RemoveElement
<1> QED BY <1>1, <1>3 DEF Small

LEMMA SmallEmpty ==
  ASSUME NEW S, IsFiniteSet(S)
  PROVE  /\ \A s \in Small(S, 0) : s = {}
         /\ \A n \in Nat : {} \in Small(S, n)
         /\ \A n \in Nat : Small(S, n) \subseteq Small(S, n + 1)
         /\ Cardinality(S) \in Nat /\ Small(S, Cardinality(S)) = SUBSET S
<1>1. \A s \in SUBSET S : IsFiniteSet(s) /\ Cardinality(s) \in Nat /\ Cardinality(s) <= Cardinality(S)
  BY FS_Subset, FS_CardinalityType
<1>2. \A s \in SUBSET S : Cardinality(s) = 0 <=> s = {} BY <1>1, FS_EmptySet
<1>3. Cardinality(S) \in Nat BY FS_CardinalityType
<1>4. \A n \in Nat : {} \in Small(S, n) BY <1>2 DEF Small
<1>5. \A s \in Small(S, 0) : s = {} BY <1>1, <1>2 DEF Small
<1>6. \A n \in Nat : Small(S, n) \subseteq Small(S, n + 1)  BY <1>1 DEF Small
<1>7. Small(S, Cardinality(S)) = SUBSET S BY <1>1 DEF Small
<1> QED BY <1>3, <1>4, <1>5, <1>6, <1>7

(* ... which there is if S is finite ... *)
LEMMA UnfoldsExists ==
  ASSUME NEW f, NEW S, IsFiniteSet(S) PROVE \E g : Totals(f, S, g)
<1> DEFINE N == {n \in Nat : \E g : Unfolds(f, Small(S, n), g)}
<1>1. 0 \in N
  <2>1. Unfolds(f, Small(S, 0), [s \in Small(S, 0) |-> 0]) BY SmallEmpty DEF Unfolds
  <2> QED BY <2>1
<1>2. ASSUME NEW n \in Nat, n \in N PROVE n + 1 \in N
  <2>1. PICK g : Unfolds(f, Small(S, n), g) BY <1>2
  <2> DEFINE h == [s \in Small(S, n + 1) |->
                     IF s = {} THEN 0 ELSE f[Some(s)] + g[s \ {Some(s)}]]
  <2>2. \A s \in Small(S, n) : h[s] = g[s] BY <2>1, SmallEmpty DEF Unfolds
  <2>3. \A s \in Small(S, n + 1) : s # {} => s \ {Some(s)} \in Small(S, n)
    BY Smaller DEF Some
  <2>4. \A s \in Small(S, n + 1) : s # {} => g[s \ {Some(s)}] = h[s \ {Some(s)}]
    BY <2>2, <2>3
  <2>5. h = [s \in Small(S, n + 1) |->
               IF s = {} THEN 0 ELSE f[Some(s)] + h[s \ {Some(s)}]]
    BY <2>4
  <2> HIDE DEF h
  <2> QED BY <2>5, SMTT(40) DEF Unfolds
<1> HIDE DEF N
<1>3. Nat \subseteq N BY <1>1, <1>2, NatSetInduction
<1>4. Cardinality(S) \in N /\ Small(S, Cardinality(S)) = SUBSET S BY <1>3, SmallEmpty
<1>5. PICK g : Unfolds(f, Small(S, Cardinality(S)), g) BY <1>4 DEF N
<1> QED BY <1>4, <1>5 DEF Totals

(* ... and whose value grows by f[x] with each element x, whatever order  *)
(* Some chooses them in ...                                                *)
LEMMA UnfoldsGrows ==
  ASSUME NEW f, NEW S, IsFiniteSet(S), \A x \in S : f[x] \in Nat,
         NEW g, Totals(f, S, g)
  PROVE  /\ g[{}] = 0
         /\ \A A \in SUBSET S : /\ g[A] \in Nat
                                /\ \A x \in S \ A : g[A \cup {x}] = g[A] + f[x]
<1> DEFINE Adds(A) == g[A] \in Nat /\ \A x \in S \ A : g[A \cup {x}] = g[A] + f[x]
           N == {n \in Nat : \A A \in Small(S, n) : Adds(A)}
<1>0. g[{}] = 0 BY DEF Totals, Unfolds
<1>1. \A A \in SUBSET S : A # {} => g[A] = f[Some(A)] + g[A \ {Some(A)}] /\ Some(A) \in A
  BY DEF Totals, Unfolds, Some
<1>2. 0 \in N
  <2>1. ASSUME NEW x \in S PROVE g[{} \cup {x}] = 0 + f[x]
    <3>1. {x} \in SUBSET S /\ {x} # {} /\ {} \cup {x} = {x} OBVIOUS
    <3>2. g[{x}] = f[Some({x})] + g[{x} \ {Some({x})}] /\ Some({x}) \in {x} BY <1>1, <3>1
    <3>3. Some({x}) = x /\ {x} \ {x} = {} BY <3>2
    <3>4. g[{x}] = f[x] + g[{}] BY <3>2, <3>3
    <3> QED BY <1>0, <3>1, <3>4
  <2>2. Adds({}) BY <1>0, <2>1
  <2> QED BY <2>2, SmallEmpty
<1>3. ASSUME NEW n \in Nat, n \in N PROVE n + 1 \in N
  <2> SUFFICES ASSUME NEW A \in Small(S, n + 1) PROVE Adds(A)
    OBVIOUS
  <2>1. A \in SUBSET S BY DEF Small
  <2>2. \A y \in A : Adds(A \ {y}) BY <1>3, Smaller
  <2>3. ASSUME NEW y \in A PROVE g[A] = g[A \ {y}] + f[y] /\ g[A \ {y}] \in Nat /\ f[y] \in Nat
    <3>1. y \in S \ (A \ {y}) /\ (A \ {y}) \cup {y} = A BY <2>1
    <3>2. g[(A \ {y}) \cup {y}] = g[A \ {y}] + f[y] BY <2>2, <3>1
    <3> QED BY <2>1, <2>2, <3>1, <3>2
  <2>4. g[A] \in Nat
    <3>1. CASE A = {} BY <1>0, <3>1
    <3>2. CASE A # {}
      <4>1. PICK y \in A : TRUE BY <3>2
      <4>2. g[A] = g[A \ {y}] + f[y] /\ g[A \ {y}] \in Nat /\ f[y] \in Nat BY <2>3
      <4> QED BY <4>2
    <3> QED BY <3>1, <3>2
  <2>5. ASSUME NEW x \in S \ A PROVE g[A \cup {x}] = g[A] + f[x]
    <3> DEFINE B == A \cup {x}
               y == Some(B)
    <3>1. B \in SUBSET S /\ B # {} BY <2>1
    <3>2. y \in B /\ g[B] = f[y] + g[B \ {y}] BY <1>1, <3>1
    <3>3. f[x] \in Nat OBVIOUS
    <3> HIDE DEF y
    <3>4. CASE y = x
      <4>1. B \ {y} = A BY <3>4
      <4>2. g[B] = f[x] + g[A] BY <3>2, <3>4, <4>1
      <4> HIDE DEF B
      <4> QED BY <2>4, <3>3, <4>2 DEF B
    <3>5. CASE y # x
      <4>1. y \in A /\ x \in S \ (A \ {y}) /\ B \ {y} = (A \ {y}) \cup {x} BY <3>2, <3>5
      <4>2. g[(A \ {y}) \cup {x}] = g[A \ {y}] + f[x] BY <2>2, <4>1
      <4>3. g[A] = g[A \ {y}] + f[y] /\ g[A \ {y}] \in Nat /\ f[y] \in Nat BY <2>3, <4>1
      <4>4. g[B] = f[y] + (g[A \ {y}] + f[x]) BY <3>2, <4>1, <4>2
      <4> QED BY <3>3, <4>3, <4>4
    <3> QED BY <3>4, <3>5
  <2> QED BY <2>4, <2>5
<1> HIDE DEF N
<1>4. Nat \subseteq N BY <1>2, <1>3, NatSetInduction
<1>5. Cardinality(S) \in N BY <1>4, SmallEmpty
<1>6. \A A \in SUBSET S : Adds(A) BY <1>5, SmallEmpty DEF N
<1> QED BY <1>0, <1>6

(* ... so that it does not depend on the family. *)
LEMMA UnfoldsSame ==
  ASSUME NEW f1, NEW f2, NEW S1, NEW S2, IsFiniteSet(S1), IsFiniteSet(S2),
         S1 \subseteq S2, \A x \in S1 : f1[x] = f2[x], \A x \in S2 : f2[x] \in Nat,
         NEW g1, Totals(f1, S1, g1), NEW g2, Totals(f2, S2, g2)
  PROVE  g1[S1] = g2[S1]
<1> DEFINE Good == {T \in SUBSET S1 : g1[T] = g2[T]}
<1>0. \A x \in S1 : f1[x] \in Nat OBVIOUS
<1>1. /\ g1[{}] = 0
      /\ \A A \in SUBSET S1 : \A x \in S1 \ A : g1[A \cup {x}] = g1[A] + f1[x]
  BY <1>0, UnfoldsGrows, SMTT(40)
<1>2. /\ g2[{}] = 0
      /\ \A A \in SUBSET S2 : \A x \in S2 \ A : g2[A \cup {x}] = g2[A] + f2[x]
  BY UnfoldsGrows
<1>3. {} \in Good BY <1>1, <1>2
<1>4. ASSUME NEW T \in SUBSET S1, NEW x \in S1, T \in Good PROVE T \cup {x} \in Good
  <2>1. CASE x \in T
    <3>1. T \cup {x} = T BY <2>1
    <3> QED BY <1>4, <3>1
  <2>2. CASE x \notin T
    <3>1. g1[T \cup {x}] = g1[T] + f1[x] BY <1>1, <2>2
    <3>2. g2[T \cup {x}] = g2[T] + f2[x] BY <1>2, <2>2
    <3> QED BY <1>4, <3>1, <3>2
  <2> QED BY <2>1, <2>2
<1> HIDE DEF Good
<1>5. S1 \in Good BY <1>3, <1>4, FiniteSetInduction
<1> QED BY <1>5 DEF Good

(* SumFunctionOnSet is the sum of a function's values over a finite set. *)
LEMMA SumAdds ==
  ASSUME NEW D, NEW f, \A x \in D : f[x] \in Nat, NEW S \in SUBSET D, IsFiniteSet(S)
  PROVE  /\ SumFunctionOnSet(f, {}) = 0
         /\ SumFunctionOnSet(f, S) \in Nat
         /\ \A x \in D \ S :
              SumFunctionOnSet(f, S \cup {x}) = SumFunctionOnSet(f, S) + f[x]
<1>1. PICK g : Totals(f, S, g) /\ SumFunctionOnSet(f, S) = g[S]
  BY UnfoldsExists, SumUnfolds
<1>2. SumFunctionOnSet(f, {}) = 0
  <2>1. IsFiniteSet({}) /\ {} \in SUBSET D BY FS_EmptySet
  <2>2. PICK h : Totals(f, {}, h) /\ SumFunctionOnSet(f, {}) = h[{}]
    BY <2>1, UnfoldsExists, SumUnfolds
  <2> QED BY <2>1, <2>2, UnfoldsGrows
<1>3. SumFunctionOnSet(f, S) \in Nat BY <1>1, UnfoldsGrows
<1>4. ASSUME NEW x \in D \ S
      PROVE  SumFunctionOnSet(f, S \cup {x}) = SumFunctionOnSet(f, S) + f[x]
  <2> DEFINE T == S \cup {x}
  <2>1. IsFiniteSet(T) /\ T \in SUBSET D /\ S \in SUBSET T /\ x \in T \ S BY FS_AddElement
  <2> HIDE DEF T
  <2>2. PICK h : Totals(f, T, h) /\ SumFunctionOnSet(f, T) = h[T]
    BY <2>1, UnfoldsExists, SumUnfolds
  <2>3. h[S \cup {x}] = h[S] + f[x] BY <2>1, <2>2, UnfoldsGrows
  <2>4. g[S] = h[S]
    <3>1. S \subseteq T /\ \A y \in T : f[y] \in Nat BY <2>1
    <3> QED BY <1>1, <2>1, <2>2, <3>1, UnfoldsSame
  <2> QED BY <1>1, <2>2, <2>3, <2>4 DEF T
<1> QED BY <1>2, <1>3, <1>4

LEMMA SumAgrees ==
  ASSUME NEW f1, NEW f2, NEW S, IsFiniteSet(S),
         \A x \in S : f1[x] \in Nat /\ f1[x] = f2[x]
  PROVE  SumFunctionOnSet(f1, S) = SumFunctionOnSet(f2, S)
<1>1. PICK g1 : Totals(f1, S, g1) /\ SumFunctionOnSet(f1, S) = g1[S]
  BY UnfoldsExists, SumUnfolds
<1>2. PICK g2 : Totals(f2, S, g2) /\ SumFunctionOnSet(f2, S) = g2[S]
  BY UnfoldsExists, SumUnfolds
<1>3. g1[S] = g2[S] BY <1>1, <1>2, UnfoldsSame
<1> QED BY <1>1, <1>2, <1>3

LEMMA SumWithout ==
  ASSUME NEW D, NEW f, \A y \in D : f[y] \in Nat,
         NEW S \in SUBSET D, IsFiniteSet(S), NEW x \in S
  PROVE  /\ SumFunctionOnSet(f, S \ {x}) \in Nat
         /\ SumFunctionOnSet(f, S) = SumFunctionOnSet(f, S \ {x}) + f[x]
<1> DEFINE T == S \ {x}
<1>1. T \cup {x} = S OBVIOUS
<1>2. x \in D \ T /\ T \in SUBSET D /\ IsFiniteSet(T) BY FS_Subset
<1>3. \A y \in D : f[y] \in Nat OBVIOUS
<1> HIDE DEF T
<1>4. SumFunctionOnSet(f, T) \in Nat BY <1>2, <1>3, SumAdds
<1>5. SumFunctionOnSet(f, T \cup {x}) = SumFunctionOnSet(f, T) + f[x]
  BY ONLY <1>2, <1>3, SumAdds
<1> QED BY <1>1, <1>4, <1>5 DEF T

(* A value that is counted up. *)
LEMMA SumCounts ==
  ASSUME NEW D, NEW f, NEW h, \A y \in D : f[y] \in Nat,
         NEW S \in SUBSET D, IsFiniteSet(S), NEW x \in D,
         h[x] = f[x] + 1, \A y \in D : y # x => h[y] = f[y]
  PROVE  SumFunctionOnSet(h, S) = SumFunctionOnSet(f, S) + (IF x \in S THEN 1 ELSE 0)
<1>1. \A y \in D : h[y] \in Nat
  <2>1. h[x] \in Nat OBVIOUS
  <2> QED BY <2>1
<1>2. CASE x \notin S
  <2>1. \A y \in S : h[y] \in Nat /\ h[y] = f[y] BY <1>1, <1>2
  <2>2. SumFunctionOnSet(h, S) = SumFunctionOnSet(f, S) BY <2>1, SumAgrees
  <2>3. SumFunctionOnSet(f, S) \in Nat BY SumAdds
  <2> QED BY <1>2, <2>2, <2>3
<1>3. CASE x \in S
  <2> DEFINE T == S \ {x}
  <2>1. /\ SumFunctionOnSet(f, T) \in Nat
        /\ SumFunctionOnSet(f, S) = SumFunctionOnSet(f, T) + f[x]
    BY <1>3, SumWithout
  <2>2. SumFunctionOnSet(h, S) = SumFunctionOnSet(h, T) + h[x]
    BY ONLY <1>1, <1>3, S \in SUBSET D, IsFiniteSet(S), SumWithout
  <2>3. SumFunctionOnSet(h, T) = SumFunctionOnSet(f, T)
    <3>1. IsFiniteSet(T) /\ T \subseteq D /\ x \notin T BY FS_Subset
    <3> HIDE DEF T
    <3>2. \A y \in T : h[y] \in Nat /\ h[y] = f[y] BY <1>1, <3>1
    <3> QED BY <3>1, <3>2, SumAgrees
  <2> HIDE DEF T
  <2>4. f[x] \in Nat OBVIOUS
  <2>5. SumFunctionOnSet(h, S) = SumFunctionOnSet(f, T) + (f[x] + 1) BY <2>2, <2>3
  <2>6. SumFunctionOnSet(h, S) = SumFunctionOnSet(f, S) + 1 BY <2>1, <2>4, <2>5
  <2> QED BY <1>3, <2>6
<1> QED BY <1>2, <1>3
=============================================================================
