-------------------------- MODULE CoroutineProofs ---------------------------
(***************************************************************************)
(* Control is at one place per frame, and what outer_ refers to is there,  *)
(* for any frames of any types.                                            *)
(***************************************************************************)
EXTENDS Coroutine, SequenceTheorems, TLAPS

-----------------------------------------------------------------------------
(* The stack of frames that run.                                           *)

On(s, f) == \E i \in 1..Len(s) : s[i] = f

LEMMA PopStack ==
  ASSUME NEW s \in Seq(Frames), s # <<>>, IsInjective(s)
  PROVE  /\ Front(s) \in Seq(Frames)
         /\ Last(s) \in Frames
         /\ IsInjective(Front(s))
         /\ \A f \in Frames : On(Front(s), f) <=> On(s, f) /\ f # Last(s)
<1>1. Len(s) \in Nat /\ Len(s) >= 1 /\ DOMAIN s = 1..Len(s)
  BY LenProperties, EmptySeq
<1>2. \A i \in 1..Len(s) : s[i] \in Frames
  BY ElementOfSeq
<1>3. /\ Front(s) \in Seq(Frames)
      /\ Len(Front(s)) = Len(s) - 1
      /\ \A i \in 1..Len(s) - 1 : Front(s)[i] = s[i]
  <2>1. \A i \in 1..Len(s) - 1 : s[i] \in Frames BY <1>1, <1>2
  <2>2. 1 \in Int /\ Len(s) - 1 \in Int BY <1>1
  <2>3. /\ SubSeq(s, 1, Len(s) - 1) \in Seq(Frames)
        /\ Len(SubSeq(s, 1, Len(s) - 1)) =
             IF 1 <= Len(s) - 1 THEN (Len(s) - 1) - 1 + 1 ELSE 0
        /\ \A i \in 1..(Len(s) - 1) - 1 + 1 : SubSeq(s, 1, Len(s) - 1)[i] = s[1 + i - 1]
    BY ONLY <2>1, <2>2, SubSeqProperties
  <2> QED BY <1>1, <2>3 DEF Front
<1>4. DOMAIN Front(s) = 1..Len(s) - 1 BY <1>1, <1>3, LenProperties
<1> QED BY <1>1, <1>2, <1>3, <1>4, SMTT(40) DEF IsInjective, On, Last

LEMMA PushStack ==
  ASSUME NEW s \in Seq(Frames), IsInjective(s), NEW g \in Frames, ~On(s, g)
  PROVE  /\ Append(s, g) \in Seq(Frames)
         /\ IsInjective(Append(s, g))
         /\ \A f \in Frames : On(Append(s, g), f) <=> On(s, f) \/ f = g
<1>1. /\ Append(s, g) \in Seq(Frames)
      /\ Len(Append(s, g)) = Len(s) + 1
      /\ \A i \in 1..Len(s) : Append(s, g)[i] = s[i]
      /\ Append(s, g)[Len(s) + 1] = g
  BY AppendProperties
<1>2. Len(s) \in Nat /\ DOMAIN s = 1..Len(s) /\ DOMAIN Append(s, g) = 1..Len(s) + 1
  BY <1>1, LenProperties
<1> QED BY <1>1, <1>2 DEF IsInjective, On

LEMMA OneOnStack ==
  ASSUME NEW g \in Frames
  PROVE  /\ <<g>> \in Seq(Frames)
         /\ IsInjective(<<g>>)
         /\ \A f \in Frames : On(<<g>>, f) <=> f = g
BY DEF IsInjective, On

-----------------------------------------------------------------------------
(* What a frame got.                                                       *)

LEMMA NothingIsTyped == Nothing \in Answers /\ Nothing.of \notin Frames
BY FrameAssumption DEF Nothing, Answers, Results

LEMMA AnswerIsTyped ==
  ASSUME NEW g \in Frames, NEW r \in Results
  PROVE  /\ [of |-> g, result |-> r] \in Answers
         /\ [of |-> g, result |-> r].of = g /\ [of |-> g, result |-> r].result = r
BY DEF Answers

-----------------------------------------------------------------------------
(* The inductive invariant.                                                *)

(* Until g ends, the frame outer_ refers to waits for it, and for nothing  *)
(* else; it has its type.                                                  *)
OuterInv ==
  \A f, g \in Frames : outer[g] = f =>
    /\ SameType(f, g) /\ state[g] # "unborn"
    /\ state[g] \in {"running", "event", "future"} => state[f] = "future" /\ awaited[f] = g
    /\ Ret[g] = "void" => state[f] = "future"

(* Frames of value types are kept at their end with their result, void     *)
(* ones are not.                                                           *)
EndInv ==
  /\ \A f \in Frames : state[f] = "final" => Ret[f] # "void" /\ result[f] \in Ends
  /\ \A f \in Frames : state[f] = "destroyed" => Ret[f] = "void"
  /\ \A f \in Frames : state[f] = "future" => awaited[f] \in Frames

CoInv ==
  /\ TypeOK
  /\ NoReentry
  /\ OuterInv
  /\ EndInv
  /\ AwaiterOfItsOwnTypeIsResumed
  /\ OnlyVoidFuturesDangle

LEMMA InitInv == Init => CoInv
<1> SUFFICES ASSUME Init PROVE CoInv OBVIOUS
<1>1. TypeOK
  <2>1. knows \in [Frames \cup {NoFrame} -> SUBSET Frames] BY DEF Init
  <2>2. got \in [Frames -> Answers] BY NothingIsTyped DEF Init
  <2> QED BY <2>1, <2>2 DEF Init, TypeOK, States, Results
<1>2. NoReentry BY DEF Init, NoReentry, IsInjective
<1>3. OuterInv /\ EndInv /\ AwaiterOfItsOwnTypeIsResumed /\ OnlyVoidFuturesDangle
  BY FrameAssumption
     DEF Init, Nothing, OuterInv, EndInv, AwaiterOfItsOwnTypeIsResumed, OnlyVoidFuturesDangle
<1> QED BY <1>1, <1>2, <1>3 DEF CoInv
(* The frame that acts runs, so nothing that is alive waits for it, and    *)
(* its own end may only concern the rest of the stack.                     *)
LEMMA TopFrame ==
  ASSUME CoInv, NEW f \in Frames, Top(f)
  PROVE  /\ stack # <<>> /\ state[f] = "running"
         /\ \A g \in Frames : outer[g] = f => state[g] \notin {"running", "event", "future"}
         /\ Front(stack) \in Seq(Frames)
         /\ IsInjective(Front(stack))
         /\ \A g \in Frames : On(Front(stack), g) <=> state[g] = "running" /\ g # f
<1>1. /\ stack \in Seq(Frames) /\ IsInjective(stack)
      /\ \A g \in Frames : state[g] = "running" <=> On(stack, g)
  BY DEF CoInv, TypeOK, NoReentry, On
<1>2. stack # <<>> /\ f = Last(stack) BY DEF Top
<1>3. On(stack, f)
  <2>1. Len(stack) \in 1..Len(stack) BY <1>1, <1>2, LenProperties, EmptySeq
  <2> QED BY <1>2, <2>1 DEF On, Last
<1>4. state[f] = "running" BY <1>1, <1>3
<1>5. \A g \in Frames : outer[g] = f => state[g] \notin {"running", "event", "future"}
  BY <1>4 DEF CoInv, OuterInv
<1> QED BY <1>1, <1>2, <1>4, <1>5, PopStack

LEMMA CallInv ==
  ASSUME CoInv, NEW f \in Frames, NEW passed \in SUBSET Frames, Call(f, passed)
  PROVE  CoInv'
<1>1. /\ stack \in Seq(Frames) /\ IsInjective(stack)
      /\ \A g \in Frames : state[g] = "running" <=> On(stack, g)
  BY DEF CoInv, TypeOK, NoReentry, On
<1>2. ~On(stack, f) BY <1>1 DEF Call
<1>3. /\ stack' \in Seq(Frames) /\ IsInjective(stack')
      /\ \A g \in Frames : On(stack', g) <=> On(stack, g) \/ g = f
  BY <1>1, <1>2, PushStack DEF Call
<1>4. TypeOK'
  <2>1. knows' \in [Frames \cup {NoFrame} -> SUBSET Frames]
    <3> DEFINE caller == IF stack = <<>> THEN NoFrame ELSE Last(stack)
    <3>1. caller \in Frames \cup {NoFrame} BY <1>1, PopStack
    <3>2. knows[caller] \cup {f} \in SUBSET Frames BY <3>1 DEF CoInv, TypeOK
    <3>3. knows' = [knows EXCEPT ![caller] = knows[caller] \cup {f}, ![f] = passed] BY DEF Call
    <3> HIDE DEF caller
    <3> QED BY <3>1, <3>2, <3>3 DEF CoInv, TypeOK
  <2> QED BY <1>3, <2>1 DEF CoInv, TypeOK, States, Call
<1>5. NoReentry' BY <1>1, <1>3 DEF CoInv, TypeOK, NoReentry, On, Call
<1>6. OuterInv' BY FrameAssumption DEF CoInv, TypeOK, OuterInv, SameType, Call
<1>7. EndInv' BY DEF CoInv, TypeOK, EndInv, Call
<1>8. AwaiterOfItsOwnTypeIsResumed'
  BY DEF CoInv, TypeOK, AwaiterOfItsOwnTypeIsResumed, SameType, Call
<1>9. OnlyVoidFuturesDangle' BY DEF CoInv, TypeOK, OnlyVoidFuturesDangle, Call
<1> QED BY <1>4, <1>5, <1>6, <1>7, <1>8, <1>9 DEF CoInv

LEMMA AwaitEventInv == ASSUME CoInv, NEW f \in Frames, AwaitEvent(f) PROVE CoInv'
<1>1. Top(f) BY DEF AwaitEvent
<1>2. /\ state[f] = "running"
      /\ stack' \in Seq(Frames) /\ IsInjective(stack')
      /\ \A g \in Frames : On(stack', g) <=> state[g] = "running" /\ g # f
  BY <1>1, TopFrame DEF AwaitEvent
<1>3. TypeOK' BY <1>2, NothingIsTyped DEF CoInv, TypeOK, States, AwaitEvent
<1>4. NoReentry' BY <1>2 DEF CoInv, TypeOK, NoReentry, On, AwaitEvent
<1>5. OuterInv' BY <1>2, FrameAssumption DEF CoInv, TypeOK, OuterInv, SameType, AwaitEvent
<1>6. EndInv' BY <1>2 DEF CoInv, TypeOK, EndInv, AwaitEvent
<1>7. AwaiterOfItsOwnTypeIsResumed'
  BY <1>2, NothingIsTyped
     DEF CoInv, TypeOK, AwaiterOfItsOwnTypeIsResumed, SameType, AwaitEvent
<1>8. OnlyVoidFuturesDangle' BY <1>2 DEF CoInv, TypeOK, OnlyVoidFuturesDangle, AwaitEvent
<1> QED BY <1>3, <1>4, <1>5, <1>6, <1>7, <1>8 DEF CoInv

LEMMA ResumeInv == ASSUME CoInv, NEW f \in Frames, Resume(f) PROVE CoInv'
<1>1. \A g \in Frames : state[g] # "running"
  <2>1. Len(stack) = 0 BY LenProperties DEF Resume
  <2> QED BY <2>1 DEF CoInv, NoReentry
<1>2. /\ stack' \in Seq(Frames) /\ IsInjective(stack')
      /\ \A g \in Frames : On(stack', g) <=> g = f
  BY OneOnStack DEF Resume
<1>3. TypeOK' BY <1>2 DEF CoInv, TypeOK, States, Resume
<1>4. NoReentry' BY <1>1, <1>2 DEF CoInv, TypeOK, NoReentry, On, Resume
<1>5. OuterInv' BY FrameAssumption DEF CoInv, TypeOK, OuterInv, SameType, Resume
<1>6. EndInv' BY DEF CoInv, TypeOK, EndInv, Resume
<1>7. AwaiterOfItsOwnTypeIsResumed'
  BY DEF CoInv, TypeOK, AwaiterOfItsOwnTypeIsResumed, SameType, Resume
<1>8. OnlyVoidFuturesDangle' BY DEF CoInv, TypeOK, OnlyVoidFuturesDangle, Resume
<1> QED BY <1>3, <1>4, <1>5, <1>6, <1>7, <1>8 DEF CoInv

LEMMA AwaitFutureInv ==
  ASSUME CoInv, NEW f \in Frames, NEW g \in Frames, AwaitFuture(f, g) PROVE CoInv'
<1>1. Top(f) BY DEF AwaitFuture
<1>2. /\ state[f] = "running"
      /\ \A h \in Frames : outer[h] = f => state[h] \notin {"running", "event", "future"}
      /\ stack' \in Seq(Frames) /\ IsInjective(stack')
      /\ \A h \in Frames : On(stack', h) <=> state[h] = "running" /\ h # f
  BY <1>1, TopFrame DEF AwaitFuture
<1>3. TypeOK' BY <1>2, NothingIsTyped, SMTT(40) DEF CoInv, TypeOK, States, AwaitFuture
<1>4. NoReentry' BY <1>2 DEF CoInv, TypeOK, NoReentry, On, AwaitFuture
<1>5. OuterInv' BY <1>2, FrameAssumption DEF CoInv, TypeOK, OuterInv, SameType, AwaitFuture
<1>6. EndInv' BY <1>2 DEF CoInv, TypeOK, EndInv, AwaitFuture
<1>7. AwaiterOfItsOwnTypeIsResumed'
  <2>1. \A h, k \in Frames :
          (state'[h] = "future" /\ awaited'[h] = k /\ SameType(h, k) /\ Ret[k] # "void"
            /\ h \notin overtaken')
            => outer'[k] = h /\ state'[k] \in {"running", "event", "future"}
    BY <1>2, FrameAssumption
       DEF CoInv, TypeOK, OuterInv, EndInv, AwaiterOfItsOwnTypeIsResumed, SameType, AwaitFuture
  <2>2. \A h, k \in Frames : got'[h].of = k =>
          state'[k] = "final" /\ got'[h].result = result'[k] /\ result'[k] \in Ends
    BY <1>2, NothingIsTyped DEF CoInv, TypeOK, AwaiterOfItsOwnTypeIsResumed, AwaitFuture
  <2> QED BY <2>1, <2>2 DEF AwaiterOfItsOwnTypeIsResumed, SameType
<1>8. OnlyVoidFuturesDangle'
  BY <1>2, FrameAssumption DEF CoInv, TypeOK, OnlyVoidFuturesDangle, AwaitFuture
<1> QED BY <1>3, <1>4, <1>5, <1>6, <1>7, <1>8 DEF CoInv

LEMMA AwaitDoneInv ==
  ASSUME CoInv, NEW f \in Frames, NEW g \in Frames, AwaitDone(f, g) PROVE CoInv'
<1>1. /\ state[g] = "final" /\ result[g] \in Ends /\ result[g] \in Results
      /\ got' = [got EXCEPT ![f] = [of |-> g, result |-> result[g]]]
      /\ UNCHANGED <<state, outer, result, knows, awaited, stack, dangling, overtaken>>
  BY DEF CoInv, EndInv, TypeOK, AwaitDone
<1>2. TypeOK'
  <2>1. got' \in [Frames -> Answers]
    BY <1>1, AnswerIsTyped DEF CoInv, TypeOK
  <2> QED BY <1>1, <2>1 DEF CoInv, TypeOK
<1>3. NoReentry' BY <1>1 DEF CoInv, NoReentry
<1>4. OuterInv' /\ EndInv' BY <1>1 DEF CoInv, OuterInv, EndInv, SameType
<1>5. AwaiterOfItsOwnTypeIsResumed'
  BY <1>1 DEF CoInv, TypeOK, AwaiterOfItsOwnTypeIsResumed, SameType
<1>6. OnlyVoidFuturesDangle' BY <1>1 DEF CoInv, OnlyVoidFuturesDangle
<1> QED BY <1>2, <1>3, <1>4, <1>5, <1>6 DEF CoInv

LEMMA AwaitDestroyedInv ==
  ASSUME CoInv, NEW f \in Frames, NEW g \in Frames, AwaitDestroyed(f, g) PROVE CoInv'
<1>1. Top(f) BY DEF AwaitDestroyed
<1>2. /\ state[f] = "running" /\ Ret[g] = "void"
      /\ \A h \in Frames : outer[h] = f => state[h] \notin {"running", "event", "future"}
      /\ Front(stack) \in Seq(Frames) /\ IsInjective(Front(stack))
      /\ \A h \in Frames : On(Front(stack), h) <=> state[h] = "running" /\ h # f
  BY <1>1, TopFrame DEF CoInv, EndInv, AwaitDestroyed
<1>3. TypeOK'
  <2>1. /\ got' \in [Frames -> Answers]
        /\ dangling' \subseteq Frames \X Frames
        /\ UNCHANGED <<outer, result, knows, overtaken>>
    BY NothingIsTyped DEF CoInv, TypeOK, AwaitDestroyed
  <2>2. /\ state' \in [Frames -> States]
        /\ awaited' \in [Frames -> Frames \cup {NoFrame}]
        /\ stack' \in Seq(Frames)
    BY <1>2 DEF CoInv, TypeOK, States, AwaitDestroyed
  <2> QED BY <2>1, <2>2 DEF CoInv, TypeOK
<1>4. NoReentry'
  <2>1. CASE UNCHANGED <<state, stack>> BY <2>1 DEF CoInv, NoReentry
  <2>2. CASE state' = [state EXCEPT ![f] = "future"] /\ stack' = Front(stack)
    BY <1>2, <2>2 DEF CoInv, TypeOK, NoReentry, On
  <2> QED BY <2>1, <2>2 DEF AwaitDestroyed
<1>5. OuterInv' BY <1>2, FrameAssumption DEF CoInv, TypeOK, OuterInv, SameType, AwaitDestroyed
<1>6. EndInv' BY <1>2, ZenonT(40) DEF CoInv, TypeOK, EndInv, AwaitDestroyed
<1>7. AwaiterOfItsOwnTypeIsResumed'
  <2>1. \A h, k \in Frames :
          (state'[h] = "future" /\ awaited'[h] = k /\ SameType(h, k) /\ Ret[k] # "void"
            /\ h \notin overtaken')
            => outer'[k] = h /\ state'[k] \in {"running", "event", "future"}
    BY <1>2 DEF CoInv, TypeOK, AwaiterOfItsOwnTypeIsResumed, SameType, AwaitDestroyed
  <2>2. \A h, k \in Frames : got'[h].of = k =>
          state'[k] = "final" /\ got'[h].result = result'[k] /\ result'[k] \in Ends
    BY <1>2, NothingIsTyped DEF CoInv, TypeOK, AwaiterOfItsOwnTypeIsResumed, AwaitDestroyed
  <2> QED BY <2>1, <2>2 DEF AwaiterOfItsOwnTypeIsResumed, SameType
<1>8. OnlyVoidFuturesDangle'
  BY <1>2 DEF CoInv, TypeOK, OnlyVoidFuturesDangle, AwaitDestroyed
<1> QED BY <1>3, <1>4, <1>5, <1>6, <1>7, <1>8 DEF CoInv

LEMMA ReturnValueInv ==
  ASSUME CoInv, NEW f \in Frames, NEW how \in Ends, ReturnValue(f, how) PROVE CoInv'
<1>1. /\ Top(f) /\ Ret[f] # "void" /\ how \in Results
      /\ result' = [result EXCEPT ![f] = how]
      /\ knows' = [knows EXCEPT ![f] = {}]
      /\ UNCHANGED <<outer, dangling, overtaken>>
  BY DEF ReturnValue, Returns, Ending, Ends
<1>2. /\ state[f] = "running"
      /\ \A h \in Frames : outer[h] = f => state[h] \notin {"running", "event", "future"}
      /\ Front(stack) \in Seq(Frames) /\ IsInjective(Front(stack))
      /\ \A h \in Frames : On(Front(stack), h) <=> state[h] = "running" /\ h # f
  BY <1>1, TopFrame
<1>3. /\ result' \in [Frames -> Results] /\ knows' \in [Frames \cup {NoFrame} -> SUBSET Frames]
      /\ result'[f] = how /\ \A h \in Frames \ {f} : result'[h] = result[h]
  BY <1>1 DEF CoInv, TypeOK
<1>4. CASE outer[f] = NoFrame
  <2>1. /\ state' = [state EXCEPT ![f] = "final"] /\ stack' = Front(stack)
        /\ got' = [got EXCEPT ![f] = Nothing] /\ awaited' = awaited
    BY <1>4 DEF ReturnValue
  <2>2. TypeOK' BY <1>1, <1>2, <1>3, <2>1, NothingIsTyped DEF CoInv, TypeOK, States
  <2>3. NoReentry' BY <1>2, <2>1 DEF CoInv, TypeOK, NoReentry, On
  <2>4. OuterInv'
    BY <1>1, <1>2, <1>4, <2>1, FrameAssumption DEF CoInv, TypeOK, OuterInv, SameType
  <2>5. EndInv' BY <1>1, <1>2, <1>3, <2>1 DEF CoInv, TypeOK, EndInv
  <2>6. AwaiterOfItsOwnTypeIsResumed'
    <3>1. \A h, k \in Frames :
            (state'[h] = "future" /\ awaited'[h] = k /\ SameType(h, k) /\ Ret[k] # "void"
              /\ h \notin overtaken')
              => outer'[k] = h /\ state'[k] \in {"running", "event", "future"}
      BY <1>1, <1>2, <1>4, <2>1, FrameAssumption
         DEF CoInv, TypeOK, AwaiterOfItsOwnTypeIsResumed, SameType
    <3>2. \A h, k \in Frames : got'[h].of = k =>
            state'[k] = "final" /\ got'[h].result = result'[k] /\ result'[k] \in Ends
      BY <1>2, <1>3, <2>1, NothingIsTyped DEF CoInv, TypeOK, AwaiterOfItsOwnTypeIsResumed
    <3> QED BY <3>1, <3>2 DEF AwaiterOfItsOwnTypeIsResumed, SameType
  <2>7. OnlyVoidFuturesDangle'
    BY <1>1, <1>2, <2>1 DEF CoInv, TypeOK, OnlyVoidFuturesDangle
  <2> QED BY <2>2, <2>3, <2>4, <2>5, <2>6, <2>7 DEF CoInv
<1>5. CASE outer[f] # NoFrame
  <2> DEFINE o == outer[f]
  <2>1. /\ o \in Frames /\ state[o] = "future" /\ awaited[o] = f /\ o # f
        /\ SameType(o, f)
    BY <1>2, <1>5 DEF CoInv, TypeOK, OuterInv
  <2>2. /\ state' = [state EXCEPT ![f] = "final", ![o] = "running"]
        /\ stack' = Append(Front(stack), o)
        /\ awaited' = [awaited EXCEPT ![o] = NoFrame]
        /\ got' = [got EXCEPT ![f] = Nothing, ![o] = [of |-> f, result |-> how]]
    BY <1>5 DEF ReturnValue
  <2>3. ~On(Front(stack), o) BY <1>2, <2>1
  <2>4. /\ stack' \in Seq(Frames) /\ IsInjective(stack')
        /\ \A h \in Frames : On(stack', h) <=> (state[h] = "running" /\ h # f) \/ h = o
    BY <1>2, <2>1, <2>2, <2>3, PushStack
  <2>5. /\ \A h \in Frames :
             state'[h] = IF h = f THEN "final" ELSE IF h = o THEN "running" ELSE state[h]
        /\ \A h \in Frames : awaited'[h] = IF h = o THEN NoFrame ELSE awaited[h]
        /\ \A h \in Frames : got'[h] = IF h = o THEN [of |-> f, result |-> how]
                                       ELSE IF h = f THEN Nothing ELSE got[h]
    BY <2>1, <2>2 DEF CoInv, TypeOK
  <2>6. TypeOK'
    <3>1. [of |-> f, result |-> how] \in Answers BY <1>1, AnswerIsTyped
    <3>2. got' \in [Frames -> Answers]
      BY <2>2, <3>1, NothingIsTyped DEF CoInv, TypeOK
    <3> QED BY <1>1, <1>3, <2>1, <2>2, <2>4, <3>2 DEF CoInv, TypeOK, States
  <2>7. NoReentry' BY <2>1, <2>4, <2>5 DEF CoInv, TypeOK, NoReentry, On
  <2>8. OuterInv'
    BY <1>1, <1>2, <2>1, <2>5, FrameAssumption DEF CoInv, TypeOK, OuterInv, SameType
  <2>9. EndInv' BY <1>1, <1>3, <2>1, <2>5 DEF CoInv, EndInv
  <2>10. AwaiterOfItsOwnTypeIsResumed'
    <3>1. \A h, k \in Frames :
            (state'[h] = "future" /\ awaited'[h] = k /\ SameType(h, k) /\ Ret[k] # "void"
              /\ h \notin overtaken')
              => outer'[k] = h /\ state'[k] \in {"running", "event", "future"}
      BY <1>1, <1>2, <2>1, <2>5, FrameAssumption
         DEF CoInv, TypeOK, AwaiterOfItsOwnTypeIsResumed, SameType
    <3>2. /\ state'[f] = "final" /\ result'[f] \in Ends
          /\ got'[o].of = f /\ got'[o].result = result'[f]
      BY <1>3, <2>1, <2>5, AnswerIsTyped, <1>1
    <3>3. ASSUME NEW h \in Frames \ {o}, NEW k \in Frames, got'[h].of = k
          PROVE  state'[k] = "final" /\ got'[h].result = result'[k] /\ result'[k] \in Ends
      <4>1. h # f /\ got'[h] = got[h] BY <2>5, <3>3, NothingIsTyped
      <4>2. state[k] = "final" /\ got[h].result = result[k] /\ result[k] \in Ends
        BY <3>3, <4>1 DEF CoInv, AwaiterOfItsOwnTypeIsResumed
      <4>3. k # f /\ k # o BY <1>2, <2>1, <4>2
      <4> QED BY <1>3, <2>5, <4>1, <4>2, <4>3
    <3> QED BY <3>1, <3>2, <3>3 DEF AwaiterOfItsOwnTypeIsResumed, SameType
  <2>11. OnlyVoidFuturesDangle'
    BY <1>1, <1>2, <2>1, <2>5 DEF CoInv, TypeOK, OnlyVoidFuturesDangle
  <2> QED BY <2>6, <2>7, <2>8, <2>9, <2>10, <2>11 DEF CoInv
<1> QED BY <1>4, <1>5

LEMMA ReturnVoidInv == ASSUME CoInv, NEW f \in Frames, ReturnVoid(f) PROVE CoInv'
<1>1. Top(f) /\ Ret[f] = "void" BY DEF ReturnVoid, Ending
<1>2. /\ state[f] = "running"
      /\ \A h \in Frames : outer[h] = f => state[h] \notin {"running", "event", "future"}
      /\ stack' \in Seq(Frames) /\ IsInjective(stack')
      /\ \A h \in Frames : On(stack', h) <=> state[h] = "running" /\ h # f
  BY <1>1, TopFrame DEF ReturnVoid
<1>3. TypeOK' BY <1>2, NothingIsTyped DEF CoInv, TypeOK, States, ReturnVoid, Ending
<1>4. NoReentry' BY <1>2 DEF CoInv, TypeOK, NoReentry, On, ReturnVoid
<1>5. OuterInv'
  BY <1>2, FrameAssumption DEF CoInv, TypeOK, OuterInv, SameType, ReturnVoid, Ending
<1>6. EndInv' BY <1>1, <1>2 DEF CoInv, TypeOK, EndInv, ReturnVoid
<1>7. AwaiterOfItsOwnTypeIsResumed'
  BY <1>1, <1>2, NothingIsTyped
     DEF CoInv, TypeOK, AwaiterOfItsOwnTypeIsResumed, SameType, ReturnVoid, Ending
<1>8. OnlyVoidFuturesDangle'
  BY <1>1, <1>2, FrameAssumption
     DEF CoInv, TypeOK, OuterInv, OnlyVoidFuturesDangle, SameType, ReturnVoid, Ending
<1> QED BY <1>3, <1>4, <1>5, <1>6, <1>7, <1>8 DEF CoInv

LEMMA StepInv == CoInv /\ [Next]_coVars => CoInv'
<1> SUFFICES ASSUME CoInv, [Next]_coVars PROVE CoInv' OBVIOUS
<1>1. CASE UNCHANGED coVars
  BY <1>1 DEF coVars, CoInv, TypeOK, NoReentry, OuterInv, EndInv, SameType,
              AwaiterOfItsOwnTypeIsResumed, OnlyVoidFuturesDangle
<1>2. CASE Next
  BY <1>2, CallInv, AwaitEventInv, ResumeInv, AwaitFutureInv, AwaitDoneInv,
     AwaitDestroyedInv, ReturnValueInv, ReturnVoidInv DEF Next, Return
<1> QED BY <1>1, <1>2

LEMMA Invariant == Spec => []CoInv
<1>1. Init => CoInv BY InitInv
<1>2. CoInv /\ [Next]_coVars => CoInv' BY StepInv
<1> QED BY <1>1, <1>2, PTL DEF Spec

(* However coroutines call and await one another, no frame is resumed      *)
(* while it runs or after its end (coroutine.h:120-132).                   *)
THEOREM ControlIsInOnePlace == Spec => []NoReentry
<1>1. CoInv => NoReentry BY DEF CoInv
<1> QED BY <1>1, Invariant, PTL

(* A frame that waits for a Future of its own type is referred to by a     *)
(* frame that has not ended, unless another took its place; who goes on    *)
(* after a co_await has the result of the very frame it awaited            *)
(* (coroutine.h:94-102, 115-131, 141).                                     *)
THEOREM AwaitersAreKnown == Spec => []AwaiterOfItsOwnTypeIsResumed
<1>1. CoInv => AwaiterOfItsOwnTypeIsResumed BY DEF CoInv
<1> QED BY <1>1, Invariant, PTL

(* Freed frames are touched through void futures only (coroutine.h:214).   *)
THEOREM ValueFuturesNeverDangle == Spec => []OnlyVoidFuturesDangle
<1>1. CoInv => OnlyVoidFuturesDangle BY DEF CoInv
<1> QED BY <1>1, Invariant, PTL
=============================================================================
