------------------------ MODULE BaseProcessorProofs ------------------------
(***************************************************************************)
(* Proofs, for every set of frames, senders and channel capacities, of the *)
(* safety of the cancel-and-recreate protocol of BaseProcessor.            *)
(***************************************************************************)
EXTENDS BaseProcessor, TLAPS

USE FrameAssumption, CapAssumption

----------------------------------------------------------------------------
(* What channel operations do to the set of frames a channel holds.        *)

\* Sending on a channel adds exactly the frame sent.
LEMMA ElemsAppend ==
    ASSUME NEW S, NEW s \in Seq(S), NEW x \in S
    PROVE  Elems(Append(s, x)) = Elems(s) \cup {x}
<1>1. Append(s, x) \in Seq(S) /\ Len(Append(s, x)) = Len(s) + 1
  OBVIOUS
<1>2. \A i \in 1..Len(s) : Append(s, x)[i] = s[i]
  OBVIOUS
<1>3. Append(s, x)[Len(s) + 1] = x
  OBVIOUS
<1>4. DOMAIN s = 1..Len(s) /\ DOMAIN Append(s, x) = 1..(Len(s) + 1)
  BY <1>1
<1>5. Len(s) \in Nat
  OBVIOUS
<1>6. 1..(Len(s) + 1) = 1..Len(s) \cup {Len(s) + 1}
  BY <1>5
<1> QED
  BY <1>2, <1>3, <1>4, <1>6 DEF Elems

\* Receiving from a non-empty channel removes its head and nothing else.
LEMMA ElemsHeadTail ==
    ASSUME NEW S, NEW s \in Seq(S), s # <<>>
    PROVE  /\ Head(s) \in S
           /\ Tail(s) \in Seq(S)
           /\ Len(Tail(s)) = Len(s) - 1
           /\ Elems(s) = Elems(Tail(s)) \cup {Head(s)}
<1>1. Head(s) = s[1] /\ Len(s) \in Nat /\ Len(s) # 0
  OBVIOUS
<1>2. Tail(s) \in Seq(S) /\ Len(Tail(s)) = Len(s) - 1
  BY <1>1
<1>3. \A i \in 1..(Len(s) - 1) : Tail(s)[i] = s[i + 1]
  BY <1>1
<1>4. DOMAIN s = 1..Len(s) /\ DOMAIN Tail(s) = 1..(Len(s) - 1)
  BY <1>1, <1>2
<1>5. ASSUME NEW i \in 1..Len(s), i # 1
      PROVE  i - 1 \in 1..(Len(s) - 1) /\ s[i] = Tail(s)[i - 1]
  BY <1>1, <1>3, <1>5
<1>6. \A i \in 1..(Len(s) - 1) : i + 1 \in 1..Len(s)
  BY <1>1
<1>7. Elems(s) \subseteq Elems(Tail(s)) \cup {Head(s)}
  <2> SUFFICES ASSUME NEW i \in 1..Len(s), i # 1
               PROVE  s[i] \in Elems(Tail(s))
    BY <1>1, <1>4 DEF Elems
  <2> QED BY <1>4, <1>5 DEF Elems
<1>8. Elems(Tail(s)) \cup {Head(s)} \subseteq Elems(s)
  BY <1>1, <1>3, <1>4, <1>6 DEF Elems
<1> QED
  BY <1>1, <1>2, <1>4, <1>7, <1>8

\* The frames a channel of frames holds are frames.
LEMMA ElemsType ==
    ASSUME NEW S, NEW s \in Seq(S)
    PROVE  Elems(s) \subseteq S
BY DEF Elems

----------------------------------------------------------------------------
(* Types, and what inputLoop holds at each of its control points.          *)

HandInv ==
    /\ inPC \in {"unstarted", "priority", "fair", "exited"} => hand = NoFrame
    /\ inPC \in {"forward", "handle"} => hand \in Frame
    /\ inPC \in {"wait", "drain", "pushback"} => hand \in Interrupt
    /\ inPC \notin {"drain", "pushback"} => keep = <<>>
    /\ started <=> inPC # "unstarted"

TypeInv == TypeOK /\ HandInv

\* The initial state satisfies the typing invariant.
LEMMA TypeInit == Init => TypeInv
<1> SUFFICES ASSUME Init PROVE TypeInv
  OBVIOUS
<1>1. TypeOK
  <2>1. /\ cur \in Loop
        /\ loop \in [Loop -> LoopState]
        /\ inFlight \in [Loop -> Frame \cup {NoFrame}]
        /\ waiter \in [Interrupt -> WaiterState]
        /\ sending \in [Sender -> Frame \cup {NoFrame}]
    BY DEF Init, Loop, LoopState, WaiterState
  <2>2. <<>> \in Seq(Frame)
    OBVIOUS
  <2> QED BY <2>1, <2>2 DEF Init, TypeOK, InputState
<1>2. HandInv
  BY DEF Init, HandInv
<1> QED BY <1>1, <1>2 DEF TypeInv

\* Every step preserves the typing invariant.
LEMMA TypeNext == TypeInv /\ [Next]_vars => TypeInv'
<1> SUFFICES ASSUME TypeInv, [Next]_vars PROVE TypeInv'
  OBVIOUS
<1> USE DEF TypeInv, TypeOK, HandInv, queues, ctxVars, inVars, loopVars, wgVars
<1>0. FirstLoop \in Loop /\ \A i \in Interrupt : i \in Loop /\ i \in Frame
  BY DEF Loop, Interrupt
<1> USE DEF InputState, LoopState, WaiterState
<1>1. CASE Start
  BY <1>0, <1>1 DEF Start
<1>2. CASE Stop
  BY <1>2 DEF Stop
<1>3. CASE TaskCancel
  BY <1>3 DEF TaskCancel
<1>4. ASSUME NEW s \in Sender, NEW f \in Frame, QueueFrame(s, f)
      PROVE  TypeInv'
  BY <1>4 DEF QueueFrame
<1>5. ASSUME NEW s \in Sender, Deliver(s) PROVE TypeInv'
  <2>1. /\ sending[s] \in Frame
        /\ sending' \in [Sender -> Frame \cup {NoFrame}]
    BY <1>5 DEF Deliver
  <2>2. /\ Append(sysCh, sending[s]) \in Seq(Frame)
        /\ Append(dataCh, sending[s]) \in Seq(Frame)
        /\ Append(arrived, sending[s]) \in Seq(Frame)
    BY <2>1
  <2>3. /\ sysCh' \in Seq(Frame)
        /\ dataCh' \in Seq(Frame)
        /\ arrived' \in Seq(Frame)
    BY <1>5, <2>2 DEF Deliver
  <2> QED BY <1>5, <2>1, <2>3 DEF Deliver
<1>6. ASSUME NEW s \in Sender, GiveUp(s) PROVE TypeInv'
  BY <1>6 DEF GiveUp
<1>7. CASE InputExit
  BY <1>7 DEF InputExit
<1>8. CASE TakeSystem
  <2>1. Head(sysCh) \in Frame /\ Tail(sysCh) \in Seq(Frame)
    BY <1>8, ElemsHeadTail DEF TakeSystem
  <2> QED BY <1>8, <2>1 DEF TakeSystem
<1>9. CASE PriorityDefault
  BY <1>9 DEF PriorityDefault
<1>10. CASE TakeData
  <2>1. Head(dataCh) \in Frame /\ Tail(dataCh) \in Seq(Frame)
    BY <1>10, ElemsHeadTail DEF TakeData
  <2> QED BY <1>10, <2>1 DEF TakeData
<1>11. CASE Forward
  BY <1>11 DEF Forward
<1>12. CASE WaitDone
  BY <1>12 DEF WaitDone
<1>13. CASE WaitTimeout
  BY <1>13 DEF WaitTimeout
<1>14. CASE DrainOne
  <2>1. Head(procCh) \in Frame /\ Tail(procCh) \in Seq(Frame)
    BY <1>14, ElemsHeadTail DEF DrainOne
  <2> QED BY <1>14, <2>1 DEF DrainOne
<1>15. CASE StartProcessLoop
  BY <1>0, <1>15 DEF StartProcessLoop
<1>16. CASE PushBack
  <2>1. Head(keep) \in Frame /\ Tail(keep) \in Seq(Frame)
    BY <1>16, ElemsHeadTail DEF PushBack
  <2> QED BY <1>16, <2>1 DEF PushBack
<1>17. CASE PushBackDone
  BY <1>0, <1>17 DEF PushBackDone
<1>18. CASE HandleSystem
  BY <1>18 DEF HandleSystem
<1>19. ASSUME NEW g \in Loop, LoopTop(g) PROVE TypeInv'
  BY <1>19 DEF LoopTop
<1>20. ASSUME NEW g \in Loop, LoopTake(g) PROVE TypeInv'
  <2>1. Head(procCh) \in Frame /\ Tail(procCh) \in Seq(Frame)
    BY <1>20, ElemsHeadTail DEF LoopTake
  <2> QED BY <1>20, <2>1 DEF LoopTake
<1>21. ASSUME NEW g \in Loop, LoopExit(g) PROVE TypeInv'
  BY <1>21 DEF LoopExit, WakeWaiters
<1>22. ASSUME NEW g \in Loop, LoopReturn(g) PROVE TypeInv'
  BY <1>22 DEF LoopReturn
<1>23. ASSUME NEW g \in Loop, LoopReturnEnd(g) PROVE TypeInv'
  BY <1>23 DEF LoopReturnEnd, WakeWaiters
<1>24. ASSUME NEW i \in Interrupt, WaiterWait(i) PROVE TypeInv'
  BY <1>24 DEF WaiterWait
<1>25. ASSUME NEW i \in Interrupt, WaiterReturn(i) PROVE TypeInv'
  BY <1>25 DEF WaiterReturn
<1>26. CASE UNCHANGED vars
  BY <1>26 DEF vars
<1> QED
  BY <1>1, <1>2, <1>3, <1>4, <1>5, <1>6, <1>7, <1>8, <1>9, <1>10, <1>11,
     <1>12, <1>13, <1>14, <1>15, <1>16, <1>17, <1>18, <1>19, <1>20, <1>21,
     <1>22, <1>23, <1>24, <1>25, <1>26 DEF Next, InputLoop, ProcessLoop

\* The channels, contexts and goroutines of a processor always have the
\* types the code gives them: TypeOK is an invariant.
THEOREM TypeCorrect == Spec => []TypeOK
<1>1. Init => TypeInv
  BY TypeInit
<1>2. TypeInv /\ [Next]_vars => TypeInv'
  BY TypeNext
<1>3. TypeInv => TypeOK
  BY DEF TypeInv
<1> QED
  BY <1>1, <1>2, <1>3, PTL DEF Spec

----------------------------------------------------------------------------
(* Frames that must survive an interrupt do.                               *)

Survive == NonInterruptibleSurvives

\* No step loses an accepted non-interruptible frame.
LEMMA SurviveNext == TypeInv /\ Survive /\ [Next]_vars => Survive'
<1> SUFFICES ASSUME TypeInv, Survive, [Next]_vars, ~ctxDone',
                    NEW f \in Elems(arrived'), ~IsInterruptible(f)
             PROVE  f \in (Held \cup Elems(begun))'
  BY DEF Survive, NonInterruptibleSurvives
<1> USE DEF TypeInv, TypeOK, HandInv, queues, ctxVars, inVars, loopVars, wgVars
<1>0. ASSUME arrived' = arrived, ctxDone' = ctxDone
      PROVE  f \in Held \cup Elems(begun) /\ f \in Frame
  BY <1>0, ElemsType DEF Survive, NonInterruptibleSurvives
<1> USE DEF Held
<1>1. CASE Start
  BY <1>0, <1>1 DEF Start
<1>2. CASE Stop
  BY <1>2 DEF Stop
<1>3. CASE TaskCancel
  BY <1>3 DEF TaskCancel
<1>4. ASSUME NEW s \in Sender, NEW x \in Frame, QueueFrame(s, x)
      PROVE  f \in (Held \cup Elems(begun))'
  BY <1>0, <1>4 DEF QueueFrame
<1>5. ASSUME NEW s \in Sender, Deliver(s)
      PROVE  f \in (Held \cup Elems(begun))'
  <2>1. sending[s] \in Frame
    BY <1>5 DEF Deliver
  <2>2. CASE IsSystem(sending[s])
    BY <1>0, <1>5, <2>2 DEF Deliver
  <2>3. CASE ~IsSystem(sending[s])
    <3>0. /\ dataCh' = Append(dataCh, sending[s])
          /\ arrived' = Append(arrived, sending[s])
      BY <1>5, <2>3 DEF Deliver
    <3>1. /\ Elems(dataCh') = Elems(dataCh) \cup {sending[s]}
          /\ Elems(arrived') = Elems(arrived) \cup {sending[s]}
      BY <2>1, <3>0, ElemsAppend
    <3>2. f \in Elems(arrived) => f \in Held \cup Elems(begun)
      BY <1>5 DEF Deliver, Survive, NonInterruptibleSurvives
    <3> QED BY <1>5, <3>1, <3>2 DEF Deliver
  <2> QED BY <2>2, <2>3
<1>6. ASSUME NEW s \in Sender, GiveUp(s)
      PROVE  f \in (Held \cup Elems(begun))'
  BY <1>0, <1>6 DEF GiveUp
<1>7. CASE InputExit
  BY <1>7 DEF InputExit
<1>8. CASE TakeSystem
  BY <1>0, <1>8 DEF TakeSystem
<1>9. CASE PriorityDefault
  BY <1>0, <1>9 DEF PriorityDefault
<1>10. CASE TakeData
  <2>1. Elems(dataCh) = Elems(dataCh') \cup {hand'}
    BY <1>10, ElemsHeadTail DEF TakeData
  <2> QED BY <1>0, <1>10, <2>1 DEF TakeData
<1>11. CASE Forward
  <2>1. Elems(procCh') = Elems(procCh) \cup {hand}
    BY <1>11, ElemsAppend DEF Forward
  <2> QED BY <1>0, <1>11, <2>1 DEF Forward
<1>12. CASE WaitDone
  BY <1>0, <1>12 DEF WaitDone
<1>13. CASE WaitTimeout
  BY <1>0, <1>13 DEF WaitTimeout
<1>14. CASE DrainOne
  <2>1. /\ Elems(procCh) = Elems(procCh') \cup {Head(procCh)}
        /\ Head(procCh) \in Frame
    BY <1>14, ElemsHeadTail DEF DrainOne
  <2>2. IF IsInterruptible(Head(procCh)) THEN keep' = keep
        ELSE Elems(keep') = Elems(keep) \cup {Head(procCh)}
    BY <1>14, <2>1, ElemsAppend DEF DrainOne
  <2>3. f = Head(procCh) => f \in Elems(keep')
    BY <2>2
  <2>4. Elems(keep) \subseteq Elems(keep')
    BY <2>2
  <2> QED BY <1>0, <1>14, <2>1, <2>3, <2>4 DEF DrainOne
<1>15. CASE StartProcessLoop
  BY <1>0, <1>15 DEF StartProcessLoop
<1>16. CASE PushBack
  <2>1. /\ Elems(keep) = Elems(keep') \cup {Head(keep)}
        /\ Head(keep) \in Frame
    BY <1>16, ElemsHeadTail DEF PushBack
  <2>2. Elems(procCh') = Elems(procCh) \cup {Head(keep)}
    BY <1>16, <2>1, ElemsAppend DEF PushBack
  <2> QED BY <1>0, <1>16, <2>1, <2>2 DEF PushBack
<1>17. CASE PushBackDone
  BY <1>0, <1>17 DEF PushBackDone
<1>18. CASE HandleSystem
  <2>1. Elems(begun') = Elems(begun) \cup {hand}
    BY <1>18, ElemsAppend DEF HandleSystem
  <2> QED BY <1>0, <1>18, <2>1 DEF HandleSystem
<1>19. ASSUME NEW g \in Loop, LoopTop(g)
       PROVE  f \in (Held \cup Elems(begun))'
  BY <1>0, <1>19 DEF LoopTop
<1>20. ASSUME NEW g \in Loop, LoopTake(g)
       PROVE  f \in (Held \cup Elems(begun))'
  <2>1. /\ Elems(procCh) = Elems(procCh') \cup {Head(procCh)}
        /\ Head(procCh) \in Frame
    BY <1>20, ElemsHeadTail DEF LoopTake
  <2>2. Elems(begun') = Elems(begun) \cup {Head(procCh)}
    BY <1>20, <2>1, ElemsAppend DEF LoopTake
  <2> QED BY <1>0, <1>20, <2>1, <2>2 DEF LoopTake
<1>21. ASSUME NEW g \in Loop, LoopExit(g)
       PROVE  f \in (Held \cup Elems(begun))'
  BY <1>0, <1>21 DEF LoopExit
<1>22. ASSUME NEW g \in Loop, LoopReturn(g)
       PROVE  f \in (Held \cup Elems(begun))'
  BY <1>0, <1>22 DEF LoopReturn
<1>23. ASSUME NEW g \in Loop, LoopReturnEnd(g)
       PROVE  f \in (Held \cup Elems(begun))'
  BY <1>23 DEF LoopReturnEnd
<1>24. ASSUME NEW i \in Interrupt, WaiterWait(i)
       PROVE  f \in (Held \cup Elems(begun))'
  BY <1>0, <1>24 DEF WaiterWait
<1>25. ASSUME NEW i \in Interrupt, WaiterReturn(i)
       PROVE  f \in (Held \cup Elems(begun))'
  BY <1>0, <1>25 DEF WaiterReturn
<1>26. CASE UNCHANGED vars
  BY <1>0, <1>26 DEF vars
<1> QED
  BY <1>1, <1>2, <1>3, <1>4, <1>5, <1>6, <1>7, <1>8, <1>9, <1>10, <1>11,
     <1>12, <1>13, <1>14, <1>15, <1>16, <1>17, <1>18, <1>19, <1>20, <1>21,
     <1>22, <1>23, <1>24, <1>25, <1>26 DEF Next, InputLoop, ProcessLoop

\* An EndFrame or FunctionCall frame accepted by QueueFrame is never lost to an
\* interrupt, for any frames, senders, capacities and handlers, with or without
\* the bounded wait timing out.
THEOREM Survival == Spec => []NonInterruptibleSurvives
<1>1. Init => TypeInv /\ Survive
  BY TypeInit DEF Init, Survive, NonInterruptibleSurvives, Elems
<1>2. TypeInv /\ Survive /\ [Next]_vars => TypeInv' /\ Survive'
  BY TypeNext, SurviveNext
<1>3. Survive => NonInterruptibleSurvives
  BY DEF Survive
<1> QED
  BY <1>1, <1>2, <1>3, PTL DEF Spec

----------------------------------------------------------------------------
(* The cancel-and-recreate protocol serialises handlers.                   *)

\* While inputLoop waits, its waiter has been woken only after procWG reached
\* zero; once it has returned no processLoop is live, and none can start until
\* inputLoop itself starts one.
NoLive == \A g \in Loop : ~Live(g)

SerialInv ==
    ~timedOut =>
      /\ ~panicked
      /\ \A g \in Loop : Live(g) => g = cur
      /\ ~started => NoLive /\ cur = FirstLoop
      /\ inPC = "wait" /\ waiter[hand] \in {"woken", "returned"} => NoLive
      /\ inPC = "drain" => NoLive
      /\ \A i \in Interrupt :
            waiter[i] \in {"spawned", "waiting", "woken"} =>
                inPC = "wait" /\ i = hand

\* The history variable timedOut is never reset.
LEMMA TimedOutStays == [Next]_vars /\ timedOut => timedOut'
BY DEF Next, vars, wgVars, Start, Stop, TaskCancel, QueueFrame, Deliver, GiveUp,
       InputLoop, InputExit, TakeSystem, PriorityDefault, TakeData, Forward,
       WaitDone, WaitTimeout, DrainOne, StartProcessLoop, PushBack,
       PushBackDone, HandleSystem, ProcessLoop, LoopTop, LoopTake, LoopExit,
       LoopReturn, LoopReturnEnd, WaiterWait, WaiterReturn

\* Every step preserves the serialisation invariant.
LEMMA SerialNext == TypeInv /\ SerialInv /\ [Next]_vars => SerialInv'
<1> SUFFICES ASSUME TypeInv, SerialInv, [Next]_vars, ~timedOut
             PROVE  SerialInv'
  BY TimedOutStays DEF SerialInv
<1> USE DEF TypeInv, TypeOK, HandInv, queues, ctxVars, inVars, loopVars,
            wgVars, SerialInv, NoLive, Live
<1>0. FirstLoop \in Loop /\ \A i \in Interrupt : i \in Loop /\ i \in Frame
  BY DEF Loop, Interrupt
<1>1. CASE Start
  <2>1. inPC = "unstarted" /\ NoLive
    BY <1>1 DEF Start
  <2>2. \A i \in Interrupt : waiter'[i] \notin {"spawned", "waiting", "woken"}
    BY <1>1, <2>1 DEF Start
  <2>3. \A g \in Loop : Live(g)' => g = FirstLoop
    BY <1>1, <2>1 DEF Start
  <2>4. cur' = FirstLoop
    BY <1>1 DEF Start
  <2> QED BY <1>1, <2>1, <2>2, <2>3, <2>4 DEF Start
<1>2. CASE Stop
  BY <1>2 DEF Stop
<1>3. CASE TaskCancel
  BY <1>3 DEF TaskCancel
<1>4. ASSUME NEW s \in Sender, NEW f \in Frame, QueueFrame(s, f)
      PROVE  SerialInv'
  BY <1>4 DEF QueueFrame
<1>5. ASSUME NEW s \in Sender, Deliver(s) PROVE SerialInv'
  BY <1>5 DEF Deliver
<1>6. ASSUME NEW s \in Sender, GiveUp(s) PROVE SerialInv'
  BY <1>6 DEF GiveUp
<1>7. CASE InputExit
  BY <1>7 DEF InputExit
<1>8. CASE TakeSystem
  BY <1>8 DEF TakeSystem
<1>9. CASE PriorityDefault
  BY <1>9 DEF PriorityDefault
<1>10. CASE TakeData
  BY <1>10 DEF TakeData
<1>11. CASE Forward
  BY <1>11 DEF Forward
<1>12. CASE WaitDone
  BY <1>12 DEF WaitDone
<1>13. CASE WaitTimeout
  BY <1>13 DEF WaitTimeout
<1>14. CASE DrainOne
  BY <1>14 DEF DrainOne
<1>15. CASE StartProcessLoop
  BY <1>0, <1>15 DEF StartProcessLoop
<1>16. CASE PushBack
  BY <1>16 DEF PushBack
<1>17. CASE PushBackDone
  BY <1>17 DEF PushBackDone
<1>18. CASE HandleSystem
  BY <1>18 DEF HandleSystem
<1>19. ASSUME NEW g \in Loop, LoopTop(g) PROVE SerialInv'
  BY <1>19 DEF LoopTop
<1>20. ASSUME NEW g \in Loop, LoopTake(g) PROVE SerialInv'
  BY <1>20 DEF LoopTake
<1>21. ASSUME NEW g \in Loop, LoopExit(g) PROVE SerialInv'
  BY <1>21 DEF LoopExit, WakeWaiters
<1>22. ASSUME NEW g \in Loop, LoopReturn(g) PROVE SerialInv'
  BY <1>22 DEF LoopReturn
<1>23. ASSUME NEW g \in Loop, LoopReturnEnd(g) PROVE SerialInv'
  BY <1>23 DEF LoopReturnEnd, WakeWaiters
<1>24. ASSUME NEW i \in Interrupt, WaiterWait(i) PROVE SerialInv'
  BY <1>24 DEF WaiterWait
<1>25. ASSUME NEW i \in Interrupt, WaiterReturn(i) PROVE SerialInv'
  BY <1>25 DEF WaiterReturn
<1>26. CASE UNCHANGED vars
  BY <1>26 DEF vars
<1> QED
  BY <1>1, <1>2, <1>3, <1>4, <1>5, <1>6, <1>7, <1>8, <1>9, <1>10, <1>11,
     <1>12, <1>13, <1>14, <1>15, <1>16, <1>17, <1>18, <1>19, <1>20, <1>21,
     <1>22, <1>23, <1>24, <1>25, <1>26 DEF Next, InputLoop, ProcessLoop

\* If handlers honour their context, two processLoops of one processor never
\* coexist and sync.WaitGroup's reuse panic is unreachable.
THEOREM Serialisation == Spec => []SerialHandlers
<1>1. Init => TypeInv /\ SerialInv
  BY TypeInit DEF Init, SerialInv, NoLive, Live
<1>2. TypeInv /\ SerialInv /\ [Next]_vars => TypeInv' /\ SerialInv'
  BY TypeNext, SerialNext
<1>3. SerialInv => SerialHandlers
  BY DEF SerialInv, SerialHandlers
<1> QED
  BY <1>1, <1>2, <1>3, PTL DEF Spec
----------------------------------------------------------------------------
(* What the interrupt leaves behind, and that the push-back cannot block.  *)

PurgeInv ==
    /\ \A f \in Elems(keep) : ~IsInterruptible(f)
    /\ inPC \in {"pushback", "handle"} /\ hand \in Interrupt =>
          /\ \A f \in Elems(procCh) : ~IsInterruptible(f)
          /\ ~timedOut => \A g \in Loop : loop[g] = "busy" =>
                                              ~IsInterruptible(inFlight[g])

\* Every step preserves the purge invariant.
LEMMA PurgeNext ==
    TypeInv /\ SerialInv /\ PurgeInv /\ [Next]_vars => PurgeInv'
<1> SUFFICES ASSUME TypeInv, SerialInv, PurgeInv, [Next]_vars
             PROVE  PurgeInv'
  OBVIOUS
<1> USE DEF TypeInv, TypeOK, HandInv, queues, ctxVars, inVars, loopVars,
            wgVars, PurgeInv
<1>1. CASE Start
  BY <1>1 DEF Start
<1>2. CASE Stop
  BY <1>2 DEF Stop
<1>3. CASE TaskCancel
  BY <1>3 DEF TaskCancel
<1>4. ASSUME NEW s \in Sender, NEW f \in Frame, QueueFrame(s, f)
      PROVE  PurgeInv'
  BY <1>4 DEF QueueFrame
<1>5. ASSUME NEW s \in Sender, Deliver(s) PROVE PurgeInv'
  BY <1>5 DEF Deliver
<1>6. ASSUME NEW s \in Sender, GiveUp(s) PROVE PurgeInv'
  BY <1>6 DEF GiveUp
<1>7. CASE InputExit
  BY <1>7 DEF InputExit
<1>8. CASE TakeSystem
  BY <1>8 DEF TakeSystem
<1>9. CASE PriorityDefault
  BY <1>9 DEF PriorityDefault
<1>10. CASE TakeData
  BY <1>10 DEF TakeData
<1>11. CASE Forward
  BY <1>11 DEF Forward
<1>12. CASE WaitDone
  BY <1>12 DEF WaitDone
<1>13. CASE WaitTimeout
  BY <1>13 DEF WaitTimeout
<1>14. CASE DrainOne
  <2>1. Head(procCh) \in Frame
    BY <1>14, ElemsHeadTail DEF DrainOne
  <2>2. \A f \in Elems(keep') : ~IsInterruptible(f)
    <3>1. CASE IsInterruptible(Head(procCh))
      BY <1>14, <3>1 DEF DrainOne
    <3>2. CASE ~IsInterruptible(Head(procCh))
      <4>1. Elems(keep') = Elems(keep) \cup {Head(procCh)}
        BY <1>14, <2>1, <3>2, ElemsAppend DEF DrainOne
      <4> QED BY <3>2, <4>1
    <3> QED BY <3>1, <3>2
  <2> QED BY <1>14, <2>2 DEF DrainOne
<1>15. CASE StartProcessLoop
  <2>1. \A f \in Elems(procCh') : ~IsInterruptible(f)
    BY <1>15 DEF StartProcessLoop, Elems
  <2>2. ~timedOut => \A g \in Loop : loop'[g] # "busy"
    BY <1>15 DEF StartProcessLoop, SerialInv, NoLive, Live
  <2> QED BY <1>15, <2>1, <2>2 DEF StartProcessLoop
<1>16. CASE PushBack
  <2>1. /\ Elems(keep) = Elems(keep') \cup {Head(keep)}
        /\ Head(keep) \in Frame
    BY <1>16, ElemsHeadTail DEF PushBack
  <2>2. Elems(procCh') = Elems(procCh) \cup {Head(keep)}
    BY <1>16, <2>1, ElemsAppend DEF PushBack
  <2> QED BY <1>16, <2>1, <2>2 DEF PushBack
<1>17. CASE PushBackDone
  <2>1. Elems(keep') = {}
    BY <1>17 DEF PushBackDone, Elems
  <2> QED BY <1>17, <2>1 DEF PushBackDone
<1>18. CASE HandleSystem
  BY <1>18 DEF HandleSystem
<1>19. ASSUME NEW g \in Loop, LoopTop(g) PROVE PurgeInv'
  BY <1>19 DEF LoopTop
<1>20. ASSUME NEW g \in Loop, LoopTake(g) PROVE PurgeInv'
  <2>1. Elems(procCh) = Elems(procCh') \cup {Head(procCh)}
    BY <1>20, ElemsHeadTail DEF LoopTake
  <2> QED BY <1>20, <2>1 DEF LoopTake
<1>21. ASSUME NEW g \in Loop, LoopExit(g) PROVE PurgeInv'
  BY <1>21 DEF LoopExit
<1>22. ASSUME NEW g \in Loop, LoopReturn(g) PROVE PurgeInv'
  BY <1>22 DEF LoopReturn
<1>23. ASSUME NEW g \in Loop, LoopReturnEnd(g) PROVE PurgeInv'
  BY <1>23 DEF LoopReturnEnd
<1>24. ASSUME NEW i \in Interrupt, WaiterWait(i) PROVE PurgeInv'
  BY <1>24 DEF WaiterWait
<1>25. ASSUME NEW i \in Interrupt, WaiterReturn(i) PROVE PurgeInv'
  BY <1>25 DEF WaiterReturn
<1>26. CASE UNCHANGED vars
  BY <1>26 DEF vars
<1> QED
  BY <1>1, <1>2, <1>3, <1>4, <1>5, <1>6, <1>7, <1>8, <1>9, <1>10, <1>11,
     <1>12, <1>13, <1>14, <1>15, <1>16, <1>17, <1>18, <1>19, <1>20, <1>21,
     <1>22, <1>23, <1>24, <1>25, <1>26 DEF Next, InputLoop, ProcessLoop

\* When the InterruptFrame handler runs, nothing the interrupt should have
\* purged is left in procCh or in a handler that honours its context.
THEOREM Purging == Spec => []InterruptPurges
<1>1. Init => TypeInv /\ SerialInv /\ PurgeInv
  BY TypeInit DEF Init, SerialInv, NoLive, Live, PurgeInv, Elems
<1>2. TypeInv /\ SerialInv /\ PurgeInv /\ [Next]_vars
        => TypeInv' /\ SerialInv' /\ PurgeInv'
  BY TypeNext, SerialNext, PurgeNext
<1>3. PurgeInv => InterruptPurges
  BY DEF PurgeInv, InterruptPurges
<1> QED
  BY <1>1, <1>2, <1>3, PTL DEF Spec

FitsInv ==
    /\ Len(procCh) <= ProcCap
    /\ inPC \in {"drain", "pushback"} => Len(procCh) + Len(keep) <= ProcCap

\* Every step keeps the purge's total within the capacity of procCh.
LEMMA FitsNext == TypeInv /\ FitsInv /\ [Next]_vars => FitsInv'
<1> SUFFICES ASSUME TypeInv, FitsInv, [Next]_vars
             PROVE  FitsInv'
  OBVIOUS
<1> USE DEF TypeInv, TypeOK, HandInv, queues, ctxVars, inVars, loopVars,
            wgVars, FitsInv
<1>1. CASE Start
  BY <1>1 DEF Start
<1>2. CASE Stop
  BY <1>2 DEF Stop
<1>3. CASE TaskCancel
  BY <1>3 DEF TaskCancel
<1>4. ASSUME NEW s \in Sender, NEW f \in Frame, QueueFrame(s, f)
      PROVE  FitsInv'
  BY <1>4 DEF QueueFrame
<1>5. ASSUME NEW s \in Sender, Deliver(s) PROVE FitsInv'
  BY <1>5 DEF Deliver
<1>6. ASSUME NEW s \in Sender, GiveUp(s) PROVE FitsInv'
  BY <1>6 DEF GiveUp
<1>7. CASE InputExit
  BY <1>7 DEF InputExit
<1>8. CASE TakeSystem
  <2>1. Tail(sysCh) \in Seq(Frame)
    BY <1>8, ElemsHeadTail DEF TakeSystem
  <2> QED BY <1>8, <2>1 DEF TakeSystem
<1>9. CASE PriorityDefault
  BY <1>9 DEF PriorityDefault
<1>10. CASE TakeData
  BY <1>10 DEF TakeData
<1>11. CASE Forward
  <2>1. Len(procCh') = Len(procCh) + 1
    BY <1>11 DEF Forward
  <2> QED BY <1>11, <2>1 DEF Forward
<1>12. CASE WaitDone
  BY <1>12 DEF WaitDone
<1>13. CASE WaitTimeout
  BY <1>13 DEF WaitTimeout
<1>14. CASE DrainOne
  <2>1. Head(procCh) \in Frame /\ Len(procCh') = Len(procCh) - 1
    BY <1>14, ElemsHeadTail DEF DrainOne
  <2>2. Len(keep') <= Len(keep) + 1 /\ Len(keep') \in Nat
    BY <1>14, <2>1 DEF DrainOne
  <2> QED BY <1>14, <2>1, <2>2 DEF DrainOne
<1>15. CASE StartProcessLoop
  BY <1>15 DEF StartProcessLoop
<1>16. CASE PushBack
  <2>1. Head(keep) \in Frame /\ Len(keep') = Len(keep) - 1
    BY <1>16, ElemsHeadTail DEF PushBack
  <2>2. Len(procCh') = Len(procCh) + 1
    BY <1>16, <2>1 DEF PushBack
  <2> QED BY <1>16, <2>1, <2>2 DEF PushBack
<1>17. CASE PushBackDone
  BY <1>17 DEF PushBackDone
<1>18. CASE HandleSystem
  BY <1>18 DEF HandleSystem
<1>19. ASSUME NEW g \in Loop, LoopTop(g) PROVE FitsInv'
  BY <1>19 DEF LoopTop
<1>20. ASSUME NEW g \in Loop, LoopTake(g) PROVE FitsInv'
  <2>1. Len(procCh') = Len(procCh) - 1 /\ procCh' \in Seq(Frame)
    BY <1>20, ElemsHeadTail DEF LoopTake
  <2> QED BY <1>20, <2>1 DEF LoopTake
<1>21. ASSUME NEW g \in Loop, LoopExit(g) PROVE FitsInv'
  BY <1>21 DEF LoopExit
<1>22. ASSUME NEW g \in Loop, LoopReturn(g) PROVE FitsInv'
  BY <1>22 DEF LoopReturn
<1>23. ASSUME NEW g \in Loop, LoopReturnEnd(g) PROVE FitsInv'
  BY <1>23 DEF LoopReturnEnd
<1>24. ASSUME NEW i \in Interrupt, WaiterWait(i) PROVE FitsInv'
  BY <1>24 DEF WaiterWait
<1>25. ASSUME NEW i \in Interrupt, WaiterReturn(i) PROVE FitsInv'
  BY <1>25 DEF WaiterReturn
<1>26. CASE UNCHANGED vars
  BY <1>26 DEF vars
<1> QED
  BY <1>1, <1>2, <1>3, <1>4, <1>5, <1>6, <1>7, <1>8, <1>9, <1>10, <1>11,
     <1>12, <1>13, <1>14, <1>15, <1>16, <1>17, <1>18, <1>19, <1>20, <1>21,
     <1>22, <1>23, <1>24, <1>25, <1>26 DEF Next, InputLoop, ProcessLoop

\* inputLoop is never blocked by its own push-back, whatever the capacity.
THEOREM PushBackNeverBlocks == Spec => []PushBackFits
<1>1. Init => TypeInv /\ FitsInv
  BY TypeInit DEF Init, FitsInv
<1>2. TypeInv /\ FitsInv /\ [Next]_vars => TypeInv' /\ FitsInv'
  BY TypeNext, FitsNext
<1>3. FitsInv => PushBackFits
  BY DEF FitsInv, PushBackFits
<1> QED
  BY <1>1, <1>2, <1>3, PTL DEF Spec

----------------------------------------------------------------------------
(* Which processLoop may take a frame.                                     *)

\* A loop that is not cancelled is the current one; an interrupt has cancelled
\* that one too, and during the purge nobody is at the select that receives from
\* procCh, whether or not procLoopExitTimeout fired.
TakeInv ==
    /\ \A g \in Loop : Live(g) => g = cur \/ g \in cancelled
    /\ ~started => NoLive /\ cur = FirstLoop
    /\ inPC \in {"wait", "drain"} => cur \in cancelled
    /\ inPC = "wait" /\ waiter[hand] \in {"woken", "returned"} => NoLive
    /\ inPC = "drain" => \A g \in Loop : loop[g] # "select"

\* Every step preserves TakeInv.
LEMMA TakeNext == TypeInv /\ TakeInv /\ [Next]_vars => TakeInv'
<1> SUFFICES ASSUME TypeInv, TakeInv, [Next]_vars PROVE TakeInv'
  OBVIOUS
<1> USE DEF TypeInv, TypeOK, HandInv, queues, ctxVars, inVars, loopVars,
            wgVars, TakeInv, NoLive, Live
<1>0. FirstLoop \in Loop /\ \A i \in Interrupt : i \in Loop /\ i \in Frame
  BY DEF Loop, Interrupt
<1>1. CASE Start
  BY <1>0, <1>1 DEF Start
<1>2. CASE Stop \/ TaskCancel \/ UNCHANGED vars
  BY <1>2 DEF Stop, TaskCancel, vars
<1>3. CASE \E s \in Sender : Deliver(s) \/ GiveUp(s) \/ \E f \in Frame : QueueFrame(s, f)
  BY <1>3 DEF QueueFrame, Deliver, GiveUp
<1>4. CASE InputExit \/ PriorityDefault \/ TakeData \/ Forward
  BY <1>4 DEF InputExit, PriorityDefault, TakeData, Forward
<1>5. CASE TakeSystem
  <2>1. CASE Head(sysCh) \in Interrupt
    <3>1. /\ cancelled' = cancelled \cup {cur} /\ inPC' = "wait"
          /\ hand' = Head(sysCh) /\ waiter' = [waiter EXCEPT ![hand'] = "spawned"]
          /\ UNCHANGED <<loop, cur, started>> /\ started
      BY <1>5, <2>1 DEF TakeSystem
    <3>2. waiter'[hand'] = "spawned"
      BY <2>1, <3>1
    <3> QED BY <3>1, <3>2
  <2>2. CASE Head(sysCh) \notin Interrupt
    BY <1>5, <2>2 DEF TakeSystem
  <2> QED BY <2>1, <2>2
<1>6. CASE WaitDone
  BY <1>6 DEF WaitDone
<1>7. CASE WaitTimeout
  BY <1>7 DEF WaitTimeout
<1>8. CASE DrainOne \/ PushBack \/ PushBackDone \/ HandleSystem
  BY <1>8 DEF DrainOne, PushBack, PushBackDone, HandleSystem
<1>9. CASE StartProcessLoop
  BY <1>0, <1>9 DEF StartProcessLoop
<1>10. ASSUME NEW g \in Loop, LoopTop(g) PROVE TakeInv'
  <2>1. Live(g) /\ g \notin cancelled
    BY <1>10 DEF LoopTop, ProcCtxDone
  <2>2. inPC \notin {"wait", "drain"}
    BY <2>1
  <2> QED BY <1>10, <2>1, <2>2 DEF LoopTop
<1>11. ASSUME NEW g \in Loop, LoopTake(g) PROVE TakeInv'
  BY <1>11 DEF LoopTake
<1>12. ASSUME NEW g \in Loop, LoopExit(g) PROVE TakeInv'
  BY <1>12 DEF LoopExit, WakeWaiters
<1>13. ASSUME NEW g \in Loop, LoopReturn(g) PROVE TakeInv'
  BY <1>13 DEF LoopReturn
<1>14. ASSUME NEW g \in Loop, LoopReturnEnd(g) PROVE TakeInv'
  BY <1>14 DEF LoopReturnEnd, WakeWaiters
<1>15. ASSUME NEW i \in Interrupt, WaiterWait(i) PROVE TakeInv'
  BY <1>15 DEF WaiterWait
<1>16. ASSUME NEW i \in Interrupt, WaiterReturn(i) PROVE TakeInv'
  BY <1>16 DEF WaiterReturn
<1> QED
  BY <1>1, <1>2, <1>3, <1>4, <1>5, <1>6, <1>7, <1>8, <1>9, <1>10, <1>11,
     <1>12, <1>13, <1>14, <1>15, <1>16 DEF Next, InputLoop, ProcessLoop

----------------------------------------------------------------------------
(* Frames are told apart, and channels carry the frames meant for them.    *)

\* Each frame enters inputDataCh at most once, and system frames go past it.
OnceInv ==
    /\ \A m, n \in DOMAIN arrived : arrived[m] = arrived[n] => m = n
    /\ \A s, t \in Sender : sending[s] # NoFrame /\ sending[s] = sending[t] => s = t
    /\ \A s \in Sender : sending[s] # NoFrame => sending[s] \notin Elems(arrived)
    /\ \A f \in Elems(arrived) : ~IsSystem(f)
    /\ \A f \in Elems(sysCh) : IsSystem(f)
    /\ inPC = "handle" => IsSystem(hand)

\* A frame that was not sent before enters inputDataCh: QueueFrame and Deliver.
LEMMA OnceDeliver ==
    ASSUME TypeInv, OnceInv, NEW s \in Sender, Deliver(s)
    PROVE  OnceInv'
<1> USE DEF TypeInv, TypeOK, HandInv, queues, ctxVars, inVars, loopVars, wgVars
<1> DEFINE x == sending[s]
<1>0. x \in Frame /\ sending' = [sending EXCEPT ![s] = NoFrame]
      /\ UNCHANGED <<inPC, hand>>
  BY DEF Deliver
<1>1. \A t \in Sender : sending'[t] # NoFrame => t # s /\ sending'[t] = sending[t]
  BY <1>0
<1>2. \A t \in Sender : t # s /\ sending[t] # NoFrame => sending[t] # x
  BY <1>0 DEF OnceInv
<1>3. CASE IsSystem(x)
  <2>1. sysCh' = Append(sysCh, x) /\ UNCHANGED <<dataCh, arrived>>
    BY <1>3 DEF Deliver
  <2>2. Elems(sysCh') = Elems(sysCh) \cup {x}
    BY <1>0, <2>1, ElemsAppend
  <2> HIDE DEF x
  <2> QED BY <1>0, <1>1, <1>3, <2>1, <2>2 DEF OnceInv
<1>4. CASE ~IsSystem(x)
  <2>1. arrived' = Append(arrived, x) /\ sysCh' = sysCh
    BY <1>4 DEF Deliver
  <2>2. Elems(arrived') = Elems(arrived) \cup {x}
    BY <1>0, <2>1, ElemsAppend
  <2>3. x \notin Elems(arrived)
    BY <1>0 DEF OnceInv
  <2> HIDE DEF x
  <2>4. ASSUME NEW m \in DOMAIN arrived', NEW n \in DOMAIN arrived',
               arrived'[m] = arrived'[n]
        PROVE  m = n
    <3>1. /\ DOMAIN arrived' = 1..(Len(arrived) + 1) /\ DOMAIN arrived = 1..Len(arrived)
          /\ \A k \in 1..Len(arrived) : arrived'[k] = arrived[k]
          /\ arrived'[Len(arrived) + 1] = x /\ Len(arrived) \in Nat
      BY <1>0, <2>1
    <3>2. \A k \in 1..Len(arrived) : arrived[k] # x
      BY <2>3, <3>1 DEF Elems
    <3>3. m \in 1..Len(arrived) \/ m = Len(arrived) + 1
      BY <2>4, <3>1
    <3>4. n \in 1..Len(arrived) \/ n = Len(arrived) + 1
      BY <2>4, <3>1
    <3>5. \A j, k \in 1..Len(arrived) : arrived[j] = arrived[k] => j = k
      BY <3>1 DEF OnceInv
    <3> QED BY <2>4, <3>1, <3>2, <3>3, <3>4, <3>5, Zenon
  <2> QED BY <1>0, <1>1, <1>2, <1>4, <2>1, <2>2, <2>4 DEF OnceInv
<1> QED BY <1>3, <1>4

\* Every step preserves OnceInv.
LEMMA OnceNext == TypeInv /\ OnceInv /\ [Next]_vars => OnceInv'
<1> SUFFICES ASSUME TypeInv, OnceInv, [Next]_vars PROVE OnceInv'
  OBVIOUS
<1> USE DEF TypeInv, TypeOK, HandInv, queues, ctxVars, inVars, loopVars, wgVars
<1>1. ASSUME NEW s \in Sender, NEW f \in Frame, QueueFrame(s, f)
      PROVE  OnceInv'
  <2>1. f \notin Elems(arrived) /\ \A t \in Sender : sending[t] # f
    BY <1>1 DEF QueueFrame, Sent
  <2>2. /\ sending' = [sending EXCEPT ![s] = f]
        /\ UNCHANGED <<arrived, sysCh, inPC, hand>>
    BY <1>1 DEF QueueFrame
  <2> QED BY <2>1, <2>2 DEF OnceInv
<1>2. ASSUME NEW s \in Sender, Deliver(s) PROVE OnceInv'
  BY <1>2, OnceDeliver
<1>3. ASSUME NEW s \in Sender, GiveUp(s) PROVE OnceInv'
  BY <1>3 DEF GiveUp, OnceInv
<1>4. CASE TakeSystem
  <2>1. Elems(sysCh) = Elems(Tail(sysCh)) \cup {Head(sysCh)}
    BY <1>4, ElemsHeadTail DEF TakeSystem
  <2> QED BY <1>4, <2>1 DEF TakeSystem, OnceInv
<1>5. CASE \/ InputExit \/ PriorityDefault \/ TakeData \/ Forward \/ WaitDone
           \/ WaitTimeout \/ DrainOne \/ StartProcessLoop \/ PushBack \/ HandleSystem
  BY <1>5 DEF InputExit, PriorityDefault, TakeData, Forward, WaitDone,
     WaitTimeout, DrainOne, StartProcessLoop, PushBack, HandleSystem, OnceInv
<1>6. CASE PushBackDone
  <2>1. hand \in Interrupt
    BY <1>6 DEF PushBackDone
  <2>2. IsSystem(hand)
    BY <2>1 DEF Interrupt, IsSystem
  <2> QED BY <1>6, <2>2 DEF PushBackDone, OnceInv
<1>7. CASE Start \/ Stop \/ TaskCancel \/ UNCHANGED vars
  BY <1>7 DEF Start, Stop, TaskCancel, vars, OnceInv
<1>8. CASE \/ \E g \in Loop : ProcessLoop(g)
           \/ \E i \in Interrupt : WaiterWait(i) \/ WaiterReturn(i)
  <2>1. UNCHANGED <<arrived, sending, sysCh, inPC, hand>>
    BY <1>8 DEF ProcessLoop, LoopTop, LoopTake, LoopExit, LoopReturn,
                LoopReturnEnd, WaiterWait, WaiterReturn
  <2> QED BY <2>1 DEF OnceInv
<1> QED
  BY <1>1, <1>2, <1>3, <1>4, <1>5, <1>6, <1>7, <1>8 DEF Next, InputLoop

----------------------------------------------------------------------------
(* Order.                                                                  *)

\* In the sequence a, f comes before g.
Before(a, f, g) ==
    \E m, n \in DOMAIN a : m < n /\ a[m] = f /\ a[n] = g

\* Every frame of S comes before every frame of T; s is in the order of a.
Precede(a, S, T) == \A f \in S, g \in T : Before(a, f, g)
Ordered(a, s) == \A i, j \in DOMAIN s : i < j => Before(a, s[i], s[j])

\* The data frames among the frames of s are in the order of a.
DataOrdered(a, s) ==
    \A i, j \in DOMAIN s :
        i < j /\ ~IsSystem(s[i]) /\ ~IsSystem(s[j]) => Before(a, s[i], s[j])

\* A frame that arrives comes after all others and changes nothing among them.
LEMMA BeforeAppend ==
    ASSUME NEW S, NEW a \in Seq(S), NEW x \in S
    PROVE  /\ \A f, g : Before(a, f, g) => Before(Append(a, x), f, g)
           /\ \A f \in Elems(a) : Before(Append(a, x), f, x)
<1>1. /\ DOMAIN a = 1..Len(a) /\ DOMAIN Append(a, x) = 1..(Len(a) + 1)
      /\ \A k \in 1..Len(a) : Append(a, x)[k] = a[k]
      /\ Append(a, x)[Len(a) + 1] = x /\ Len(a) \in Nat
  OBVIOUS
<1>2. \A k \in 1..Len(a) : k \in 1..(Len(a) + 1) /\ k < Len(a) + 1
  BY <1>1
<1>3. Len(a) + 1 \in 1..(Len(a) + 1)
  BY <1>1
<1>4. ASSUME NEW f, NEW g, Before(a, f, g) PROVE Before(Append(a, x), f, g)
  BY <1>1, <1>2, <1>4, Zenon DEF Before
<1>5. ASSUME NEW f \in Elems(a) PROVE Before(Append(a, x), f, x)
  BY <1>1, <1>2, <1>3, <1>5, Zenon DEF Before, Elems
<1> QED BY <1>4, <1>5

\* Sending a frame that comes after those in the channel keeps it in order.
LEMMA OrderedAppend ==
    ASSUME NEW S, NEW s \in Seq(S), NEW x \in S, NEW a,
           Ordered(a, s), Precede(a, Elems(s), {x})
    PROVE  Ordered(a, Append(s, x))
<1>1. /\ DOMAIN s = 1..Len(s) /\ DOMAIN Append(s, x) = 1..(Len(s) + 1)
      /\ \A k \in 1..Len(s) : Append(s, x)[k] = s[k]
      /\ Append(s, x)[Len(s) + 1] = x /\ Len(s) \in Nat
  OBVIOUS
<1>2. SUFFICES ASSUME NEW i \in 1..(Len(s) + 1), NEW j \in 1..(Len(s) + 1), i < j
               PROVE  Before(a, Append(s, x)[i], Append(s, x)[j])
  BY <1>1 DEF Ordered
<1>3. i \in 1..Len(s) /\ (j \in 1..Len(s) \/ j = Len(s) + 1)
  BY <1>1, <1>2
<1>4. s[i] \in Elems(s)
  BY <1>1, <1>3 DEF Elems
<1>5. CASE j \in 1..Len(s)
  BY <1>1, <1>2, <1>3, <1>5, Zenon DEF Ordered
<1>6. CASE j = Len(s) + 1
  BY <1>1, <1>3, <1>4, <1>6, Zenon DEF Precede
<1> QED BY <1>3, <1>5, <1>6

\* The frame received from a channel in order comes before those left in it.
LEMMA OrderedTail ==
    ASSUME NEW S, NEW s \in Seq(S), s # <<>>, NEW a, Ordered(a, s)
    PROVE  /\ Ordered(a, Tail(s))
           /\ Precede(a, {Head(s)}, Elems(Tail(s)))
<1>1. /\ Head(s) = s[1] /\ Len(s) \in Nat /\ Len(s) # 0
      /\ Tail(s) \in Seq(S) /\ Len(Tail(s)) = Len(s) - 1
  BY ElemsHeadTail
<1>2. /\ DOMAIN s = 1..Len(s) /\ DOMAIN Tail(s) = 1..(Len(s) - 1)
      /\ \A k \in 1..(Len(s) - 1) : Tail(s)[k] = s[k + 1]
  BY <1>1
<1>3. \A k \in 1..(Len(s) - 1) : k + 1 \in 1..Len(s) /\ 1 \in 1..Len(s) /\ 1 < k + 1
  BY <1>1
<1>4. \A i, j \in 1..(Len(s) - 1) : i < j => i + 1 < j + 1
  BY <1>1
<1>5. Ordered(a, Tail(s))
  BY <1>2, <1>3, <1>4, Zenon DEF Ordered
<1>6. Precede(a, {Head(s)}, Elems(Tail(s)))
  <2> SUFFICES ASSUME NEW k \in 1..(Len(s) - 1)
               PROVE  Before(a, s[1], Tail(s)[k])
    BY <1>1, <1>2, Zenon DEF Precede, Elems
  <2> QED BY <1>2, <1>3, Zenon DEF Ordered
<1> QED BY <1>5, <1>6

\* ProcessFrame is called on a system frame, or on a data frame that comes after
\* those before it.
LEMMA DataAppend ==
    ASSUME NEW s \in Seq(Frame), NEW x \in Frame, NEW a, DataOrdered(a, s),
           IsSystem(x) \/ Precede(a, DataFrames(s), {x})
    PROVE  /\ DataOrdered(a, Append(s, x))
           /\ DataFrames(Append(s, x)) = DataFrames(s) \cup (IF IsSystem(x) THEN {} ELSE {x})
<1>1. /\ DOMAIN s = 1..Len(s) /\ DOMAIN Append(s, x) = 1..(Len(s) + 1)
      /\ \A k \in 1..Len(s) : Append(s, x)[k] = s[k]
      /\ Append(s, x)[Len(s) + 1] = x /\ Len(s) \in Nat
  OBVIOUS
<1>2. DataFrames(Append(s, x)) = DataFrames(s) \cup (IF IsSystem(x) THEN {} ELSE {x})
  <2>1. Elems(Append(s, x)) = Elems(s) \cup {x}
    BY ElemsAppend
  <2> QED BY <2>1 DEF DataFrames
<1>3. ASSUME NEW i \in 1..(Len(s) + 1), NEW j \in 1..(Len(s) + 1), i < j,
             ~IsSystem(Append(s, x)[i]), ~IsSystem(Append(s, x)[j])
      PROVE  Before(a, Append(s, x)[i], Append(s, x)[j])
  <2>1. i \in 1..Len(s) /\ (j \in 1..Len(s) \/ j = Len(s) + 1)
    BY <1>1, <1>3
  <2>2. s[i] \in Elems(s) /\ Append(s, x)[i] = s[i]
    BY <1>1, <2>1 DEF Elems
  <2>3. CASE j \in 1..Len(s)
    BY <1>1, <1>3, <2>1, <2>2, <2>3, Zenon DEF DataOrdered
  <2>4. CASE j = Len(s) + 1
    <3>1. s[i] \in DataFrames(s) /\ Append(s, x)[j] = x /\ ~IsSystem(x)
      BY <1>1, <1>3, <2>2, <2>4, Zenon DEF DataFrames
    <3> QED BY <2>2, <3>1, Zenon DEF Precede
  <2> QED BY <2>1, <2>3, <2>4
<1>4. DataOrdered(a, Append(s, x))
  BY <1>1, <1>3 DEF DataOrdered
<1> QED BY <1>2, <1>4

InHand == IF inPC = "forward" THEN {hand} ELSE {}

\* From ProcessFrame back to inputDataCh the frames stand in the order of their
\* arrival.  The frames the purge has kept come before the rest of procCh while it
\* is being drained and after what was pushed back afterwards.
OrderInv ==
    /\ DataFrames(begun) \cup Elems(procCh) \cup Elems(keep) \cup InHand
         \cup Elems(dataCh) \subseteq Elems(arrived)
    /\ Precede(arrived, DataFrames(begun), Elems(procCh) \cup Elems(keep))
    /\ Precede(arrived, DataFrames(begun) \cup Elems(procCh) \cup Elems(keep),
               InHand \cup Elems(dataCh))
    /\ Precede(arrived, InHand, Elems(dataCh))
    /\ inPC = "drain" => Precede(arrived, Elems(keep), Elems(procCh))
    /\ inPC = "pushback" => Precede(arrived, Elems(procCh), Elems(keep))
    /\ Ordered(arrived, procCh)
    /\ Ordered(arrived, keep)
    /\ Ordered(arrived, dataCh)
    /\ DataOrdered(arrived, begun)

\* A data frame enters inputDataCh behind all others (Deliver).
LEMMA OrderDeliver ==
    ASSUME TypeInv, OrderInv, NEW s \in Sender, Deliver(s)
    PROVE  OrderInv'
<1> USE DEF TypeInv, TypeOK, queues, ctxVars, inVars, loopVars, wgVars
<1> DEFINE x == sending[s]
<1>0. x \in Frame /\ UNCHANGED <<procCh, keep, hand, inPC, begun>>
  BY DEF Deliver
<1>1. InHand' = InHand
  BY <1>0 DEF InHand
<1>2. CASE IsSystem(x)
  <2>1. UNCHANGED <<dataCh, arrived>>
    BY <1>2 DEF Deliver
  <2> QED BY <1>0, <1>1, <2>1, Zenon DEF OrderInv
<1>3. CASE ~IsSystem(x)
  <2>1. arrived' = Append(arrived, x) /\ dataCh' = Append(dataCh, x)
    BY <1>3 DEF Deliver
  <2> HIDE DEF x
  <2>2. /\ Elems(arrived') = Elems(arrived) \cup {x}
        /\ Elems(dataCh') = Elems(dataCh) \cup {x}
    BY <1>0, <2>1, ElemsAppend
  <2>3. /\ \A f, g : Before(arrived, f, g) => Before(arrived', f, g)
        /\ \A f \in Elems(arrived) : Before(arrived', f, x)
    BY <1>0, <2>1, BeforeAppend
  <2>4. /\ Ordered(arrived', procCh) /\ Ordered(arrived', keep)
        /\ Ordered(arrived', dataCh) /\ DataOrdered(arrived', begun)
    BY <2>3 DEF OrderInv, Ordered, DataOrdered
  <2>5. \A S, T : Precede(arrived, S, T) => Precede(arrived', S, T)
    BY <2>3 DEF Precede
  <2>6. \A S : S \subseteq Elems(arrived) => Precede(arrived', S, {x})
    BY <2>3 DEF Precede
  <2>7. Ordered(arrived', dataCh')
    <3>1. Precede(arrived', Elems(dataCh), {x})
      BY <2>6 DEF OrderInv
    <3> QED BY <1>0, <2>1, <2>4, <3>1, OrderedAppend
  <2>8. /\ Precede(arrived', DataFrames(begun) \cup Elems(procCh) \cup Elems(keep),
                   InHand \cup Elems(dataCh'))
        /\ Precede(arrived', InHand, Elems(dataCh'))
    BY <2>2, <2>3 DEF OrderInv, Precede
  <2>9. /\ Precede(arrived', DataFrames(begun), Elems(procCh) \cup Elems(keep))
        /\ inPC = "drain" => Precede(arrived', Elems(keep), Elems(procCh))
        /\ inPC = "pushback" => Precede(arrived', Elems(procCh), Elems(keep))
    BY <2>5 DEF OrderInv
  <2>10. DataFrames(begun) \cup Elems(procCh) \cup Elems(keep) \cup InHand
           \cup Elems(dataCh') \subseteq Elems(arrived')
    BY <2>2 DEF OrderInv
  <2> QED BY <1>0, <1>1, <2>4, <2>7, <2>8, <2>9, <2>10, Zenon DEF OrderInv
<1> QED BY <1>2, <1>3

\* Every step of inputLoop preserves OrderInv: each moves the first frame of one
\* place to the end of the next, or drops frames.
LEMMA OrderInput ==
    TypeInv /\ OnceInv /\ OrderInv /\ InputLoop => OrderInv'
<1> SUFFICES ASSUME TypeInv, OnceInv, OrderInv, InputLoop PROVE OrderInv'
  OBVIOUS
<1> USE DEF TypeInv, TypeOK, HandInv, queues, ctxVars, inVars, loopVars, wgVars
<1>0. Elems(<<>>) = {} /\ \A a : Ordered(a, <<>>)
  BY DEF Elems, Ordered
<1>1. CASE InputExit \/ PriorityDefault \/ TakeSystem
  <2>1. /\ UNCHANGED <<procCh, keep, dataCh, arrived, begun>>
        /\ inPC' \in {"exited", "fair", "wait", "handle"}
    BY <1>1 DEF InputExit, PriorityDefault, TakeSystem
  <2>2. InHand' = {}
    BY <2>1 DEF InHand
  <2> QED BY <2>1, <2>2 DEF OrderInv, Precede
<1>2. CASE TakeData
  <2>1. /\ UNCHANGED <<procCh, keep, arrived, begun>>
        /\ dataCh # <<>> /\ dataCh' = Tail(dataCh) /\ hand' = Head(dataCh)
        /\ inPC = "fair" /\ inPC' = "forward"
    BY <1>2 DEF TakeData
  <2>2. /\ Elems(dataCh) = Elems(dataCh') \cup {hand'}
        /\ Ordered(arrived, dataCh') /\ Precede(arrived, {hand'}, Elems(dataCh'))
    BY <2>1, ElemsHeadTail, OrderedTail DEF OrderInv
  <2>3. InHand' = {hand'}
    BY <2>1 DEF InHand
  <2> QED BY <2>1, <2>2, <2>3 DEF OrderInv, Precede
<1>3. CASE Forward
  <2>1. /\ UNCHANGED <<dataCh, keep, arrived, begun>>
        /\ procCh' = Append(procCh, hand) /\ hand \in Frame
        /\ inPC = "forward" /\ inPC' = "priority"
    BY <1>3 DEF Forward
  <2>2. InHand = {hand} /\ InHand' = {}
    BY <2>1 DEF InHand
  <2>3. Elems(procCh') = Elems(procCh) \cup {hand}
    BY <2>1, ElemsAppend
  <2>4. Precede(arrived, Elems(procCh), {hand})
    BY <2>2 DEF OrderInv, Precede
  <2>5. Ordered(arrived, procCh')
    BY <2>1, <2>4, OrderedAppend DEF OrderInv
  <2>6. Elems(keep) = {}
    BY <1>0, <2>1
  <2> QED BY <2>1, <2>2, <2>3, <2>5, <2>6 DEF OrderInv, Precede
<1>4. CASE WaitDone \/ WaitTimeout
  <2>1. /\ UNCHANGED <<procCh, keep, dataCh, arrived, begun>>
        /\ keep = <<>> /\ inPC = "wait" /\ inPC' = "drain"
    BY <1>4 DEF WaitDone, WaitTimeout
  <2>2. InHand = {} /\ InHand' = {} /\ Elems(keep) = {}
    BY <1>0, <2>1 DEF InHand
  <2> QED BY <2>1, <2>2 DEF OrderInv, Precede
<1>5. CASE DrainOne
  <2>1. /\ UNCHANGED <<dataCh, arrived, begun, hand, inPC>>
        /\ procCh # <<>> /\ procCh' = Tail(procCh)
        /\ keep' = keep \/ keep' = Append(keep, Head(procCh))
        /\ inPC = "drain"
    BY <1>5 DEF DrainOne
  <2>2. InHand = {} /\ InHand' = {}
    BY <2>1 DEF InHand
  <2>3. PICK h \in Frame : h = Head(procCh)
    BY <2>1, ElemsHeadTail
  <2>4. /\ Elems(procCh) = Elems(procCh') \cup {h}
        /\ Ordered(arrived, procCh') /\ Precede(arrived, {h}, Elems(procCh'))
    BY <2>1, <2>3, ElemsHeadTail, OrderedTail DEF OrderInv
  <2>5. CASE keep' = keep
    BY <2>1, <2>2, <2>4, <2>5 DEF OrderInv, Precede
  <2>6. CASE keep' = Append(keep, h)
    <3>1. Elems(keep') = Elems(keep) \cup {h}
      BY <2>3, <2>6, ElemsAppend
    <3>2. Precede(arrived, Elems(keep), {h})
      BY <2>1, <2>4 DEF OrderInv, Precede
    <3>3. Ordered(arrived, keep')
      BY <2>3, <2>6, <3>2, OrderedAppend DEF OrderInv
    <3> QED BY <2>1, <2>2, <2>4, <3>1, <3>3 DEF OrderInv, Precede
  <2> QED BY <2>1, <2>3, <2>5, <2>6
<1>6. CASE StartProcessLoop
  <2>1. /\ UNCHANGED <<procCh, keep, dataCh, arrived, begun>>
        /\ procCh = <<>> /\ inPC = "drain" /\ inPC' = "pushback"
    BY <1>6 DEF StartProcessLoop
  <2>2. InHand = {} /\ InHand' = {} /\ Elems(procCh) = {}
    BY <1>0, <2>1 DEF InHand
  <2> QED BY <2>1, <2>2 DEF OrderInv, Precede
<1>7. CASE PushBack
  <2>1. /\ UNCHANGED <<dataCh, arrived, begun, hand, inPC>>
        /\ keep # <<>> /\ keep' = Tail(keep)
        /\ procCh' = Append(procCh, Head(keep))
        /\ inPC = "pushback"
    BY <1>7 DEF PushBack
  <2>2. InHand = {} /\ InHand' = {}
    BY <2>1 DEF InHand
  <2>3. PICK h \in Frame : h = Head(keep)
    BY <2>1, ElemsHeadTail
  <2>4. /\ Elems(keep) = Elems(keep') \cup {h}
        /\ Ordered(arrived, keep') /\ Precede(arrived, {h}, Elems(keep'))
    BY <2>1, <2>3, ElemsHeadTail, OrderedTail DEF OrderInv
  <2>5. Elems(procCh') = Elems(procCh) \cup {h}
    BY <2>1, <2>3, ElemsAppend
  <2>6. Precede(arrived, Elems(procCh), {h})
    BY <2>1, <2>4 DEF OrderInv, Precede
  <2>7. Ordered(arrived, procCh')
    BY <2>1, <2>3, <2>6, OrderedAppend DEF OrderInv
  <2> QED BY <2>1, <2>2, <2>4, <2>5, <2>7 DEF OrderInv, Precede
<1>8. CASE PushBackDone
  <2>1. /\ UNCHANGED <<procCh, dataCh, arrived, begun>>
        /\ keep' = <<>> /\ inPC = "pushback" /\ inPC' = "handle"
    BY <1>8 DEF PushBackDone
  <2>2. InHand = {} /\ InHand' = {} /\ Elems(keep') = {}
    BY <1>0, <2>1 DEF InHand
  <2> QED BY <1>0, <2>1, <2>2 DEF OrderInv, Precede
<1>9. CASE HandleSystem
  <2>1. /\ UNCHANGED <<procCh, keep, dataCh, arrived>>
        /\ begun' = Append(begun, hand) /\ hand \in Frame /\ IsSystem(hand)
        /\ inPC = "handle" /\ inPC' = "priority"
    BY <1>9 DEF HandleSystem, OnceInv
  <2>2. DataOrdered(arrived, begun') /\ DataFrames(begun') = DataFrames(begun)
    BY <2>1, DataAppend DEF OrderInv
  <2>3. InHand = {} /\ InHand' = {}
    BY <2>1 DEF InHand
  <2> QED BY <2>1, <2>2, <2>3 DEF OrderInv, Precede
<1> QED
  BY <1>1, <1>2, <1>3, <1>4, <1>5, <1>6, <1>7, <1>8, <1>9 DEF InputLoop

\* A processLoop takes the first frame of procCh, which comes after all that were
\* taken before; during the purge none takes any.
LEMMA OrderTake ==
    ASSUME TypeInv, OnceInv, TakeInv, OrderInv, NEW g \in Loop, LoopTake(g)
    PROVE  OrderInv'
<1> USE DEF TypeInv, TypeOK, HandInv, queues, ctxVars, inVars, loopVars, wgVars
<1>1. /\ UNCHANGED <<keep, dataCh, arrived, hand, inPC>>
      /\ procCh # <<>> /\ procCh' = Tail(procCh)
      /\ begun' = Append(begun, Head(procCh))
      /\ inPC # "drain"
  BY DEF LoopTake, TakeInv
<1>2. PICK h \in Frame : h = Head(procCh)
  BY <1>1, ElemsHeadTail
<1>3. /\ Elems(procCh) = Elems(procCh') \cup {h}
      /\ Ordered(arrived, procCh') /\ Precede(arrived, {h}, Elems(procCh'))
  BY <1>1, <1>2, ElemsHeadTail, OrderedTail DEF OrderInv
<1>4. ~IsSystem(h)
  BY <1>3 DEF OrderInv, OnceInv
<1>5. Precede(arrived, DataFrames(begun), {h})
  BY <1>3 DEF OrderInv, Precede
<1>6. DataOrdered(arrived, begun') /\ DataFrames(begun') = DataFrames(begun) \cup {h}
  BY <1>1, <1>2, <1>4, <1>5, DataAppend DEF OrderInv
<1>7. InHand' = InHand
  BY <1>1 DEF InHand
<1>8. inPC # "pushback" => Elems(keep) = {}
  BY <1>1 DEF Elems
<1> QED BY <1>1, <1>3, <1>6, <1>7, <1>8 DEF OrderInv, Precede

\* Every step preserves OrderInv.
LEMMA OrderNext ==
    TypeInv /\ OnceInv /\ TakeInv /\ OrderInv /\ [Next]_vars => OrderInv'
<1> SUFFICES ASSUME TypeInv, OnceInv, TakeInv, OrderInv, [Next]_vars
             PROVE  OrderInv'
  OBVIOUS
<1> USE DEF queues, ctxVars, inVars, loopVars, wgVars
<1>1. CASE UNCHANGED <<procCh, keep, dataCh, arrived, begun, hand, inPC>>
  <2>1. InHand' = InHand
    BY <1>1 DEF InHand
  <2> QED BY <1>1, <2>1, Zenon DEF OrderInv
<1>2. CASE Start
  <2>1. /\ UNCHANGED <<procCh, keep, dataCh, arrived, begun>>
        /\ inPC = "unstarted" /\ inPC' = "priority"
    BY <1>2 DEF Start, TypeInv, TypeOK, HandInv
  <2>2. InHand = {} /\ InHand' = {}
    BY <2>1 DEF InHand
  <2> QED BY <2>1, <2>2 DEF OrderInv
<1>3. CASE \/ Stop \/ TaskCancel \/ UNCHANGED vars
           \/ \E s \in Sender : GiveUp(s) \/ \E f \in Frame : QueueFrame(s, f)
           \/ \E i \in Interrupt : WaiterWait(i) \/ WaiterReturn(i)
  BY <1>1, <1>3 DEF Stop, TaskCancel, vars, GiveUp, QueueFrame, WaiterWait,
                    WaiterReturn
<1>4. ASSUME NEW g \in Loop, ProcessLoop(g), ~LoopTake(g) PROVE OrderInv'
  BY <1>1, <1>4 DEF ProcessLoop, LoopTop, LoopExit, LoopReturn, LoopReturnEnd
<1> QED
  BY <1>2, <1>3, <1>4, OrderDeliver, OrderInput, OrderTake DEF Next, ProcessLoop

\* A processor that has not started holds no frame.
LEMMA OrderInit == Init => TypeInv /\ OnceInv /\ TakeInv /\ OrderInv
<1> SUFFICES ASSUME Init PROVE OnceInv /\ TakeInv /\ OrderInv
  BY TypeInit
<1>1. Elems(<<>>) = {}
  BY DEF Elems
<1>2. OnceInv
  BY <1>1 DEF Init, OnceInv
<1>3. TakeInv
  BY DEF Init, TakeInv, NoLive, Live
<1>4. OrderInv
  BY <1>1 DEF Init, OrderInv, Precede, Ordered, DataFrames, DataOrdered, InHand
<1> QED BY <1>2, <1>3, <1>4

\* Data frames reach ProcessFrame in the order they entered inputDataCh, each at
\* most once, across purges, push-backs and loops that outlive procLoopExitTimeout,
\* for all frames, senders and capacities.
THEOREM InOrder == Spec => []FIFO
<1>1. Init => TypeInv /\ OnceInv /\ TakeInv /\ OrderInv
  BY OrderInit
<1>2. TypeInv /\ OnceInv /\ TakeInv /\ OrderInv /\ [Next]_vars
        => (TypeInv /\ OnceInv /\ TakeInv /\ OrderInv)'
  BY TypeNext, OnceNext, TakeNext, OrderNext
<1>3. TypeInv /\ OnceInv /\ OrderInv => FIFO
  <2> SUFFICES ASSUME TypeInv, OnceInv, OrderInv,
                      NEW i \in DOMAIN begun, NEW j \in DOMAIN begun, i < j,
                      ~IsSystem(begun[i]), ~IsSystem(begun[j])
               PROVE  Position(begun[i]) < Position(begun[j])
    BY DEF FIFO
  <2>1. Before(arrived, begun[i], begun[j])
    BY DEF OrderInv, DataOrdered
  <2>2. PICK m, n \in DOMAIN arrived :
            m < n /\ arrived[m] = begun[i] /\ arrived[n] = begun[j]
    BY <2>1 DEF Before
  <2>3. \A k \in DOMAIN arrived : Position(arrived[k]) = k
    BY DEF OnceInv, Position
  <2> QED BY <2>2, <2>3
<1> QED
  BY <1>1, <1>2, <1>3, PTL DEF Spec

----------------------------------------------------------------------------
(* Nothing after the end.                                                  *)

\* Once the EndFrame's handler has started, it is still running or the processor
\* is cancelled and no processLoop is about to take a frame.
LastInv ==
    ~timedOut =>
      /\ (\E f \in Elems(begun) : Kind[f] = "end") =>
            \/ \E g \in Loop : loop[g] = "busy" /\ Kind[inFlight[g]] = "end"
            \/ ctxDone /\ \A g \in Loop : loop[g] # "select"
      /\ \A i, j \in DOMAIN begun :
            i < j /\ Kind[begun[i]] = "end" => IsSystem(begun[j])

\* What the history of handlers looks like after one more call of ProcessFrame.
LEMMA BegunAppend ==
    ASSUME NEW s \in Seq(Frame), NEW x \in Frame,
           \A i, j \in DOMAIN s : i < j /\ Kind[s[i]] = "end" => IsSystem(s[j]),
           IsSystem(x) \/ \A f \in Elems(s) : Kind[f] # "end"
    PROVE  \A i, j \in DOMAIN Append(s, x) :
              i < j /\ Kind[Append(s, x)[i]] = "end" => IsSystem(Append(s, x)[j])
<1>1. /\ DOMAIN s = 1..Len(s) /\ DOMAIN Append(s, x) = 1..(Len(s) + 1)
      /\ \A k \in 1..Len(s) : Append(s, x)[k] = s[k]
      /\ Append(s, x)[Len(s) + 1] = x /\ Len(s) \in Nat
  OBVIOUS
<1>2. SUFFICES ASSUME NEW i \in 1..(Len(s) + 1), NEW j \in 1..(Len(s) + 1), i < j,
                      Kind[Append(s, x)[i]] = "end"
               PROVE  IsSystem(Append(s, x)[j])
  BY <1>1
<1>3. i \in 1..Len(s) /\ (j \in 1..Len(s) \/ j = Len(s) + 1)
  BY <1>1, <1>2
<1>4. Append(s, x)[i] = s[i] /\ s[i] \in Elems(s)
  BY <1>1, <1>3 DEF Elems
<1>5. CASE j \in 1..Len(s)
  BY <1>1, <1>2, <1>3, <1>4, <1>5, Zenon
<1>6. CASE j = Len(s) + 1
  BY <1>1, <1>2, <1>4, <1>6, Zenon
<1> QED BY <1>3, <1>5, <1>6

\* Every step preserves LastInv.
LEMMA LastNext ==
    TypeInv /\ SerialInv /\ OnceInv /\ LastInv /\ [Next]_vars => LastInv'
<1> SUFFICES ASSUME TypeInv, SerialInv, OnceInv, LastInv, [Next]_vars,
                    ~timedOut, ~timedOut'
             PROVE  LastInv'
  BY TimedOutStays DEF LastInv
<1> USE DEF TypeInv, TypeOK, HandInv, queues, ctxVars, inVars, loopVars, wgVars
<1>0. FirstLoop \in Loop /\ \A i \in Interrupt : i \in Loop /\ i \in Frame
  BY DEF Loop, Interrupt
<1>1. CASE UNCHANGED <<begun, loop, inFlight>> /\ (ctxDone' = ctxDone \/ ctxDone')
  BY <1>1 DEF LastInv
<1>2. ASSUME NEW g \in Loop, loop[g] # "busy", loop' = [loop EXCEPT ![g] = "top"],
             UNCHANGED <<begun, inFlight, ctxDone>>
      PROVE  LastInv'
  BY <1>2 DEF LastInv
<1>3. CASE Start
  <2>1. loop[FirstLoop] # "busy"
    BY <1>0, <1>3 DEF Start, SerialInv, NoLive, Live
  <2> QED BY <1>0, <1>2, <1>3, <2>1 DEF Start
<1>4. CASE StartProcessLoop
  <2>1. hand \in Loop /\ loop[hand] # "busy"
    BY <1>0, <1>4 DEF StartProcessLoop, SerialInv, NoLive, Live
  <2> QED BY <1>2, <1>4, <2>1 DEF StartProcessLoop
<1>5. CASE HandleSystem
  <2>1. /\ begun' = Append(begun, hand) /\ hand \in Frame /\ IsSystem(hand)
        /\ UNCHANGED <<loop, inFlight, ctxDone>>
    BY <1>5 DEF HandleSystem, OnceInv
  <2>2. Elems(begun') = Elems(begun) \cup {hand} /\ Kind[hand] # "end"
    BY <2>1, ElemsAppend DEF IsSystem
  <2>3. \A i, j \in DOMAIN begun' :
            i < j /\ Kind[begun'[i]] = "end" => IsSystem(begun'[j])
    BY <2>1, BegunAppend DEF LastInv
  <2> QED BY <2>1, <2>2, <2>3 DEF LastInv
<1>6. ASSUME NEW g \in Loop, LoopTop(g) PROVE LastInv'
  <2>1. /\ loop[g] = "top" /\ ~ctxDone /\ loop' = [loop EXCEPT ![g] = "select"]
        /\ UNCHANGED <<begun, inFlight, ctxDone>>
    BY <1>6 DEF LoopTop, ProcCtxDone
  <2> QED BY <2>1 DEF LastInv
<1>7. ASSUME NEW g \in Loop, LoopTake(g) PROVE LastInv'
  <2>1. /\ loop[g] = "select" /\ loop' = [loop EXCEPT ![g] = "busy"]
        /\ procCh # <<>> /\ begun' = Append(begun, Head(procCh))
        /\ inFlight' = [inFlight EXCEPT ![g] = Head(procCh)]
        /\ UNCHANGED ctxDone
    BY <1>7 DEF LoopTake
  <2>2. PICK h \in Frame : h = Head(procCh)
    BY <2>1, ElemsHeadTail
  <2>3. \A k \in Loop : loop[k] # "busy"
    <3>1. ASSUME NEW k \in Loop, loop[k] = "busy" PROVE k = g
      BY <2>1, <3>1 DEF SerialInv, Live
    <3> QED BY <2>1, <3>1
  <2>4. \A f \in Elems(begun) : Kind[f] # "end"
    BY <2>1, <2>3 DEF LastInv
  <2>5. Elems(begun') = Elems(begun) \cup {h}
    BY <2>1, <2>2, ElemsAppend
  <2>6. \A i, j \in DOMAIN begun' :
            i < j /\ Kind[begun'[i]] = "end" => IsSystem(begun'[j])
    BY <2>1, <2>2, <2>4, BegunAppend DEF LastInv
  <2>7. loop'[g] = "busy" /\ inFlight'[g] = h
    BY <2>1, <2>2
  <2> QED BY <2>4, <2>5, <2>6, <2>7 DEF LastInv
<1>8. ASSUME NEW g \in Loop, LoopExit(g) PROVE LastInv'
  BY <1>8 DEF LoopExit, LastInv
<1>9. ASSUME NEW g \in Loop, LoopReturn(g) PROVE LastInv'
  BY <1>9 DEF LoopReturn, LastInv
<1>10. ASSUME NEW g \in Loop, LoopReturnEnd(g) PROVE LastInv'
  <2>1. /\ loop[g] = "busy" /\ loop' = [loop EXCEPT ![g] = "exited"]
        /\ ctxDone' = TRUE /\ UNCHANGED begun
    BY <1>10 DEF LoopReturnEnd
  <2>2. \A k \in Loop : loop'[k] # "select"
    BY <2>1 DEF SerialInv, Live
  <2> QED BY <2>1, <2>2 DEF LastInv
<1>11. CASE \/ Stop \/ TaskCancel \/ UNCHANGED vars
            \/ \E s \in Sender : \/ Deliver(s) \/ GiveUp(s)
                                 \/ \E f \in Frame : QueueFrame(s, f)
            \/ \E i \in Interrupt : WaiterWait(i) \/ WaiterReturn(i)
  BY <1>1, <1>11 DEF Stop, TaskCancel, vars, Deliver, GiveUp, QueueFrame,
                     WaiterWait, WaiterReturn
<1>12. CASE \/ InputExit \/ TakeSystem \/ PriorityDefault \/ TakeData \/ Forward
            \/ WaitDone \/ WaitTimeout \/ DrainOne \/ PushBack \/ PushBackDone
  BY <1>1, <1>12 DEF InputExit, TakeSystem, PriorityDefault, TakeData, Forward,
                     WaitDone, WaitTimeout, DrainOne, PushBack, PushBackDone
<1> QED
  BY <1>3, <1>4, <1>5, <1>6, <1>7, <1>8, <1>9, <1>10, <1>11, <1>12
     DEF Next, InputLoop, ProcessLoop

\* As long as no interrupt gave up waiting for a handler, no data frame is handled
\* after the EndFrame: the base cancels the processor before any loop can take one.
THEOREM EndComesLast == Spec => []EndIsLast
<1>1. Init => TypeInv /\ SerialInv /\ OnceInv /\ LastInv
  <2> SUFFICES ASSUME Init PROVE SerialInv /\ OnceInv /\ LastInv
    BY TypeInit
  <2>1. Elems(<<>>) = {}
    BY DEF Elems
  <2> QED BY <2>1 DEF Init, SerialInv, NoLive, Live, OnceInv, LastInv
<1>2. TypeInv /\ SerialInv /\ OnceInv /\ LastInv /\ [Next]_vars
        => (TypeInv /\ SerialInv /\ OnceInv /\ LastInv)'
  BY TypeNext, SerialNext, OnceNext, LastNext
<1>3. LastInv => EndIsLast
  BY DEF LastInv, EndIsLast
<1> QED
  BY <1>1, <1>2, <1>3, PTL DEF Spec

----------------------------------------------------------------------------
(* The refinement of Mailbox.                                              *)

\* LoopTake and Forward: the head of a list of two parts is that of the first.
LEMMA ConcatTail ==
    ASSUME NEW S, NEW s \in Seq(S), NEW t \in Seq(S), s # <<>>
    PROVE  /\ s \o t # <<>> /\ Head(s \o t) = Head(s)
           /\ Tail(s \o t) = Tail(s) \o t
OBVIOUS
\* DrainOne and PushBack: the head of one part moves to the end of the other.
LEMMA ConcatShift ==
    ASSUME NEW S, NEW s \in Seq(S), NEW t \in Seq(S), t # <<>>
    PROVE  Append(s, Head(t)) \o Tail(t) = s \o t
OBVIOUS
\* Deliver: what is sent behind the second part is behind both.
LEMMA ConcatAppend ==
    ASSUME NEW S, NEW s \in Seq(S), NEW t \in Seq(S), NEW x \in S
    PROVE  Append(s \o t, x) = s \o Append(t, x)
OBVIOUS
\* An empty part adds nothing.
LEMMA ConcatEmpty ==
    ASSUME NEW S, NEW s \in Seq(S)
    PROVE  s \o <<>> = s /\ <<>> \o s = s
OBVIOUS
\* PushBackDone: without its second part a list is its first.
LEMMA ConcatPrefix ==
    ASSUME NEW S, NEW s \in Seq(S), NEW t \in Seq(S)
    PROVE  SubSeq(s \o t, 1, Len(s)) = s
OBVIOUS
\* A list without its k-th member.
LEMMA Removed ==
    ASSUME NEW u, NEW k, NEW n, NEW m, k - 1 = n, k + 1 = m
    PROVE  Box!RemoveAt(u, k) = SubSeq(u, 1, n) \o SubSeq(u, m, Len(u))
<1>1. Box!RemoveAt(u, k) = SubSeq(u, 1, k - 1) \o SubSeq(u, k + 1, Len(u))
  BY DEF Box!RemoveAt
<1> QED BY <1>1, Zenon

\* DrainOne: the head of the second part is removed.
LEMMA ConcatDrop ==
    ASSUME NEW S, NEW s \in Seq(S), NEW t \in Seq(S), t # <<>>
    PROVE  \E k \in DOMAIN (s \o t) :
              (s \o t)[k] = Head(t) /\ s \o Tail(t) = Box!RemoveAt(s \o t, k)
<1>1. PICK k \in Nat : k = Len(s) + 1
  OBVIOUS
<1>2. k - 1 = Len(s) /\ k + 1 = Len(s) + 2
  BY <1>1
<1>3. k \in DOMAIN (s \o t) /\ (s \o t)[k] = Head(t)
  BY <1>1
<1>4. SubSeq(s \o t, 1, Len(s)) = s
  BY ConcatPrefix
<1>5. SubSeq(s \o t, k + 1, Len(s \o t)) = Tail(t)
  BY <1>1
<1>6. Box!RemoveAt(s \o t, k) =
         SubSeq(s \o t, 1, Len(s)) \o SubSeq(s \o t, k + 1, Len(s \o t))
  BY <1>2, Removed, Zenon
<1> QED BY <1>3, <1>4, <1>5, <1>6, Zenon

\* A processor that has not started is an empty mailbox.
LEMMA BoxInit == Init => Box!Init
BY ConcatEmpty DEF Init, Box!Init, Reached, Unreached, DataFrames, Elems, Interrupt

\* What is in a processor's channels and in inputLoop's hand.
LEMMA BoxTypes ==
    ASSUME TypeInv, OnceInv, OrderInv
    PROVE  /\ procCh \in Seq(Frame) /\ keep \in Seq(Frame) /\ dataCh \in Seq(Frame)
           /\ arrived \in Seq(Frame) /\ begun \in Seq(Frame)
           /\ keep \o procCh \in Seq(Frame) /\ procCh \o keep \in Seq(Frame)
           /\ Reached \in Seq(Frame)
           /\ Unreached \in Seq(Frame)
           /\ NoFrame \notin Interrupt
           /\ \A f \in Elems(arrived) : f \notin Interrupt
           /\ inPC = "forward" => hand \in Frame /\ hand \notin Interrupt
<1>1. /\ procCh \in Seq(Frame) /\ keep \in Seq(Frame) /\ dataCh \in Seq(Frame)
      /\ arrived \in Seq(Frame) /\ begun \in Seq(Frame)
      /\ inPC = "forward" => hand \in Frame
  BY DEF TypeInv, TypeOK, HandInv
<1>2. \A f \in Elems(arrived) : f \notin Interrupt
  BY DEF OnceInv, Interrupt, IsSystem
<1>3. inPC = "forward" => hand \in Elems(arrived)
  BY DEF OrderInv, InHand
<1>4. NoFrame \notin Interrupt
  BY DEF Interrupt
<1>5. keep \o procCh \in Seq(Frame) /\ procCh \o keep \in Seq(Frame)
  BY <1>1
<1>6. inPC = "forward" => <<hand>> \o dataCh \in Seq(Frame)
  BY <1>1
<1> QED BY <1>1, <1>2, <1>3, <1>4, <1>5, <1>6 DEF Reached, Unreached

\* A data frame that enters inputDataCh is accepted (Deliver).
LEMMA BoxDeliver ==
    ASSUME TypeInv, OnceInv, OrderInv, NEW s \in Sender, Deliver(s)
    PROVE  [Box!Next]_(Box!vars)
<1>1. /\ UNCHANGED <<procCh, keep, hand, inPC, begun, ctxDone>>
      /\ sending[s] \in Frame
  BY DEF Deliver, TypeInv, TypeOK, ctxVars, inVars, loopVars
<1>2. Reached' = Reached
  BY <1>1 DEF Reached
<1>3. CASE IsSystem(sending[s])
  <2>1. UNCHANGED <<dataCh, arrived>>
    BY <1>3 DEF Deliver
  <2> QED BY <1>1, <1>2, <2>1 DEF Box!vars, Unreached
<1>4. CASE ~IsSystem(sending[s])
  <2>1. PICK x \in Frame : x = sending[s]
    BY <1>1
  <2>2. dataCh' = Append(dataCh, x) /\ arrived' = Append(arrived, x) /\ ~IsSystem(x)
    BY <1>4, <2>1 DEF Deliver
  <2>3. x \notin Elems(arrived)
    BY <2>1 DEF OnceInv
  <2>4. Elems(arrived') = Elems(arrived) \cup {x}
    BY <2>2, BoxTypes, ElemsAppend
  <2>5. Unreached' = Append(Unreached, x)
    <3>1. CASE inPC = "forward"
      <4>1. dataCh \in Seq(Frame) /\ <<hand>> \in Seq(Frame)
        BY <3>1, BoxTypes
      <4>2. PICK held \in Seq(Frame) : held = <<hand>>
        BY <4>1
      <4>3. Append(held \o dataCh, x) = held \o Append(dataCh, x)
        BY <2>1, <4>1, <4>2, ConcatAppend
      <4> QED BY <1>1, <2>2, <3>1, <4>2, <4>3 DEF Unreached
    <3>2. CASE inPC # "forward"
      BY <1>1, <2>2, <3>2 DEF Unreached
    <3> QED BY <3>1, <3>2
  <2>6. UNCHANGED <<Reached, DataFrames(begun), hand \in Interrupt, ctxDone>>
    BY <1>1, <1>2
  <2>7. x \in {f \in Frame : ~IsSystem(f)} \ Elems(arrived)
    BY <2>2, <2>3
  <2>8. Box!Accept
    BY <2>4, <2>5, <2>6, <2>7, Zenon DEF Box!Accept
  <2> QED BY <2>8 DEF Box!Next
<1> QED BY <1>3, <1>4

\* A processLoop starts the handler of the first admitted frame.
LEMMA BoxTake ==
    ASSUME TypeInv, OnceInv, TakeInv, OrderInv, NEW g \in Loop, LoopTake(g)
    PROVE  [Box!Next]_(Box!vars)
<1>1. /\ UNCHANGED <<keep, dataCh, arrived, hand, inPC, ctxDone>>
      /\ procCh # <<>> /\ procCh' = Tail(procCh)
      /\ begun' = Append(begun, Head(procCh))
      /\ inPC # "drain"
  BY DEF LoopTake, TakeInv, ctxVars, inVars
<1>2. PICK h \in Frame : h = Head(procCh)
  BY <1>1, BoxTypes, ElemsHeadTail
<1>3. ~IsSystem(h)
  <2>1. h \in Elems(procCh)
    BY <1>1, <1>2, BoxTypes, ElemsHeadTail
  <2> QED BY <2>1 DEF OrderInv, OnceInv
<1>4. DataFrames(begun') = DataFrames(begun) \cup {h}
  <2>1. Elems(begun') = Elems(begun) \cup {h}
    BY <1>1, <1>2, BoxTypes, ElemsAppend
  <2> QED BY <1>3, <2>1 DEF DataFrames
<1>5. Reached # <<>> /\ Head(Reached) = h /\ Reached' = Tail(Reached)
  <2>1. CASE inPC = "pushback"
    BY <1>1, <1>2, <2>1, BoxTypes, ConcatTail DEF Reached
  <2>2. CASE inPC # "pushback"
    <3>1. keep = <<>>
      BY <1>1, <2>2 DEF TypeInv, HandInv
    <3>2. Reached = procCh
      BY <2>2, <3>1, BoxTypes, ConcatEmpty DEF Reached
    <3>3. Reached' = procCh'
      <4>1. procCh' \in Seq(Frame) /\ keep' = <<>> /\ inPC' # "pushback"
        BY <1>1, <2>2, <3>1, BoxTypes, ElemsHeadTail
      <4> QED BY <4>1, ConcatEmpty DEF Reached
    <3> QED BY <1>1, <1>2, <3>2, <3>3
  <2> QED BY <2>1, <2>2
<1>6. UNCHANGED <<Elems(arrived), Unreached, hand \in Interrupt, ctxDone>>
  BY <1>1 DEF Unreached
<1>7. Box!Handle
  BY <1>4, <1>5, <1>6, Zenon DEF Box!Handle
<1> QED BY <1>7 DEF Box!Next

\* inputLoop hands frames on in order, and an interrupt removes only what it may.
LEMMA BoxInput ==
    ASSUME TypeInv, OnceInv, OrderInv, PurgeInv, InputLoop
    PROVE  [Box!Next]_(Box!vars)
<1>0. /\ procCh \in Seq(Frame) /\ keep \in Seq(Frame) /\ dataCh \in Seq(Frame)
      /\ NoFrame \notin Interrupt
      /\ inPC = "forward" => hand \in Frame /\ hand \notin Interrupt
      /\ inPC \in {"unstarted", "priority", "fair", "exited"} => hand = NoFrame
      /\ inPC \in {"wait", "drain", "pushback"} => hand \in Interrupt
      /\ inPC \notin {"drain", "pushback"} => keep = <<>>
  BY BoxTypes DEF TypeInv, HandInv
<1>e. keep \o <<>> = keep /\ <<>> \o keep = keep /\ procCh \o <<>> = procCh /\ <<>> \o procCh = procCh
  BY <1>0, ConcatEmpty
<1>u. UNCHANGED <<arrived, Unreached, Reached, DataFrames(begun), hand \in Interrupt, ctxDone>>
        => UNCHANGED Box!vars
  BY DEF Box!vars
<1>1. CASE InputExit
  <2>1. /\ UNCHANGED <<procCh, dataCh, keep, arrived, begun, ctxDone>>
        /\ inPC \in {"priority", "fair", "forward"} /\ inPC' = "exited"
        /\ hand' = NoFrame /\ ctxDone
    BY <1>1 DEF InputExit, queues, ctxVars, loopVars
  <2>2. Reached' = Reached /\ Unreached' = dataCh /\ hand \notin Interrupt /\ hand' \notin Interrupt
    BY <1>0, <2>1 DEF Reached, Unreached
  <2>3. CASE inPC = "forward"
    <3>1. Unreached = <<hand>> \o dataCh
      BY <2>3 DEF Unreached
    <3>2. Unreached # <<>> /\ Tail(Unreached) = dataCh
      BY <1>0, <2>3, <3>1
    <3>3. Box!Drop
      BY <2>1, <2>2, <3>2 DEF Box!Drop
    <3> QED BY <3>3 DEF Box!Next
  <2>4. CASE inPC # "forward"
    BY <1>u, <2>1, <2>2, <2>4 DEF Unreached
  <2> QED BY <2>3, <2>4
<1>2. CASE TakeSystem
  <2>1. /\ UNCHANGED <<procCh, dataCh, keep, arrived, begun, ctxDone>>
        /\ inPC \in {"priority", "fair"} /\ inPC' \in {"wait", "handle"}
    BY <1>2 DEF TakeSystem, ctxVars, loopVars
  <2>2. Reached' = Reached /\ Unreached' = Unreached /\ hand \notin Interrupt
    BY <1>0, <2>1 DEF Reached, Unreached
  <2>3. CASE hand' \in Interrupt
    <3>1. Box!Interrupt
      BY <2>1, <2>2, <2>3 DEF Box!Interrupt
    <3> QED BY <3>1 DEF Box!Next
  <2>4. CASE hand' \notin Interrupt
    BY <1>u, <2>1, <2>2, <2>4
  <2> QED BY <2>3, <2>4
<1>3. CASE PriorityDefault \/ WaitDone \/ WaitTimeout
  <2>1. /\ UNCHANGED <<procCh, dataCh, keep, arrived, begun, ctxDone, hand>>
        /\ inPC \notin {"forward", "pushback"} /\ inPC' \notin {"forward", "pushback"}
    BY <1>3 DEF PriorityDefault, WaitDone, WaitTimeout, queues, ctxVars, loopVars
  <2> QED BY <1>u, <2>1 DEF Reached, Unreached
<1>4. CASE TakeData
  <2>1. /\ UNCHANGED <<procCh, keep, arrived, begun, ctxDone>>
        /\ dataCh # <<>> /\ dataCh' = Tail(dataCh) /\ hand' = Head(dataCh)
        /\ inPC = "fair" /\ inPC' = "forward"
    BY <1>4 DEF TakeData, ctxVars, loopVars
  <2>2. Reached' = Reached
    BY <2>1 DEF Reached
  <2>3. <<Head(dataCh)>> \o Tail(dataCh) = dataCh
    BY <1>0, <2>1
  <2>4. Unreached' = Unreached
    BY <2>1, <2>3 DEF Unreached
  <2>5. hand' \in Elems(dataCh)
    BY <1>0, <2>1, ElemsHeadTail
  <2>6. hand' \notin Interrupt
    BY <2>5, BoxTypes DEF OrderInv
  <2>7. hand \notin Interrupt
    BY <1>0, <2>1
  <2> QED BY <1>u, <2>1, <2>2, <2>4, <2>6, <2>7
<1>5. CASE Forward
  <2>1. /\ UNCHANGED <<dataCh, keep, arrived, begun, ctxDone>>
        /\ procCh' = Append(procCh, hand) /\ hand' = NoFrame
        /\ inPC = "forward" /\ inPC' = "priority"
    BY <1>5 DEF Forward, ctxVars, loopVars
  <2>2. hand \in Frame /\ hand \notin Interrupt /\ hand' \notin Interrupt /\ keep = <<>>
    BY <1>0, <2>1
  <2>3. Unreached = <<hand>> \o dataCh /\ Unreached' = dataCh
    BY <2>1 DEF Unreached
  <2>4. Unreached # <<>> /\ Head(Unreached) = hand /\ Tail(Unreached) = dataCh
    BY <1>0, <2>2, <2>3
  <2>5. Reached = procCh
    BY <1>e, <2>1, <2>2 DEF Reached
  <2>6. Reached' = Append(procCh, hand)
    <3>1. procCh' \in Seq(Frame) /\ keep' = <<>> /\ inPC' # "pushback"
      BY <1>0, <2>1, <2>2
    <3> QED BY <2>1, <3>1, ConcatEmpty DEF Reached
  <2>7. Box!Admit
    BY <2>1, <2>2, <2>3, <2>4, <2>5, <2>6 DEF Box!Admit
  <2> QED BY <2>7 DEF Box!Next
<1>6. CASE DrainOne
  <2>1. /\ UNCHANGED <<dataCh, arrived, begun, ctxDone, hand, inPC>>
        /\ procCh # <<>> /\ procCh' = Tail(procCh) /\ inPC = "drain"
        /\ keep' = IF IsInterruptible(Head(procCh)) THEN keep
                   ELSE Append(keep, Head(procCh))
    BY <1>6 DEF DrainOne, ctxVars, loopVars
  <2>2. Unreached' = Unreached /\ Reached = keep \o procCh /\ Reached' = keep' \o procCh'
    BY <2>1 DEF Unreached, Reached
  <2>3. CASE IsInterruptible(Head(procCh))
    <3>1. PICK n \in DOMAIN (keep \o procCh) :
             /\ (keep \o procCh)[n] = Head(procCh)
             /\ keep \o Tail(procCh) = Box!RemoveAt(keep \o procCh, n)
      BY <1>0, <2>1, ConcatDrop, Zenon
    <3>2. Reached' = keep \o Tail(procCh)
      BY <2>1, <2>2, <2>3
    <3>3. /\ n \in DOMAIN Reached /\ Reached[n] = Head(procCh)
          /\ Reached' = Box!RemoveAt(Reached, n)
      BY <2>2, <3>1, <3>2, Zenon
    <3>4. Reached[n] \notin {f \in Frame : ~IsSystem(f) /\ ~IsInterruptible(f)}
      BY <2>3, <3>3
    <3>5. hand \in Interrupt
      BY <1>0, <2>1
    <3>6. UNCHANGED <<Elems(arrived), Unreached, DataFrames(begun), hand \in Interrupt, ctxDone>>
      BY <2>1, <2>2
    <3>7. Box!Purge
      BY <3>3, <3>4, <3>5, <3>6, Zenon DEF Box!Purge
    <3> QED BY <3>7 DEF Box!Next
  <2>4. CASE ~IsInterruptible(Head(procCh))
    <3>1. Reached' = Append(keep, Head(procCh)) \o Tail(procCh)
      BY <2>1, <2>2, <2>4
    <3>2. Reached' = Reached
      BY <1>0, <2>1, <2>2, <3>1, ConcatShift, Zenon
    <3> QED BY <1>u, <2>1, <2>2, <3>2
  <2> QED BY <2>3, <2>4
<1>7. CASE StartProcessLoop
  <2>1. /\ UNCHANGED <<dataCh, procCh, keep, arrived, begun, ctxDone, hand>>
        /\ procCh = <<>> /\ inPC = "drain" /\ inPC' = "pushback"
    BY <1>7 DEF StartProcessLoop, queues, ctxVars
  <2>2. Reached = keep /\ Reached' = keep
    BY <1>e, <2>1 DEF Reached
  <2> QED BY <1>u, <2>1, <2>2 DEF Unreached
<1>8. CASE PushBack
  <2>1. /\ UNCHANGED <<dataCh, arrived, begun, ctxDone, hand, inPC>>
        /\ keep # <<>> /\ keep' = Tail(keep) /\ inPC = "pushback"
        /\ procCh' = Append(procCh, Head(keep))
    BY <1>8 DEF PushBack, ctxVars, loopVars
  <2>2. Reached = procCh \o keep /\ Reached' = Append(procCh, Head(keep)) \o Tail(keep)
    BY <2>1 DEF Reached
  <2>3. Reached' = Reached
    BY <1>0, <2>1, <2>2, ConcatShift, Zenon
  <2> QED BY <1>u, <2>1, <2>3 DEF Unreached
<1>9. CASE PushBackDone
  <2>1. /\ UNCHANGED <<dataCh, procCh, arrived, begun, ctxDone, hand>>
        /\ inPC = "pushback" /\ inPC' = "handle"
        /\ keep = <<>> \/ ctxDone
        /\ keep' = <<>>
    BY <1>9 DEF PushBackDone, queues, ctxVars, loopVars
  <2>2. /\ Reached = procCh \o keep /\ Reached' = procCh /\ Unreached' = Unreached
    BY <1>e, <2>1 DEF Reached, Unreached
  <2>3. CASE keep = <<>>
    BY <1>e, <1>u, <2>1, <2>2, <2>3
  <2>4. CASE keep # <<>>
    <3>1. Reached' = SubSeq(Reached, 1, Len(procCh))
      BY <1>0, <2>2, ConcatPrefix
    <3>2. Len(procCh) \in 0..Len(Reached)
      BY <1>0, <2>2
    <3>3. Box!Drop
      BY <2>1, <2>2, <2>4, <3>1, <3>2 DEF Box!Drop
    <3> QED BY <3>3 DEF Box!Next
  <2> QED BY <2>3, <2>4
<1>10. CASE HandleSystem
  <2>1. /\ UNCHANGED <<dataCh, procCh, keep, arrived, ctxDone>>
        /\ inPC = "handle" /\ inPC' = "priority" /\ hand' = NoFrame
        /\ begun' = Append(begun, hand)
    BY <1>10 DEF HandleSystem, queues, ctxVars
  <2>2. IsSystem(hand) /\ hand \in Frame
    BY <2>1 DEF OnceInv, TypeInv, HandInv
  <2>3. DataFrames(begun') = DataFrames(begun)
    <3>1. Elems(begun') = Elems(begun) \cup {hand}
      BY <2>1, <2>2, BoxTypes, ElemsAppend
    <3> QED BY <2>2, <3>1 DEF DataFrames
  <2>4. UNCHANGED <<Reached, Unreached>> /\ Reached = procCh
    BY <1>0, <1>e, <2>1 DEF Reached, Unreached
  <2>5. CASE hand \in Interrupt
    <3>1. \A f \in Elems(procCh) : ~IsInterruptible(f)
      BY <2>1, <2>5 DEF PurgeInv
    <3>2. Elems(procCh) \subseteq Elems(arrived) /\ Elems(procCh) \subseteq Frame
      BY <1>0, ElemsType DEF OrderInv
    <3>3. \A n \in DOMAIN procCh : procCh[n] \in Elems(procCh)
      BY DEF Elems
    <3>4. \A n \in DOMAIN Reached :
             Reached[n] \in {f \in Frame : ~IsSystem(f) /\ ~IsInterruptible(f)}
      BY <2>4, <3>1, <3>2, <3>3 DEF OnceInv
    <3>5. Box!Resume
      BY <1>0, <2>1, <2>3, <2>4, <2>5, <3>4 DEF Box!Resume
    <3> QED BY <3>5 DEF Box!Next
  <2>6. CASE hand \notin Interrupt
    BY <1>0, <1>u, <2>1, <2>3, <2>4, <2>6
  <2> QED BY <2>5, <2>6
<1> QED
  BY <1>1, <1>2, <1>3, <1>4, <1>5, <1>6, <1>7, <1>8, <1>9, <1>10 DEF InputLoop

\* Every step of a processor is one of the mailbox or hidden from its senders.
LEMMA BoxNext ==
    TypeInv /\ OnceInv /\ TakeInv /\ OrderInv /\ PurgeInv /\ [Next]_vars
      => [Box!Next]_(Box!vars)
<1> SUFFICES ASSUME TypeInv, OnceInv, TakeInv, OrderInv, PurgeInv, [Next]_vars
             PROVE  [Box!Next]_(Box!vars)
  OBVIOUS
<1>1. ASSUME UNCHANGED <<procCh, keep, dataCh, arrived, begun, hand, inPC>>,
             ctxDone' \in {TRUE, ctxDone}
      PROVE  [Box!Next]_(Box!vars)
  <2>1. UNCHANGED <<Elems(arrived), Reached, Unreached, DataFrames(begun), hand \in Interrupt>>
    BY <1>1 DEF Reached, Unreached
  <2>2. CASE ctxDone' = ctxDone
    BY <2>1, <2>2 DEF Box!vars
  <2>3. CASE ctxDone' = TRUE
    BY <2>1, <2>3 DEF Box!Close, Box!Next
  <2> QED BY <1>1, <2>2, <2>3
<1>2. CASE Start
  <2>1. /\ UNCHANGED <<procCh, keep, dataCh, arrived, begun, hand, ctxDone>>
        /\ inPC = "unstarted" /\ inPC' = "priority"
    BY <1>2 DEF Start, queues, TypeInv, HandInv
  <2> QED BY <2>1 DEF Box!vars, Reached, Unreached
<1>3. CASE \/ Stop \/ TaskCancel \/ UNCHANGED vars
           \/ \E s \in Sender : GiveUp(s) \/ \E f \in Frame : QueueFrame(s, f)
           \/ \E i \in Interrupt : WaiterWait(i) \/ WaiterReturn(i)
  BY <1>1, <1>3 DEF Stop, TaskCancel, vars, GiveUp, QueueFrame, WaiterWait,
     WaiterReturn, queues, ctxVars, inVars, loopVars
<1>4. ASSUME NEW g \in Loop, ProcessLoop(g), ~LoopTake(g) PROVE [Box!Next]_(Box!vars)
  BY <1>1, <1>4 DEF ProcessLoop, LoopTop, LoopExit, LoopReturn, LoopReturnEnd,
     queues, ctxVars, inVars, loopVars
<1> QED
  BY <1>2, <1>3, <1>4, BoxDeliver, BoxInput, BoxTake DEF Next, ProcessLoop

\* Whatever interleaving of senders, interrupts, processLoops and cancellation, a
\* processor keeps the promise of Mailbox to those who send it data frames.
THEOREM KeepsMailbox == Spec => ImplementsMailbox
<1>1. Init => TypeInv /\ OnceInv /\ TakeInv /\ OrderInv /\ SerialInv /\ PurgeInv
  BY OrderInit, TypeInit DEF Init, SerialInv, NoLive, Live, PurgeInv, Elems
<1>2. TypeInv /\ OnceInv /\ TakeInv /\ OrderInv /\ SerialInv /\ PurgeInv /\ [Next]_vars
        => (TypeInv /\ OnceInv /\ TakeInv /\ OrderInv /\ SerialInv /\ PurgeInv)'
  BY TypeNext, OnceNext, TakeNext, OrderNext, SerialNext, PurgeNext
<1>3. Init => Box!Init
  BY BoxInit
<1> QED
  BY <1>1, <1>2, <1>3, BoxNext, PTL DEF Spec, ImplementsMailbox, Box!Spec
=============================================================================
