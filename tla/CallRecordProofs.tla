-------------------------- MODULE CallRecordProofs --------------------------
(***************************************************************************)
(* Proofs, for any chain of processors, any callers of End and any events, *)
(* of the safety of a call's end: the dispatcher of call events, the task  *)
(* that cleans up, the promise CallLife that they keep together, and the   *)
(* record of the conversation, however the backend answers the callbacks.  *)
(***************************************************************************)
EXTENDS CallRecord, CallStartupProofs, TLAPS

USE EventAssumption, TaskAssumption

----------------------------------------------------------------------------
(* Sequences, as the dispatcher uses them.                                 *)

\* A queue of events that grew by one event is a queue of events.
LEMMA AppendType ==
    \A S : \A s \in Seq(S), x \in S : Append(s, x) \in Seq(S)
OBVIOUS

\* Handing the head of the queue on keeps the events in order.
LEMMA HandOver ==
    ASSUME NEW S, NEW s \in Seq(S), NEW t \in Seq(S), t # <<>>
    PROVE  Append(s, Head(t)) \o Tail(t) = s \o t
OBVIOUS

----------------------------------------------------------------------------
(* What the call's record adds to the task.                                *)

\* The callbacks' remote operations and the backend's jobs never touch the
\* task: every step of the record is a step of PipelineTask, or stutters.
LEMMA RecordSteps == [RecordNext]_allVars => [Next]_vars
BY DEF RecordNext, allVars

\* A record starts with a task that starts.
LEMMA RecordStart == RecordInit => Init
BY DEF RecordInit

----------------------------------------------------------------------------
(* The dispatcher.                                                         *)

\* What a step of the call does to the dispatcher is a step of the dispatcher.
EvNext ==
    \/ \E p \in Producer : Dispatch(p) \/ \E e \in Event : Fire(p, e)
    \/ DispatcherStep \/ StopQueue

\* Only Abort and cleanup stop the queue, only goroutines of processors fire.
LEMMA EventSteps == [Next]_vars => [EvNext]_evVars
<1> SUFFICES ASSUME [Next]_vars PROVE [EvNext]_evVars
  OBVIOUS
<1>1. CASE Assemble
  BY <1>1 DEF Assemble, SetPipeline, StartTask, AbortCancel
<1>2. CASE Abort
  BY <1>2 DEF Abort, EvNext
<1>3. ASSUME NEW c \in Caller, End(c) PROVE UNCHANGED evVars
  BY <1>3 DEF End, EndCheck, EndClaim, EndRecheck, EndQueue
<1>4. CASE ChainStep
  BY <1>4 DEF ChainStep, SourceDrain, SinkEnd, ForwardEnd, ProcessorExits
<1>5. CASE runCleanup
  BY <1>5 DEF runCleanup, CleanupBegin, PipelineStop, Disconnect,
              CleanupStopQueue, CleanupDrained, CleanupWaited, CallEnded,
              CleanupCancel, OnCleanup, EvNext
<1>6. ASSUME NEW p \in Producer, SendEvent(p) \/ \E e \in Event : FireEvent(p, e)
      PROVE  EvNext
  BY <1>6 DEF SendEvent, FireEvent, EvNext
<1>7. CASE DispatcherRuns
  BY <1>7 DEF DispatcherRuns, EvNext
<1>8. CASE UNCHANGED vars
  BY <1>8 DEF vars
<1> QED
  BY <1>1, <1>2, <1>3, <1>4, <1>5, <1>6, <1>7, <1>8 DEF Next

\* The dispatcher's state keeps its types.
LEMMA EvTypeNext == EvTypeOK /\ [EvNext]_evVars => EvTypeOK'
<1> SUFFICES ASSUME EvTypeOK, [EvNext]_evVars PROVE EvTypeOK'
  OBVIOUS
<1> USE DEF EvTypeOK
<1>1. ASSUME NEW p \in Producer, Dispatch(p) PROVE EvTypeOK'
  <2>0. PICK e \in Event : e = firing[p]
    BY <1>1 DEF Dispatch
  <2>1. /\ evQueue' = evQueue \/ evQueue' = Append(evQueue, e)
        /\ accepted' = accepted \/ accepted' = Append(accepted, e)
    BY <1>1, <2>0 DEF Dispatch
  <2>2. /\ mu' = NoOne /\ firing' = [firing EXCEPT ![p] = NoEvent]
        /\ UNCHANGED <<fired, closing, running, evDone, ran>>
    BY <1>1 DEF Dispatch
  <2>3. evQueue' \in Seq(Event) /\ accepted' \in Seq(Event)
    <3>1. Append(evQueue, e) \in Seq(Event)
      BY <2>0, AppendType, Zenon
    <3>2. Append(accepted, e) \in Seq(Event)
      BY <2>0, AppendType, Zenon
    <3>3. evQueue \in Seq(Event) /\ accepted \in Seq(Event)
      OBVIOUS
    <3> QED
      BY <2>1, <3>1, <3>2, <3>3, Zenon
  <2>4. firing' \in [Producer -> Event \cup {NoEvent}]
    BY <2>2
  <2> QED
    BY <2>2, <2>3, <2>4, Zenon
<1>2. ASSUME NEW p \in Producer, NEW e \in Event, Fire(p, e) PROVE EvTypeOK'
  BY <1>2 DEF Fire
<1>3. CASE RunCallback
  BY <1>3 DEF RunCallback
<1>4. CASE CallbackReturns
  BY <1>4 DEF CallbackReturns
<1>5. CASE RunExits
  BY <1>5 DEF RunExits
<1>6. CASE StopQueue
  BY <1>6 DEF StopQueue
<1>7. CASE UNCHANGED evVars
  BY <1>7 DEF evVars
<1> QED
  BY <1>1, <1>2, <1>3, <1>4, <1>5, <1>6, <1>7 DEF EvNext, DispatcherStep

\* A goroutine between the closing check and its send holds the mutex, so it
\* is alone there, and stopAndDrain cannot close the queue before it sends.
MutexInv ==
    \A p \in Producer : firing[p] # NoEvent => mu = p /\ ~closing

\* The mutex of dispatch and stopAndDrain protects the send.
LEMMA MutexNext == EvTypeOK /\ MutexInv /\ [EvNext]_evVars => MutexInv'
<1> SUFFICES ASSUME EvTypeOK, MutexInv, [EvNext]_evVars,
                    NEW q \in Producer, firing'[q] # NoEvent
             PROVE  mu' = q /\ ~closing'
  BY Zenon DEF MutexInv
<1>q. firing[q] # NoEvent => mu = q /\ ~closing
  BY DEF MutexInv
<1>1. ASSUME NEW p \in Producer, Dispatch(p) PROVE mu' = q /\ ~closing'
  <2>1. mu = p
    BY <1>1 DEF MutexInv, Dispatch
  <2>2. q # p /\ firing'[q] = firing[q]
    BY <1>1 DEF Dispatch, EvTypeOK
  <2> QED
    BY <2>1, <2>2, <1>q
<1>2. ASSUME NEW p \in Producer, NEW e \in Event, Fire(p, e)
      PROVE  mu' = q /\ ~closing'
  <2>1. mu = NoOne /\ closing' = closing
    BY <1>2, Zenon DEF Fire
  <2>2. firing[q] = NoEvent
    BY <2>1, <1>q
  <2>3. firing' # firing
    BY <2>2
  <2>4. ~closing /\ mu' = p /\ firing' = [firing EXCEPT ![p] = e]
    BY <1>2, <2>3, Zenon DEF Fire
  <2>5. q = p
    BY <2>2, <2>4 DEF EvTypeOK
  <2> QED
    BY <2>1, <2>4, <2>5, Zenon
<1>3. CASE DispatcherStep \/ UNCHANGED evVars
  <2>1. mu' = mu /\ closing' = closing /\ firing' = firing
    BY <1>3, Zenon DEF DispatcherStep, RunCallback, CallbackReturns, RunExits, evVars
  <2> QED
    BY <2>1, <1>q, Zenon
<1>4. CASE StopQueue
  <2>1. mu = NoOne /\ firing' = firing
    BY <1>4, Zenon DEF StopQueue
  <2> QED
    BY <2>1, <1>q
<1> QED
  BY <1>1, <1>2, <1>3, <1>4 DEF EvNext

\* Callbacks start in the order of acceptance, and the queue keeps its bound.
LEMMA OrderNext ==
    EvTypeOK /\ CallbacksInOrder /\ [EvNext]_evVars => CallbacksInOrder'
<1> SUFFICES ASSUME EvTypeOK, CallbacksInOrder, [EvNext]_evVars
             PROVE  CallbacksInOrder'
  OBVIOUS
<1>t. ran \in Seq(Event) /\ evQueue \in Seq(Event)
  BY DEF EvTypeOK
<1>0. /\ accepted = ran \o evQueue /\ Len(evQueue) <= EventCap
      /\ ran \in Seq(Event) /\ evQueue \in Seq(Event)
  BY DEF CallbacksInOrder, EvTypeOK
<1>1. ASSUME NEW p \in Producer, Dispatch(p) PROVE CallbacksInOrder'
  <2>1. CASE Len(evQueue) < EventCap
    <3>0. PICK e \in Event : e = firing[p]
      BY <1>1 DEF Dispatch, EvTypeOK
    <3>1. /\ evQueue' = Append(evQueue, e) /\ accepted' = Append(accepted, e)
          /\ ran' = ran
      BY <1>1, <2>1, <3>0 DEF Dispatch
    <3>2. Append(ran \o evQueue, e) = ran \o Append(evQueue, e)
      BY <1>t, <3>0
    <3>3. Len(evQueue') = Len(evQueue) + 1
      BY <1>0, <3>0, <3>1
    <3>4. accepted' = ran' \o evQueue'
      BY <1>0, <3>1, <3>2, Zenon
    <3> QED
      BY <1>0, <2>1, <3>3, <3>4 DEF CallbacksInOrder
  <2>2. CASE ~(Len(evQueue) < EventCap)
    BY <1>0, <1>1, <2>2 DEF Dispatch, CallbacksInOrder
  <2> QED
    BY <2>1, <2>2
<1>2. CASE RunCallback
  BY <1>0, <1>2, HandOver DEF RunCallback, CallbacksInOrder
<1>3. ASSUME NEW p \in Producer, NEW e \in Event, Fire(p, e)
      PROVE  UNCHANGED <<evQueue, accepted, ran>>
  BY <1>3 DEF Fire
<1>4. CASE CallbackReturns \/ RunExits \/ StopQueue \/ UNCHANGED evVars
  BY <1>0, <1>4 DEF CallbackReturns, RunExits, StopQueue, evVars, CallbacksInOrder
<1> QED
  BY <1>0, <1>1, <1>2, <1>3, <1>4 DEF EvNext, DispatcherStep, CallbacksInOrder

\* An event is accepted once: its sync.Once is spent when it is fired, and
\* what is about to be sent was not sent before.
OnceInv ==
    /\ \A i, j \in DOMAIN accepted : accepted[i] = accepted[j] => i = j
    /\ \A i \in DOMAIN accepted : accepted[i] \in fired
    /\ \A p \in Producer : firing[p] # NoEvent =>
          /\ firing[p] \in fired
          /\ \A i \in DOMAIN accepted : accepted[i] # firing[p]

\* A sync.Once lets an event through once, and the mutex lets nobody in
\* between the Once and the send.
LEMMA OnceNext ==
    EvTypeOK /\ MutexInv /\ OnceInv /\ [EvNext]_evVars => OnceInv'
<1> SUFFICES ASSUME EvTypeOK, MutexInv, OnceInv, [EvNext]_evVars PROVE OnceInv'
  OBVIOUS
<1>t. accepted \in Seq(Event) /\ firing \in [Producer -> Event \cup {NoEvent}]
  BY DEF EvTypeOK
<1>1. ASSUME NEW p \in Producer, Dispatch(p) PROVE OnceInv'
  <2>0. PICK e \in Event : e = firing[p]
    BY <1>1, <1>t DEF Dispatch
  <2>1. /\ accepted' = accepted \/ accepted' = Append(accepted, e)
        /\ firing' = [firing EXCEPT ![p] = NoEvent] /\ fired' = fired
    BY <1>1, <2>0 DEF Dispatch
  <2>2. e \in fired /\ \A i \in DOMAIN accepted : accepted[i] # e
    BY <1>1, <2>0 DEF Dispatch, OnceInv
  <2>3. \A q \in Producer : firing'[q] = NoEvent
    BY <1>1, <1>t, <2>1 DEF Dispatch, MutexInv
  <2>4. CASE accepted' = Append(accepted, e)
    <3>1. /\ DOMAIN accepted = 1..Len(accepted)
          /\ DOMAIN accepted' = 1..(Len(accepted) + 1)
          /\ \A i \in 1..Len(accepted) : accepted'[i] = accepted[i]
          /\ accepted'[Len(accepted) + 1] = e
      BY <1>t, <2>0, <2>4
    <3>2. Len(accepted) \in Nat
      BY <1>t
    <3>3. \A i, j \in DOMAIN accepted' : accepted'[i] = accepted'[j] => i = j
      BY <3>1, <3>2, <2>2 DEF OnceInv
    <3>4. \A i \in DOMAIN accepted' : accepted'[i] \in fired'
      BY <3>1, <3>2, <2>1, <2>2 DEF OnceInv
    <3> QED
      BY <2>3, <3>3, <3>4 DEF OnceInv
  <2>5. CASE accepted' = accepted
    BY <2>1, <2>3, <2>5 DEF OnceInv
  <2> QED
    BY <2>1, <2>4, <2>5
<1>2. ASSUME NEW p \in Producer, NEW e \in Event, Fire(p, e) PROVE OnceInv'
  <2>1. /\ firing' = firing \/ firing' = [firing EXCEPT ![p] = e]
        /\ fired' = fired \cup {e} /\ e \notin fired /\ accepted' = accepted
    BY <1>2 DEF Fire
  <2> QED
    BY <1>t, <2>1 DEF OnceInv
<1>3. CASE DispatcherStep \/ StopQueue \/ UNCHANGED evVars
  <2>1. UNCHANGED <<accepted, fired, firing>>
    BY <1>3, Zenon DEF DispatcherStep, RunCallback, CallbackReturns, RunExits,
                       StopQueue, evVars
  <2> QED
    BY <2>1 DEF OnceInv
<1> QED
  BY <1>1, <1>2, <1>3 DEF EvNext

\* The callback that starts next has not been started before.
LEMMA NextIsNew ==
    ASSUME EvTypeOK, CallbacksInOrder, OnceInv, evQueue # <<>>
    PROVE  Head(evQueue) \notin {ran[n] : n \in DOMAIN ran}
<1> SUFFICES ASSUME NEW n \in DOMAIN ran, ran[n] = Head(evQueue) PROVE FALSE
  OBVIOUS
<1>1. /\ accepted = ran \o evQueue
      /\ ran \in Seq(Event) /\ evQueue \in Seq(Event)
  BY DEF CallbacksInOrder, EvTypeOK
<1>2. /\ n \in 1..Len(ran) /\ Len(ran) \in Nat
      /\ {n, Len(ran) + 1} \subseteq DOMAIN (ran \o evQueue)
  BY <1>1
<1>3. /\ (ran \o evQueue)[n] = ran[n]
      /\ (ran \o evQueue)[Len(ran) + 1] = Head(evQueue)
  BY <1>1, <1>2
<1>4. n = Len(ran) + 1
  BY <1>1, <1>2, <1>3, Zenon DEF OnceInv
<1> QED
  BY <1>2, <1>4

----------------------------------------------------------------------------
(* The task.                                                               *)

\* Cleanup passes the drain only when the dispatcher has exited, and then
\* nothing is queued or running and nothing can be any more.
DrainInv ==
    /\ evDone => closing /\ evQueue = <<>> /\ running = NoEvent
    /\ cleanup \in {"wait", "ended", "cancel", "onCleanup", "done"} => evDone

\* One caller at most is past the claim without a stored reason, and every
\* trace of the end, in End, in the source, in a processor or at the sink,
\* carries the reason that was stored.
EndInv ==
    /\ \A c \in Caller : callPC[c] \in {"recheck", "queue"} => endRequested
    /\ \A c, d \in Caller :
          callPC[c] = "recheck" /\ callPC[d] = "recheck" => c = d
    /\ endReason # NoReason =>
          endRequested /\ \A c \in Caller : callPC[c] # "recheck"
    /\ \A c \in Caller : callPC[c] = "queue" => endReason = ReasonOf[c]
    /\ \A n \in DOMAIN frames : frames[n] = endReason
    /\ \A k \in Processor : inbox[k] \in {NoReason, endReason}
    /\ endFrame \in {NoReason, endReason}

\* Cleanup begins when the EndFrame reaches the sink of a started pipeline,
\* goes past the wait only when no goroutine that can exit is left, reports
\* once and hands the worker back once.
CleanupInv ==
    /\ cleanup = "none" <=> endFrame = NoReason
    /\ live # {} \/ cleanup # "none" => build = "started"
    /\ cleanup \in {"ended", "cancel", "onCleanup", "done"} =>
          live \subseteq Stuck
    /\ endedWith # <<>> <=> cleanup \in {"cancel", "onCleanup", "done"}
    /\ cleanedUp <=> cleanup = "done"

\* The task's state keeps its types; that OnCallEnded is given a reason needs
\* the account of cleanup and of the end.
LEMMA TypeNext ==
    TypeOK /\ EndInv /\ CleanupInv /\ [Next]_vars => TypeOK'
<1> SUFFICES ASSUME TypeOK, EndInv, CleanupInv, [Next]_vars PROVE TypeOK'
  OBVIOUS
<1>1. EvTypeOK'
  BY EventSteps, EvTypeNext DEF TypeOK
<1>2. CASE Assemble \/ Abort
  BY <1>1, <1>2 DEF Assemble, SetPipeline, StartTask, AbortCancel, Abort, TypeOK,
                    endVars, chainVars, cleanVars
<1>3. ASSUME NEW c \in Caller, EndCheck(c) \/ EndClaim(c) PROVE TypeOK'
  BY <1>1, <1>3 DEF EndCheck, EndClaim, TypeOK, chainVars, cleanVars
<1>4. ASSUME NEW c \in Caller, EndRecheck(c) \/ EndQueue(c) PROVE TypeOK'
  <2>0. PICK r \in Reasons : r = ReasonOf[c]
    BY DEF Reasons
  <2>1. CASE EndRecheck(c)
    BY <1>1, <2>0, <2>1 DEF EndRecheck, setEndReason, TypeOK, chainVars, cleanVars
  <2>2. CASE EndQueue(c)
    <3>1. frames' = frames \/ frames' = Append(frames, r)
      BY <2>0, <2>2 DEF EndQueue
    <3>2. frames' \in Seq(Reasons)
      BY <2>0, <3>1 DEF TypeOK
    <3>3. crashed' \in BOOLEAN
      BY <2>2, Zenon DEF EndQueue, TypeOK
    <3> QED
      BY <1>1, <2>2, <3>2, <3>3 DEF EndQueue, TypeOK, cleanVars
  <2> QED
    BY <1>4, <2>1, <2>2
<1>5. CASE SourceDrain
  BY <1>1, <1>5 DEF SourceDrain, Deliver, TypeOK, endVars, cleanVars
<1>6. CASE SinkEnd
  BY <1>1, <1>6 DEF SinkEnd, TypeOK, endVars, CleanupState, Processor
<1>7. ASSUME NEW k \in Processor, ForwardEnd(k) PROVE TypeOK'
  BY <1>1, <1>7 DEF ForwardEnd, Deliver, TypeOK, endVars, cleanVars
<1>8. ASSUME NEW k \in Processor, ProcessorExits(k) PROVE TypeOK'
  BY <1>1, <1>8 DEF ProcessorExits, TypeOK, endVars, cleanVars
<1>9. CASE runCleanup
  <2>1. CASE CleanupBegin \/ PipelineStop \/ Disconnect
    BY <1>1, <2>1 DEF CleanupBegin, PipelineStop, Disconnect, setEndReason,
                      TypeOK, endVars, chainVars, CleanupState
  <2>2. CASE CleanupStopQueue \/ CleanupDrained \/ CleanupWaited
    BY <1>1, <2>2 DEF CleanupStopQueue, CleanupDrained, CleanupWaited,
                      TypeOK, endVars, chainVars, CleanupState
  <2>3. CASE CleanupCancel \/ OnCleanup
    BY <1>1, <2>3 DEF CleanupCancel, OnCleanup,
                      TypeOK, endVars, chainVars, CleanupState
  <2>4. CASE CallEnded
    <3>1. endReason \in Reasons
      BY <2>4 DEF CallEnded, CleanupInv, EndInv, TypeOK
    <3>2. endedWith' \in Seq(Reasons)
      BY <2>4, <3>1 DEF CallEnded, TypeOK
    <3> QED
      BY <1>1, <2>4, <3>2 DEF CallEnded, TypeOK, endVars, chainVars, CleanupState
  <2> QED
    BY <1>9, <2>1, <2>2, <2>3, <2>4 DEF runCleanup
<1>10. CASE UNCHANGED taskVars
  BY <1>1, <1>10 DEF TypeOK, taskVars, endVars, chainVars, cleanVars
<1> QED
  BY <1>2, <1>3, <1>4, <1>5, <1>6, <1>7, <1>8, <1>9, <1>10
     DEF Next, vars, End, ChainStep, SendEvent, FireEvent, DispatcherRuns

\* Cleanup waits for the dispatcher, which exits only when it has nothing left
\* and the closed queue lets nothing in.
LEMMA DrainNext == TypeOK /\ MutexInv /\ DrainInv /\ [Next]_vars => DrainInv'
<1> SUFFICES ASSUME TypeOK, MutexInv, DrainInv, [Next]_vars PROVE DrainInv'
  OBVIOUS
<1> DEFINE Drained == {"wait", "ended", "cancel", "onCleanup", "done"}
<1>0. [EvNext]_evVars
  BY EventSteps
<1>1. evDone' => closing' /\ evQueue' = <<>> /\ running' = NoEvent
  BY <1>0, Zenon DEF DrainInv, MutexInv, EvNext, Dispatch, Fire, DispatcherStep,
     RunCallback, CallbackReturns, RunExits, StopQueue, evVars
<1>2. evDone => evDone'
  BY <1>0, Zenon DEF EvNext, Dispatch, Fire, DispatcherStep,
     RunCallback, CallbackReturns, RunExits, StopQueue, evVars
<1>3. cleanup' \in Drained => cleanup \in Drained \/ evDone
  <2>1. CASE runCleanup
    BY <2>1 DEF runCleanup, CleanupBegin, PipelineStop, Disconnect,
       CleanupStopQueue, CleanupDrained, CleanupWaited, CallEnded,
       CleanupCancel, OnCleanup
  <2>2. CASE SinkEnd
    BY <2>2 DEF SinkEnd
  <2>3. CASE UNCHANGED cleanup
    BY <2>3
  <2> QED
    BY <2>1, <2>2, <2>3 DEF Next, vars, taskVars, cleanVars, Assemble, SetPipeline,
       StartTask, AbortCancel, Abort, End, EndCheck, EndClaim, EndRecheck, EndQueue,
       ChainStep, SourceDrain, ForwardEnd, ProcessorExits,
       SendEvent, FireEvent, DispatcherRuns
<1> QED
  BY <1>1, <1>2, <1>3, Zenon DEF DrainInv

\* One request is claimed, and what it set in motion carries its reason.
LEMMA EndNext == TypeOK /\ EndInv /\ CleanupInv /\ [Next]_vars => EndInv'
<1> SUFFICES ASSUME TypeOK, EndInv, CleanupInv, [Next]_vars PROVE EndInv'
  OBVIOUS
<1>r. NoReason \notin Reasons
  BY DEF Reasons
<1>1. ASSUME NEW c \in Caller, EndCheck(c) PROVE EndInv'
  BY <1>1 DEF EndCheck, EndInv, TypeOK, chainVars, cleanVars
<1>2. ASSUME NEW c \in Caller, EndClaim(c) PROVE EndInv'
  BY <1>2 DEF EndClaim, EndInv, TypeOK, chainVars, cleanVars
<1>3. ASSUME NEW c \in Caller, EndRecheck(c) PROVE EndInv'
  BY <1>3, <1>r DEF EndRecheck, setEndReason, EndInv, TypeOK, chainVars, cleanVars
<1>4. ASSUME NEW c \in Caller, EndQueue(c) PROVE EndInv'
  <2>0. PICK r \in Reasons : r = ReasonOf[c]
    BY DEF Reasons
  <2>1. endReason = r
    BY <1>4, <2>0 DEF EndQueue, EndInv
  <2>2. frames' = frames \/ frames' = Append(frames, r)
    BY <1>4, <2>0 DEF EndQueue
  <2>3. frames \in Seq(Reasons) /\ \A n \in DOMAIN frames : frames[n] = r
    BY <2>1 DEF TypeOK, EndInv
  <2>4. \A n \in DOMAIN frames' : frames'[n] = r
    BY <2>0, <2>2, <2>3
  <2>5. /\ callPC' = [callPC EXCEPT ![c] = "returned"]
        /\ UNCHANGED <<endRequested, endReason, inbox, endFrame>>
    BY <1>4 DEF EndQueue, cleanVars
  <2> QED
    BY <2>1, <2>4, <2>5 DEF EndInv, TypeOK
<1>5. CASE SourceDrain
  BY <1>5 DEF SourceDrain, Deliver, EndInv, TypeOK, endVars, cleanVars, Processor
<1>6. CASE SinkEnd
  BY <1>6 DEF SinkEnd, EndInv, TypeOK, endVars, Processor
<1>7. ASSUME NEW k \in Processor, ForwardEnd(k) PROVE EndInv'
  BY <1>7 DEF ForwardEnd, Deliver, EndInv, TypeOK, endVars, cleanVars, Processor
<1>8. CASE CleanupBegin
  BY <1>8 DEF CleanupBegin, setEndReason, EndInv, CleanupInv, TypeOK, chainVars
<1>9. CASE UNCHANGED <<endRequested, endReason, callPC, frames, inbox, endFrame>>
  BY <1>9 DEF EndInv
<1> QED
  BY <1>1, <1>2, <1>3, <1>4, <1>5, <1>6, <1>7, <1>8, <1>9
     DEF Next, vars, taskVars, endVars, chainVars, cleanVars, Assemble, SetPipeline,
       StartTask, AbortCancel, Abort, End, ChainStep, ProcessorExits, runCleanup,
       PipelineStop, Disconnect, CleanupStopQueue, CleanupDrained, CleanupWaited,
       CallEnded, CleanupCancel, OnCleanup, SendEvent, FireEvent, DispatcherRuns

\* Cleanup goes through its stages in order, and once.
LEMMA CleanupNext == TypeOK /\ CleanupInv /\ [Next]_vars => CleanupInv'
<1> SUFFICES ASSUME TypeOK, CleanupInv, [Next]_vars PROVE CleanupInv'
  OBVIOUS
<1>1. CASE Assemble \/ Abort
  BY <1>1 DEF Assemble, SetPipeline, StartTask, AbortCancel, Abort, CleanupInv,
     chainVars, cleanVars
<1>2. CASE SinkEnd
  BY <1>2 DEF SinkEnd, CleanupInv
<1>3. ASSUME NEW k \in Processor, ProcessorExits(k) PROVE CleanupInv'
  BY <1>3 DEF ProcessorExits, CleanupInv, cleanVars
<1>4. CASE runCleanup
  <2>1. CASE CleanupBegin \/ PipelineStop \/ Disconnect
    BY <2>1 DEF CleanupBegin, PipelineStop, Disconnect, CleanupInv, chainVars
  <2>2. CASE CleanupStopQueue \/ CleanupDrained \/ CleanupWaited
    BY <2>2 DEF CleanupStopQueue, CleanupDrained, CleanupWaited, CleanupInv, chainVars
  <2>3. CASE CallEnded
    <3>1. endedWith' # <<>>
      BY <2>3 DEF CallEnded, TypeOK
    <3> QED
      BY <2>3, <3>1 DEF CallEnded, CleanupInv, chainVars
  <2>4. CASE CleanupCancel \/ OnCleanup
    BY <2>4 DEF CleanupCancel, OnCleanup, CleanupInv, chainVars
  <2> QED
    BY <1>4, <2>1, <2>2, <2>3, <2>4 DEF runCleanup
<1>5. CASE UNCHANGED <<build, live, cleanVars>>
  BY <1>5 DEF CleanupInv, cleanVars
<1> QED
  BY <1>1, <1>2, <1>3, <1>4, <1>5
     DEF Next, vars, taskVars, chainVars, End, EndCheck, EndClaim,
       EndRecheck, EndQueue, ChainStep, SourceDrain, ForwardEnd,
       SendEvent, FireEvent, DispatcherRuns

----------------------------------------------------------------------------
(* The theorems.                                                           *)

\* Everything that is known of a call at any time.
CallInv ==
    /\ TypeOK /\ MutexInv /\ CallbacksInOrder /\ OnceInv
    /\ DrainInv /\ EndInv /\ CleanupInv

\* A task that is being assembled satisfies it.
LEMMA CallInvInit == Init => CallInv
<1> SUFFICES ASSUME Init PROVE CallInv
  OBVIOUS
<1>e. <<>> \in Seq(Event) /\ <<>> \in Seq(Reasons)
  OBVIOUS
<1>0. EvTypeOK
  <2>1. mu \in Producer \cup {NoOne} /\ firing \in [Producer -> Event \cup {NoEvent}]
    BY DEF Init, EvInit
  <2> QED
    BY <1>e, <2>1, Zenon DEF Init, EvInit, EvTypeOK
<1>1. TypeOK
  <2>1. /\ callPC \in [Caller -> {"idle", "claim", "recheck", "queue", "returned"}]
        /\ inbox \in [Processor -> Reasons \cup {NoReason}]
        /\ up \subseteq Processor /\ live \subseteq Processor
    BY DEF Init
  <2>2. /\ build \in {"assembling", "wired", "started", "aborting", "aborted"}
        /\ cleanup \in CleanupState
    BY DEF Init, CleanupState
  <2> QED
    BY <1>e, <1>0, <2>1, <2>2, Zenon DEF Init, TypeOK
<1>2. MutexInv /\ OnceInv /\ CallbacksInOrder
  BY DEF Init, EvInit, MutexInv, OnceInv, CallbacksInOrder
<1>3. DrainInv /\ EndInv
  BY DEF Init, EvInit, DrainInv, EndInv
<1>4. CleanupInv
  BY DEF Init, CleanupInv
<1> QED
  BY <1>1, <1>2, <1>3, <1>4 DEF CallInv

\* Every step of the task keeps it.
LEMMA CallInvNext == CallInv /\ [Next]_vars => CallInv'
<1> SUFFICES ASSUME CallInv, [Next]_vars PROVE CallInv'
  OBVIOUS
<1>1. EvTypeOK /\ [EvNext]_evVars
  BY EventSteps DEF CallInv, TypeOK
<1> QED
  BY <1>1, TypeNext, MutexNext, OrderNext, OnceNext, DrainNext, EndNext,
     CleanupNext, Zenon DEF CallInv

\* Whatever the callbacks, the backend and Redis do.
LEMMA CallInvAlways == RecordSpec => []CallInv
<1>1. RecordInit => CallInv
  BY RecordStart, CallInvInit
<1>2. CallInv /\ [RecordNext]_allVars => CallInv'
  BY RecordSteps, CallInvNext
<1> QED
  BY <1>1, <1>2, PTL DEF RecordSpec

\* The task and its dispatcher keep their types; in particular OnCallEnded is
\* given the reason of a request, never an empty one.
THEOREM TypeCorrect == RecordSpec => []TypeOK
BY CallInvAlways, PTL DEF CallInv

\* No goroutine of the call sends on the queue that cleanup or Abort closed.
THEOREM SafeClose == RecordSpec => []NoSendOnClosed
<1>1. CallInv => NoSendOnClosed
  BY DEF CallInv, MutexInv, NoSendOnClosed
<1> QED
  BY <1>1, CallInvAlways, PTL

\* Callbacks run in the order in which their events were accepted.
THEOREM OrderedCallbacks == RecordSpec => []CallbacksInOrder
BY CallInvAlways, PTL DEF CallInv

\* OnCallEnded comes after every accepted callback has returned.
THEOREM EndedLast == RecordSpec => []CallEndedIsLast
<1>1. CallInv => CallEndedIsLast
  <2> SUFFICES ASSUME CallInv, endedWith # <<>>
               PROVE  evDone /\ running = NoEvent /\ ran = accepted
    BY DEF CallEndedIsLast
  <2>1. evDone
    BY Zenon DEF CallInv, CleanupInv, DrainInv
  <2>2. evQueue = <<>> /\ running = NoEvent
    BY <2>1, Zenon DEF CallInv, DrainInv
  <2>3. ran \in Seq(Event) /\ accepted = ran \o <<>>
    BY <2>2 DEF CallInv, TypeOK, EvTypeOK, CallbacksInOrder
  <2>4. ran = accepted
    BY <2>3
  <2> QED
    BY <2>1, <2>2, <2>4
<1> QED
  BY <1>1, CallInvAlways, PTL

----------------------------------------------------------------------------
(* The refinement.                                                         *)

\* A call that is being assembled is a life that has not begun.
LEMMA LifeInit == Init => Life!Init
BY DEF Init, EvInit, Life!Init

\* One request is accepted, the sink is told its reason, callbacks are made
\* before the report, the report follows the last goroutine that can exit,
\* and the worker is handed back after it; every other step is hidden.
LEMMA LifeNext == CallInv /\ [Next]_vars => [Life!Next]_(Life!vars)
<1> SUFFICES ASSUME CallInv, [Next]_vars PROVE [Life!Next]_(Life!vars)
  OBVIOUS
<1>i. EvTypeOK /\ TypeOK /\ CallbacksInOrder /\ OnceInv /\ DrainInv /\ EndInv /\ CleanupInv
  BY Zenon DEF CallInv, TypeOK
<1> DEFINE lifeVars == <<endReason, endFrame, live, ran, endedWith, cleanedUp>>
<1>u. UNCHANGED lifeVars => UNCHANGED Life!vars
  BY DEF Life!vars
<1>1. CASE StartTask
  <2>1. /\ UNCHANGED <<endReason, endFrame, ran, endedWith, cleanedUp>>
        /\ build = "wired" /\ live' = Processor
    BY <1>1 DEF StartTask, endVars, cleanVars, evVars
  <2>2. endedWith = <<>> /\ live = {}
    BY <1>i, <2>1 DEF CleanupInv
  <2>3. (live' \ Stuck # {}) = (live \ Stuck # {}) \/ (live' \ Stuck # {}) = ~(live \ Stuck # {})
    OBVIOUS
  <2> QED
    BY <2>1, <2>2, <2>3 DEF Life!Next, Life!Work, Life!vars
<1>2. ASSUME NEW k \in Processor, ProcessorExits(k)
      PROVE  [Life!Next]_(Life!vars)
  <2>1. /\ UNCHANGED <<endReason, endFrame, ran, endedWith, cleanedUp>>
        /\ k \in live \ Stuck
    BY <1>2 DEF ProcessorExits, endVars, cleanVars, evVars
  <2>2. endedWith = <<>>
    BY <1>i, <2>1 DEF CleanupInv
  <2>3. (live' \ Stuck # {}) = (live \ Stuck # {}) \/ (live' \ Stuck # {}) = ~(live \ Stuck # {})
    OBVIOUS
  <2> QED
    BY <2>1, <2>2, <2>3 DEF Life!Next, Life!Work, Life!vars
<1>3. ASSUME NEW c \in Caller, EndRecheck(c) PROVE [Life!Next]_(Life!vars)
  <2>1. UNCHANGED <<endFrame, live, ran, endedWith, cleanedUp>>
    BY <1>3 DEF EndRecheck, chainVars, cleanVars, evVars
  <2>2. endReason = NoReason
    BY <1>3, <1>i DEF EndRecheck, EndInv
  <2>3. endReason' = endReason \/ endReason' \in Reasons
    BY <1>3 DEF EndRecheck, setEndReason, Reasons
  <2> QED
    BY <2>1, <2>2, <2>3 DEF Life!Next, Life!Accept, Life!vars
<1>4. CASE SinkEnd
  <2>1. UNCHANGED <<endReason, live, ran, endedWith, cleanedUp>>
    BY <1>4 DEF SinkEnd, endVars, evVars
  <2>2. endFrame' = endFrame \/ (endFrame = NoReason /\ endReason # NoReason /\ endFrame' = endReason)
    BY <1>4, <1>i DEF SinkEnd, EndInv, CleanupInv, Processor
  <2> QED
    BY <2>1, <2>2 DEF Life!Next, Life!Announce, Life!vars
<1>5. CASE CallEnded
  <2>1. /\ UNCHANGED <<endReason, endFrame, live, ran, cleanedUp>>
        /\ cleanup = "ended" /\ endedWith' = Append(endedWith, endReason)
    BY <1>5 DEF CallEnded, endVars, chainVars, evVars
  <2>2. endedWith = <<>> /\ live \ Stuck = {} /\ endFrame # NoReason
    BY <1>i, <2>1 DEF CleanupInv
  <2>3. endedWith' = <<endReason>>
    BY <2>1, <2>2
  <2> QED
    BY <2>1, <2>2, <2>3 DEF Life!Next, Life!Report
<1>6. CASE OnCleanup
  <2>1. /\ UNCHANGED <<endReason, endFrame, live, ran, endedWith>>
        /\ cleanup = "onCleanup" /\ cleanedUp' = TRUE
    BY <1>6, Zenon DEF OnCleanup, endVars, chainVars, evVars
  <2>2. endedWith # <<>> /\ ~cleanedUp
    BY <1>i, <2>1 DEF CleanupInv
  <2> QED
    BY <2>1, <2>2 DEF Life!Next, Life!HandBack
<1>7. CASE RunCallback /\ UNCHANGED taskVars
  <2>1. /\ UNCHANGED <<endReason, endFrame, live, endedWith, cleanedUp>>
        /\ evQueue # <<>> /\ ran' = Append(ran, Head(evQueue))
    BY <1>7 DEF RunCallback, taskVars, endVars, chainVars, cleanVars
  <2>2. endedWith = <<>>
    BY <1>i, <2>1, Zenon DEF CleanupInv, DrainInv
  <2>3. PICK e \in Event : e = Head(evQueue)
    BY <1>i, <2>1 DEF EvTypeOK
  <2>4. e \notin {ran[n] : n \in DOMAIN ran}
    BY <1>i, <2>1, <2>3, NextIsNew
  <2>5. {ran'[n] : n \in DOMAIN ran'} = {ran[n] : n \in DOMAIN ran} \cup {e}
    <3>1. ran \in Seq(Event) /\ ran' = Append(ran, e)
      BY <1>i, <2>1, <2>3 DEF EvTypeOK
    <3>2. /\ DOMAIN ran = 1..Len(ran) /\ DOMAIN ran' = 1..(Len(ran) + 1)
          /\ Len(ran) \in Nat /\ ran'[Len(ran) + 1] = e
          /\ \A n \in 1..Len(ran) : ran'[n] = ran[n]
      BY <2>3, <3>1
    <3> QED
      BY <3>2
  <2> QED
    BY <2>1, <2>2, <2>3, <2>4, <2>5, Zenon DEF Life!Next, Life!Call
<1>8. CASE CleanupBegin
  BY <1>8, <1>i, <1>u DEF CleanupBegin, setEndReason, EndInv, CleanupInv, chainVars, evVars
<1>9. CASE UNCHANGED lifeVars
  BY <1>9, <1>u
<1>10. CASE \/ Assemble /\ ~StartTask
            \/ Abort
            \/ \E c \in Caller : EndCheck(c) \/ EndClaim(c) \/ EndQueue(c)
  BY <1>10, <1>9 DEF Assemble, SetPipeline, AbortCancel, Abort, StopQueue,
     EndCheck, EndClaim, EndQueue, endVars, chainVars, cleanVars, evVars
<1>11. CASE \/ SourceDrain \/ \E k \in Processor : ForwardEnd(k)
            \/ PipelineStop \/ Disconnect \/ CleanupStopQueue \/ CleanupDrained
            \/ CleanupWaited \/ CleanupCancel
  BY <1>11, <1>9 DEF SourceDrain, ForwardEnd, PipelineStop, Disconnect,
     CleanupStopQueue, StopQueue, CleanupDrained, CleanupWaited, CleanupCancel,
     endVars, chainVars, cleanVars, evVars
<1>12. CASE \/ \E p \in Producer : SendEvent(p) \/ \E e \in Event : FireEvent(p, e)
            \/ DispatcherRuns /\ ~RunCallback
            \/ UNCHANGED vars
  BY <1>12, <1>9 DEF SendEvent, FireEvent, DispatcherRuns, DispatcherStep, Dispatch,
     Fire, CallbackReturns, RunExits, vars, taskVars, endVars, chainVars,
     cleanVars, evVars
<1> QED
  BY <1>1, <1>2, <1>3, <1>4, <1>5, <1>6, <1>7, <1>8, <1>10, <1>11, <1>12, Zenon
     DEF Next, Assemble, End, ChainStep, runCleanup, DispatcherRuns, DispatcherStep

\* With any backend behind its callbacks, a task keeps the promise of CallLife:
\* one end, one reason, one report, one return of the worker, in that order.
THEOREM KeepsCallLife == RecordSpec => ImplementsCallLife
<1>1. RecordInit => Life!Init
  BY RecordStart, LifeInit
<1>2. CallInv /\ [RecordNext]_allVars => [Life!Next]_(Life!vars)
  BY RecordSteps, LifeNext
<1> QED
  BY <1>1, <1>2, CallInvAlways, PTL DEF RecordSpec, ImplementsCallLife, Life!Spec

----------------------------------------------------------------------------
(* The record.                                                             *)

Elems(s) == {s[i] : i \in DOMAIN s}
CallbackOp == UNION {Elems(CallbackOps(e)) : e \in Event}
AnyOp == CallbackOp \cup Elems(OnCallEndedOps)

\* What a callback or OnCallEnded does is an operation.
LEMMA OpTyped ==
    /\ \A e \in Event : \A k \in DOMAIN CallbackOps(e) : CallbackOps(e)[k] \in AnyOp
    /\ \A k \in DOMAIN OnCallEndedOps : OnCallEndedOps[k] \in AnyOp
<1>1. ASSUME NEW s, NEW k \in DOMAIN s PROVE s[k] \in Elems(s)
  BY DEF Elems
<1>2. ASSUME NEW e \in Event, NEW k \in DOMAIN CallbackOps(e)
      PROVE  CallbackOps(e)[k] \in AnyOp
  <2>1. CallbackOps(e)[k] \in Elems(CallbackOps(e))
    BY <1>1
  <2> QED
    BY <2>1, Zenon DEF AnyOp, CallbackOp
<1>3. ASSUME NEW k \in DOMAIN OnCallEndedOps PROVE OnCallEndedOps[k] \in AnyOp
  <2>1. OnCallEndedOps[k] \in Elems(OnCallEndedOps)
    BY <1>1, <1>3
  <2> QED
    BY <2>1, Zenon DEF AnyOp
<1> QED
  BY <1>2, <1>3

\* A sequence is one of all sets its elements are in.
LEMMA Retyped ==
    \A S, T : \A s \in Seq(S) : (\A k \in DOMAIN s : s[k] \in T) => s \in Seq(T)
OBVIOUS

\* A callback makes at most two operations, and the chunks it appends are its
\* own and differ.
LEMMA OpsShape ==
    ASSUME NEW e \in Event
    PROVE  /\ CallbackOps(e) \in Seq(AnyOp)
           /\ Len(CallbackOps(e)) \in 0..2
           /\ \A k \in DOMAIN CallbackOps(e) : CallbackOps(e)[k].kind = "chunk" =>
                 CallbackOps(e)[k].id.id[1] = e
           /\ \A k, l \in DOMAIN CallbackOps(e) :
                 /\ CallbackOps(e)[k].kind = "chunk"
                 /\ CallbackOps(e)[l].kind = "chunk"
                 /\ CallbackOps(e)[k].id = CallbackOps(e)[l].id
                 => k = l
<1> DEFINE ops == CallbackOps(e)
           Fine == /\ \A k \in DOMAIN ops : ops[k].kind = "chunk" =>
                         ops[k].id.id[1] = e
                   /\ \A k, l \in DOMAIN ops :
                         /\ ops[k].kind = "chunk" /\ ops[l].kind = "chunk"
                         /\ ops[k].id = ops[l].id
                         => k = l
           Shape == DOMAIN ops = 1..Len(ops) /\ Len(ops) \in 0..2 /\ Fine
<1>c. \A part : chunkOf(e, part).id = <<e, part>>
  BY DEF chunkOf, Plain
<1>o. \A k, x : Op(k, x).kind = k /\ Op(k, x).id = x
  BY DEF Op
<1>1. CASE ops = <<>>
  <2>1. Shape
    BY <1>1
  <2> QED
    BY <1>1, <2>1
<1>2. CASE \E k, x : ops = <<Op(k, x)>> /\ (k = "chunk" => x.id[1] = e)
  <2>1. PICK k, x : ops = <<Op(k, x)>> /\ (k = "chunk" => x.id[1] = e)
    BY <1>2
  <2>2. PICK o : o = Op(k, x) /\ o.kind = k /\ o.id = x
    BY <1>o
  <2>3. ops = <<o>>
    BY <2>1, <2>2, Zenon
  <2>4. Shape
    BY <2>1, <2>2, <2>3
  <2>5. DOMAIN ops = 1..1 /\ ops[1] = o
    BY <2>3
  <2>6. o \in AnyOp
    BY <2>5, OpTyped
  <2>7. <<o>> \in Seq(AnyOp)
    BY <2>6
  <2> QED
    BY <2>3, <2>4, <2>7
<1>3. CASE ops = <<Op("chunk", chunkOf(e, "call")), Op("chunk", chunkOf(e, "result"))>>
  <2>1. PICK o : o = Op("chunk", chunkOf(e, "call"))
    OBVIOUS
  <2>2. PICK q : q = Op("chunk", chunkOf(e, "result"))
    OBVIOUS
  <2>3. ops = <<o, q>>
    BY <1>3, <2>1, <2>2, Zenon
  <2>4. /\ o.kind = "chunk" /\ o.id.id = <<e, "call">>
        /\ q.kind = "chunk" /\ q.id.id = <<e, "result">>
    BY <1>c, <1>o, <2>1, <2>2
  <2>5. o.id # q.id /\ o.id.id[1] = e /\ q.id.id[1] = e
    BY <2>4
  <2>6. Shape
    BY <2>3, <2>4, <2>5
  <2>7. DOMAIN ops = 1..2 /\ ops[1] = o /\ ops[2] = q
    BY <2>3
  <2>8. o \in AnyOp /\ q \in AnyOp
    BY <2>7, OpTyped
  <2>9. <<o, q>> \in Seq(AnyOp)
    BY <2>8
  <2> QED
    BY <2>3, <2>6, <2>9
<1>4. \/ ops = <<>>
      \/ ops = <<Op("update", e)>>
      \/ ops = <<Op("chunk", chunkOf(e, "call")), Op("chunk", chunkOf(e, "result"))>>
      \/ ops = <<Op("chunk", chunkOf(e, EventKind[e]))>>
  BY Zenon DEF CallbackOps
<1>5. chunkOf(e, EventKind[e]).id[1] = e
  BY <1>c
<1> QED
  BY <1>1, <1>2, <1>3, <1>4, <1>5

\* OnCallEnded appends no chunk.
LEMMA EndedShape ==
    /\ OnCallEndedOps \in Seq(AnyOp)
    /\ \A k \in DOMAIN OnCallEndedOps : OnCallEndedOps[k].kind # "chunk"
<1>1. PICK a, b, c, d : /\ a = Op("upload", "log") /\ b = Op("post", "call")
                        /\ c = Op("job", "metrics") /\ d = Sync
  OBVIOUS
<1>2. /\ a.kind # "chunk" /\ b.kind # "chunk" /\ c.kind # "chunk"
      /\ d.kind # "chunk"
  BY <1>1 DEF Op, Sync
<1>3. OnCallEndedOps = <<a, b>> \o (IF daily THEN <<c>> ELSE <<>>) \o <<d>>
  BY <1>1, Zenon DEF OnCallEndedOps
<1> DEFINE S == {a, b, c, d}
<1>4. /\ <<a, b>> \in Seq(S) /\ <<c>> \in Seq(S) /\ <<>> \in Seq(S)
      /\ <<d>> \in Seq(S)
  OBVIOUS
<1>5. PICK s \in Seq(S) : s = <<a, b>> \o (IF daily THEN <<c>> ELSE <<>>)
  <2>1. \A s, t \in Seq(S) : s \o t \in Seq(S)
    OBVIOUS
  <2> QED
    BY <1>4, <2>1, Zenon
<1>6. OnCallEndedOps \in Seq(S)
  <2>1. \A s1, t1 \in Seq(S) : s1 \o t1 \in Seq(S)
    OBVIOUS
  <2> QED
    BY <1>3, <1>4, <1>5, <2>1, Zenon
<1>7. \A k \in DOMAIN OnCallEndedOps : OnCallEndedOps[k] \in S
  BY <1>6
<1> QED
  BY <1>2, <1>6, <1>7, OpTyped, Retyped, Zenon

\* What is left of a callback: the operations behind those it has made.
TodoInv ==
    /\ todo \in Seq(AnyOp)
    /\ running # NoEvent =>
          /\ ran # <<>> /\ ran[Len(ran)] = running
          /\ Len(todo) <= Len(CallbackOps(running))
          /\ \A j \in DOMAIN todo :
                todo[j] = CallbackOps(running)[Len(CallbackOps(running)) - Len(todo) + j]
    /\ running = NoEvent => \A j \in DOMAIN todo : todo[j].kind # "chunk"

\* The chunks whose append was tried.
Tried ==
    {p \in Due : /\ p[1] <= Len(ran)
                 /\ running # NoEvent /\ p[1] = Len(ran) =>
                       p[2] <= Len(CallbackOps(running)) - Len(todo)}

\* Redis holds them in order, except those whose append failed.
RedisInv ==
    /\ redis \in Seq({chunkAt(p) : p \in Tried})
    /\ \A p \in Tried : \/ chunkAt(p) \in lostChunks
                        \/ \E i \in DOMAIN redis : redis[i] = chunkAt(p)
    /\ \A i, j \in DOMAIN redis, p, q \in Tried :
          redis[i] = chunkAt(p) /\ redis[j] = chunkAt(q) /\ Earlier(p, q) => i < j

RecordInv == TodoInv /\ RedisInv

\* The chunks of a call differ: each event is accepted once.
LEMMA DueDiffer ==
    ASSUME CallInv, NEW p \in Due, NEW q \in Due, chunkAt(p) = chunkAt(q)
    PROVE  p = q
<1> DEFINE ops(n) == CallbackOps(accepted[n])
<1>0. /\ p \in (DOMAIN accepted) \X (1..2) /\ q \in (DOMAIN accepted) \X (1..2)
      /\ p[2] \in DOMAIN ops(p[1]) /\ ops(p[1])[p[2]].kind = "chunk"
      /\ q[2] \in DOMAIN ops(q[1]) /\ ops(q[1])[q[2]].kind = "chunk"
  BY DEF Due
<1>1. accepted[p[1]] \in Event /\ accepted[q[1]] \in Event
  BY <1>0 DEF CallInv, TypeOK, EvTypeOK
<1>2. chunkAt(p).id[1] = accepted[p[1]] /\ chunkAt(q).id[1] = accepted[q[1]]
  BY <1>0, <1>1, OpsShape DEF chunkAt
<1>3. p[1] = q[1]
  BY <1>0, <1>2 DEF CallInv, OnceInv
<1>4. p[2] = q[2]
  BY <1>0, <1>1, <1>3, OpsShape DEF chunkAt
<1> QED
  BY <1>0, <1>3, <1>4

\* A step that tries no append leaves the record as it is.
LEMMA RedisFrame ==
    ASSUME RedisInv, Tried' = Tried, \A p \in Tried : chunkAt(p)' = chunkAt(p),
           UNCHANGED <<redis, lostChunks>>
    PROVE  RedisInv'
<1>1. {chunkAt(p)' : p \in Tried'} = {chunkAt(p) : p \in Tried}
  OBVIOUS
<1> QED
  BY <1>1 DEF RedisInv

\* What was accepted before stays due, and nothing else of it becomes due.
LEMMA DueGrows ==
    ASSUME CallInv, [EvNext]_evVars
    PROVE  /\ Len(ran) <= Len(accepted) /\ Len(accepted) \in Nat
           /\ \A n \in 1..Len(accepted) : accepted'[n] = accepted[n]
           /\ \A p \in Due : p \in Due' /\ chunkAt(p)' = chunkAt(p)
           /\ \A p \in Due' : p[1] \in 1..Len(accepted) => p \in Due
<1>0. /\ accepted \in Seq(Event) /\ ran \in Seq(Event) /\ evQueue \in Seq(Event)
      /\ accepted = ran \o evQueue /\ firing \in [Producer -> Event \cup {NoEvent}]
  BY DEF CallInv, TypeOK, EvTypeOK, CallbacksInOrder
<1>1. Len(ran) <= Len(accepted) /\ Len(accepted) \in Nat
  BY <1>0
<1>2. accepted' = accepted \/ \E e \in Event : accepted' = Append(accepted, e)
  <2>1. ASSUME NEW p \in Producer, Dispatch(p)
        PROVE  accepted' = accepted \/ \E e \in Event : accepted' = Append(accepted, e)
    BY <1>0, <2>1 DEF Dispatch
  <2> QED
    BY <2>1 DEF EvNext, Fire, DispatcherStep, RunCallback, CallbackReturns, RunExits,
       StopQueue, evVars
<1>3. /\ DOMAIN accepted \subseteq DOMAIN accepted'
      /\ \A n \in DOMAIN accepted : accepted'[n] = accepted[n]
      /\ DOMAIN accepted = 1..Len(accepted)
  BY <1>0, <1>2
<1> QED
  BY <1>1, <1>3 DEF Due, chunkAt

\* A callback starts: none of its chunks was tried (RunCallback).
LEMMA RecordCallback ==
    ASSUME CallInv, RecordInv, RunCallback, Coupled, [EvNext]_evVars
    PROVE  RecordInv'
<1>0. /\ running = NoEvent /\ running' \in Event /\ running' # NoEvent
      /\ ran' = Append(ran, running') /\ accepted' = accepted
      /\ ran \in Seq(Event) /\ todo' = CallbackOps(running')
      /\ UNCHANGED <<redis, lostChunks>>
  BY EventAssumption DEF CallInv, TypeOK, EvTypeOK, RunCallback, Coupled
<1>1. /\ todo' \in Seq(AnyOp) /\ Len(todo') \in Nat
  BY <1>0, OpsShape
<1>2. TodoInv'
  <2>1. /\ ran' # <<>> /\ ran'[Len(ran')] = running'
    BY <1>0
  <2>2. ASSUME NEW j \in DOMAIN todo'
        PROVE  todo'[j] = CallbackOps(running')[Len(CallbackOps(running')) - Len(todo') + j]
    <3>1. Len(todo') - Len(todo') + j = j
      BY <1>1, <2>2
    <3> QED
      BY <1>0, <3>1
  <2> QED
    BY <1>0, <1>1, <2>1, <2>2 DEF TodoInv
<1>3. Due' = Due /\ \A p \in Due : chunkAt(p)' = chunkAt(p)
  BY <1>0 DEF Due, chunkAt
<1>4. Len(ran') = Len(ran) + 1 /\ Len(ran) \in Nat
  BY <1>0
<1>5. \A p \in Due : p[1] \in Nat /\ p[2] \in 1..2
  <2>1. DOMAIN accepted \subseteq Nat
    BY DEF CallInv, TypeOK, EvTypeOK
  <2> QED
    BY <2>1 DEF Due
<1>6. Tried' = Tried
  <2>1. Tried' = {p \in Due : /\ p[1] <= Len(ran) + 1
                              /\ p[1] = Len(ran) + 1 => p[2] <= 0}
    <3>1. Len(CallbackOps(running')) - Len(todo') = 0
      BY <1>0, <1>1
    <3> QED
      BY <1>0, <1>3, <1>4, <3>1 DEF Tried
  <2>2. Tried = {p \in Due : p[1] <= Len(ran)}
    BY <1>0 DEF Tried
  <2> QED
    BY <1>4, <1>5, <2>1, <2>2
<1>7. Tried \subseteq Due
  BY DEF Tried
<1> QED
  BY <1>0, <1>2, <1>3, <1>6, <1>7, RedisFrame DEF RecordInv

\* A callback returns when all its operations were made (CallbackReturns).
LEMMA RecordReturn ==
    ASSUME CallInv, RecordInv, CallbackReturns, Coupled, [EvNext]_evVars,
           cleanup' = "ended" => cleanup = "ended"
    PROVE  RecordInv'
<1>0. /\ running # NoEvent /\ running \in Event /\ running' = NoEvent
      /\ UNCHANGED <<ran, accepted>> /\ todo = <<>> /\ todo' = todo
      /\ UNCHANGED <<redis, lostChunks>>
  BY DEF CallInv, TypeOK, EvTypeOK, CallbackReturns, Coupled
<1>1. TodoInv'
  BY <1>0 DEF TodoInv, RecordInv
<1>2. Due' = Due /\ \A p \in Due : chunkAt(p)' = chunkAt(p)
  BY <1>0 DEF Due, chunkAt
<1>3. ASSUME NEW p \in Due, p[1] = Len(ran)
      PROVE  p[2] <= Len(CallbackOps(running)) - Len(todo)
  <2>1. accepted[p[1]] = running
    <3>1. /\ ran \in Seq(Event) /\ evQueue \in Seq(Event) /\ accepted = ran \o evQueue
          /\ ran # <<>> /\ ran[Len(ran)] = running
      BY <1>0 DEF CallInv, TypeOK, EvTypeOK, CallbacksInOrder, RecordInv, TodoInv
    <3> QED
      BY <1>3, <3>1
  <2>2. p[2] \in DOMAIN CallbackOps(running) /\ p[2] \in 1..2
    BY <2>1 DEF Due
  <2>3. p[2] <= Len(CallbackOps(running)) /\ Len(CallbackOps(running)) \in Nat
    BY <1>0, <2>2, OpsShape
  <2>4. Len(todo) = 0
    BY <1>0
  <2> QED
    BY <2>2, <2>3, <2>4
<1>4. Tried' = Tried
  <2>1. Tried' = {p \in Due : p[1] <= Len(ran)}
    BY <1>0, <1>2 DEF Tried
  <2>2. Tried = {p \in Due : p[1] <= Len(ran)}
    BY <1>3 DEF Tried
  <2> QED
    BY <2>1, <2>2
<1>5. Tried \subseteq Due
  BY DEF Tried
<1> QED
  BY <1>0, <1>1, <1>2, <1>4, <1>5, RedisFrame DEF RecordInv

\* Every other step of the task leaves the running callback alone.
LEMMA RecordOther ==
    ASSUME CallInv, CallInv', RecordInv, Coupled, [EvNext]_evVars,
           UNCHANGED <<running, ran>>
    PROVE  RecordInv'
<1>0. /\ UNCHANGED <<redis, lostChunks>> /\ todo \in Seq(AnyOp)
      /\ todo' = todo \/ (cleanup' = "ended" /\ todo' = OnCallEndedOps)
  BY DEF Coupled, RecordInv, TodoInv
<1>1. cleanup' = "ended" => running = NoEvent /\ running' = NoEvent
  BY DEF CallInv, DrainInv
<1>2. TodoInv'
  <2>1. CASE todo' = todo
    BY <1>0, <2>1 DEF TodoInv, RecordInv
  <2>2. CASE cleanup' = "ended" /\ todo' = OnCallEndedOps
    BY <1>1, <2>2, EndedShape DEF TodoInv
  <2> QED
    BY <1>0, <2>1, <2>2
<1>3. Tried' = Tried
  <2>1. \A p \in Due : p[1] \in Nat
    <3>1. DOMAIN accepted \subseteq Nat
      BY DEF CallInv, TypeOK, EvTypeOK
    <3> QED
      BY <3>1 DEF Due
  <2>2. \A p \in Due' : p[1] \in Nat \ {0}
    <3>1. DOMAIN accepted' \subseteq Nat \ {0}
      BY DEF CallInv, TypeOK, EvTypeOK
    <3> QED
      BY <3>1 DEF Due
  <2>3. Len(ran) \in Nat
    BY DEF CallInv, TypeOK, EvTypeOK
  <2>4. \A p \in Due' : p[1] <= Len(ran) => p \in Due
    BY <2>2, <2>3, DueGrows
  <2>5. running # NoEvent => todo' = todo
    BY <1>0, <1>1
  <2>6. ASSUME NEW p \in Tried PROVE p \in Tried'
    BY <2>5, <2>6, DueGrows DEF Tried
  <2>7. ASSUME NEW p \in Tried' PROVE p \in Tried
    BY <2>4, <2>5, <2>7 DEF Tried
  <2> QED
    BY <2>6, <2>7
<1>4. \A p \in Tried : chunkAt(p)' = chunkAt(p)
  BY DueGrows DEF Tried
<1> QED
  BY <1>0, <1>2, <1>3, <1>4, RedisFrame DEF RecordInv

\* An operation is made, and the callback goes on with the next.
LEMMA RecordStep ==
    ASSUME CallInv, TodoInv, UNCHANGED vars, Step
    PROVE  /\ TodoInv'
           /\ todo \in Seq(AnyOp) /\ Len(todo) \in Nat \ {0}
           /\ Len(todo') = Len(todo) - 1
<1>0. /\ todo \in Seq(AnyOp) /\ todo # <<>> /\ todo' = Tail(todo)
      /\ UNCHANGED <<running, ran>>
  BY DEF TodoInv, Step, vars, evVars
<1>1. /\ Len(todo) \in Nat \ {0} /\ Len(todo') = Len(todo) - 1 /\ todo' \in Seq(AnyOp)
      /\ \A j \in DOMAIN todo' : j \in Nat /\ j + 1 \in DOMAIN todo /\ todo'[j] = todo[j + 1]
  BY <1>0
<1>2. ASSUME running # NoEvent
      PROVE  /\ ran # <<>> /\ ran[Len(ran)] = running
             /\ Len(todo') <= Len(CallbackOps(running))
             /\ \A j \in DOMAIN todo' :
                   todo'[j]
                     = CallbackOps(running)[Len(CallbackOps(running)) - Len(todo') + j]
  <2>0. running \in Event
    BY <1>2 DEF CallInv, TypeOK, EvTypeOK
  <2>1. Len(CallbackOps(running)) \in Nat
    BY <2>0, OpsShape
  <2>2. ASSUME NEW j \in DOMAIN todo'
        PROVE  todo'[j]
                 = CallbackOps(running)[Len(CallbackOps(running)) - Len(todo') + j]
    <3>1. Len(CallbackOps(running)) - Len(todo') + j
            = Len(CallbackOps(running)) - Len(todo) + (j + 1)
      BY <1>1, <2>1, <2>2
    <3> QED
      BY <1>1, <1>2, <2>2, <3>1, Zenon DEF TodoInv
  <2> QED
    BY <1>1, <1>2, <2>1, <2>2 DEF TodoInv
<1> QED
  BY <1>0, <1>1, <1>2 DEF TodoInv

\* The operation made next is the one behind those made before.
LEMMA NextOp ==
    ASSUME CallInv, TodoInv, todo # <<>>, running # NoEvent
    PROVE  LET k == Len(CallbackOps(running)) - Len(todo) + 1 IN
           /\ k \in DOMAIN CallbackOps(running)
           /\ Head(todo) = CallbackOps(running)[k]
<1>0. running \in Event
  BY DEF CallInv, TypeOK, EvTypeOK
<1>1. /\ Len(CallbackOps(running)) \in Nat
      /\ DOMAIN CallbackOps(running) = 1..Len(CallbackOps(running))
  BY <1>0, OpsShape
<1>2. todo \in Seq(AnyOp) /\ Len(todo) \in Nat \ {0} /\ Head(todo) = todo[1]
      /\ 1 \in DOMAIN todo
  BY DEF TodoInv
<1> QED
  BY <1>1, <1>2 DEF TodoInv

\* A step that tries no append makes no chunk's operation.
LEMMA RecordNoAppend ==
    ASSUME CallInv, RecordInv, UNCHANGED vars, Step, Head(todo).kind # "chunk",
           UNCHANGED <<redis, lostChunks>>
    PROVE  RecordInv'
<1>0. TodoInv /\ RedisInv /\ todo # <<>>
  BY DEF RecordInv, Step
<1>1. TodoInv' /\ Len(todo) \in Nat \ {0} /\ Len(todo') = Len(todo) - 1
  BY <1>0, RecordStep
<1>2. UNCHANGED <<accepted, running, ran>>
  BY DEF vars, evVars
<1>3. Due' = Due /\ \A p \in Due : chunkAt(p)' = chunkAt(p)
  BY <1>2 DEF Due, chunkAt
<1>4. ASSUME NEW p \in Due, running # NoEvent, p[1] = Len(ran)
      PROVE  /\ p[2] \in Nat /\ Len(CallbackOps(running)) \in Nat
             /\ p[2] # Len(CallbackOps(running)) - Len(todo) + 1
  <2>0. running \in Event
    BY <1>4 DEF CallInv, TypeOK, EvTypeOK
  <2>1. accepted[p[1]] = running
    <3>1. /\ ran \in Seq(Event) /\ evQueue \in Seq(Event) /\ accepted = ran \o evQueue
          /\ ran # <<>> /\ ran[Len(ran)] = running
      BY <1>0, <1>4 DEF CallInv, TypeOK, EvTypeOK, CallbacksInOrder, TodoInv
    <3> QED
      BY <1>4, <3>1
  <2>2. CallbackOps(running)[p[2]].kind = "chunk" /\ p[2] \in Nat
    BY <2>1 DEF Due
  <2>3. Head(todo) = CallbackOps(running)[Len(CallbackOps(running)) - Len(todo) + 1]
    BY <1>0, <1>4, NextOp
  <2>4. Len(CallbackOps(running)) \in Nat
    BY <2>0, OpsShape
  <2> QED
    BY <2>2, <2>3, <2>4
<1>5. Tried' = Tried
  <2>1. ASSUME NEW p \in Due, running # NoEvent, p[1] = Len(ran)
        PROVE  p[2] <= Len(CallbackOps(running)) - Len(todo')
                 <=> p[2] <= Len(CallbackOps(running)) - Len(todo)
    BY <1>1, <1>4, <2>1
  <2> QED
    BY <1>2, <1>3, <2>1 DEF Tried
<1>6. Tried \subseteq Due
  BY DEF Tried
<1> QED
  BY <1>0, <1>1, <1>3, <1>5, <1>6, RedisFrame DEF RecordInv

\* A successful append took effect at least once.
LEMMA Outcomes ==
    \A w \in withRedisTimeoutRetry :
        w[1] \in Nat /\ w[2] \in BOOLEAN /\ (w[2] = TRUE => w[1] > 0)
<1> SUFFICES ASSUME NEW w \in withRedisTimeoutRetry
             PROVE  w[1] \in Nat /\ w[2] \in BOOLEAN /\ (w[2] = TRUE => w[1] > 0)
  OBVIOUS
<1> DEFINE Timeouts == 0..(maxAttempts - 1)
           Answers == {<<1, TRUE>>, <<0, FALSE>>, <<1, FALSE>>}
<1>0. w \in {<<k + o[1], o[2]>> : k \in Timeouts, o \in Answers}
  BY DEF withRedisTimeoutRetry, Attempts
<1>a. \A r \in Answers : \/ r[1] = 1 /\ r[2] = TRUE
                         \/ r[1] \in {0, 1} /\ r[2] = FALSE
  <2>1. <<1, TRUE>>[1] = 1 /\ <<0, FALSE>>[1] = 0 /\ <<1, FALSE>>[1] = 1
    OBVIOUS
  <2>2. <<1, TRUE>>[2] = TRUE /\ <<0, FALSE>>[2] = FALSE /\ <<1, FALSE>>[2] = FALSE
    OBVIOUS
  <2> QED
    BY <2>1, <2>2, Zenon
<1>k. \A k \in Timeouts : k \in Nat
  BY RecordAssumption
<1> HIDE DEF Timeouts, Answers
<1>1. PICK k \in Timeouts, r \in Answers : w = <<k + r[1], r[2]>>
  BY <1>0
<1>2. k \in Nat /\ w[1] = k + r[1]
  BY <1>1, <1>k
<1>3. w[2] = r[2]
  BY <1>1
<1>4. CASE r[1] = 1 /\ r[2] = TRUE
  <2>1. w[1] \in Nat /\ w[1] > 0
    BY <1>2, <1>4
  <2> QED
    BY <1>3, <1>4, <2>1, Zenon
<1>5. CASE r[1] \in {0, 1} /\ r[2] = FALSE
  <2>1. w[1] \in Nat
    BY <1>2, <1>5
  <2> QED
    BY <1>3, <1>5, <2>1, Zenon
<1> QED
  BY <1>1, <1>4, <1>5, <1>a, Zenon

\* What Redis holds after the chunk c was appended n times.
LEMMA Appended ==
    ASSUME NEW S, NEW s \in Seq(S), NEW n \in Nat, NEW c
    PROVE  LET t == s \o [m \in 1..n |-> c] IN
           /\ t \in Seq(S \cup {c})
           /\ DOMAIN s = 1..Len(s) /\ Len(s) \in Nat
           /\ DOMAIN t = 1..(Len(s) + n)
           /\ \A i \in 1..Len(s) : t[i] = s[i]
           /\ \A i \in (Len(s) + 1)..(Len(s) + n) : t[i] = c
<1>1. s \in Seq(S \cup {c}) /\ [m \in 1..n |-> c] \in Seq(S \cup {c})
  OBVIOUS
<1>2. PICK u \in Seq(S \cup {c}) : u = [m \in 1..n |-> c]
  BY <1>1
<1>3. Len(u) = n /\ \A m \in 1..n : u[m] = c
  BY <1>2
<1> QED
  BY <1>1, <1>2, <1>3

\* An append adds the next chunk of the running callback behind all others,
\* once or more if it succeeds (AppendChunk).
LEMMA RecordAppend ==
    ASSUME CallInv, RecordInv, UNCHANGED vars, AppendChunk
    PROVE  RecordInv'
<1>0. TodoInv /\ RedisInv /\ todo # <<>> /\ Step /\ Head(todo).kind = "chunk"
  BY DEF RecordInv, AppendChunk, Step
<1>1. /\ TodoInv' /\ todo \in Seq(AnyOp) /\ Len(todo) \in Nat \ {0}
      /\ Len(todo') = Len(todo) - 1
  BY <1>0, RecordStep
<1>2. UNCHANGED <<accepted, running, ran>>
  BY DEF vars, evVars
<1>3. running # NoEvent
  <2>1. Head(todo) = todo[1] /\ 1 \in DOMAIN todo
    BY <1>1
  <2> QED
    BY <1>0, <2>1 DEF TodoInv
<1>4. Due' = Due /\ \A p : chunkAt(p)' = chunkAt(p)
  BY <1>2 DEF Due, chunkAt
<1> DEFINE k == Len(CallbackOps(running)) - Len(todo) + 1
           r == <<Len(ran), k>>
           c == Head(todo).id
<1>5. /\ Len(ran) \in DOMAIN accepted /\ Len(ran) \in Nat
      /\ accepted[Len(ran)] = running /\ running \in Event
  <2>1. /\ ran \in Seq(Event) /\ evQueue \in Seq(Event) /\ accepted = ran \o evQueue
        /\ ran # <<>> /\ ran[Len(ran)] = running /\ running \in Event \cup {NoEvent}
    BY <1>0, <1>3 DEF CallInv, TypeOK, EvTypeOK, CallbacksInOrder, TodoInv
  <2> QED
    BY <1>3, <2>1
<1>6. k \in DOMAIN CallbackOps(running) /\ Head(todo) = CallbackOps(running)[k]
  BY <1>0, <1>3, NextOp
<1>7. Len(CallbackOps(running)) \in 0..2 /\ k \in 1..2
  <2>1. /\ CallbackOps(running) \in Seq(AnyOp)
        /\ Len(CallbackOps(running)) \in 0..2
    BY <1>5, OpsShape
  <2> QED
    BY <1>6, <2>1
<1>8. r \in Due /\ chunkAt(r) = c
  BY <1>0, <1>5, <1>6, <1>7 DEF Due, chunkAt
<1>9. \A p \in Due : p = <<p[1], p[2]>> /\ p[1] \in Nat /\ p[2] \in Nat
  <2>1. DOMAIN accepted \subseteq Nat
    BY DEF CallInv, TypeOK, EvTypeOK
  <2> QED
    BY <2>1 DEF Due
<1>10. Tried' = Tried \cup {r}
  <2>1. Len(CallbackOps(running)) - Len(todo') = k
    BY <1>1, <1>7
  <2>2. Len(CallbackOps(running)) - Len(todo) = k - 1
    BY <1>1, <1>7
  <2> HIDE DEF k
  <2>3. Tried' = {p \in Due : p[1] <= Len(ran) /\ (p[1] = Len(ran) => p[2] <= k)}
    BY <1>2, <1>3, <1>4, <2>1 DEF Tried
  <2>4. Tried = {p \in Due : p[1] <= Len(ran) /\ (p[1] = Len(ran) => p[2] <= k - 1)}
    BY <1>3, <2>2 DEF Tried
  <2>5. ASSUME NEW p \in Due, p[1] <= Len(ran), p[1] = Len(ran) => p[2] <= k, p # r
        PROVE  p[1] = Len(ran) => p[2] <= k - 1
    <3>1. p[1] # Len(ran) \/ p[2] # k
      BY <1>9, <2>5
    <3> QED
      BY <1>7, <1>9, <2>5, <3>1
  <2>6. ASSUME NEW p \in Tried PROVE p \in Tried'
    BY <1>7, <1>9, <2>3, <2>4, <2>6
  <2>7. r \in Tried'
    BY <1>5, <1>7, <1>8, <2>3
  <2> QED
    BY <2>3, <2>4, <2>5, <2>6, <2>7
<1>11. ASSUME NEW p \in Tried PROVE p \in Due /\ p # r /\ ~Earlier(r, p)
  <2>1. /\ p \in Due /\ p[1] <= Len(ran)
        /\ p[1] = Len(ran) => p[2] <= Len(CallbackOps(running)) - Len(todo)
    BY <1>3, <1>11 DEF Tried
  <2>2. p[1] = Len(ran) => p[2] < k
    BY <1>1, <1>7, <1>9, <2>1
  <2> QED
    BY <1>5, <1>7, <1>9, <2>1, <2>2 DEF Earlier
<1> HIDE DEF k, r, c
<1>12. PICK o \in withRedisTimeoutRetry :
          /\ redis' = redis \o [n \in 1..o[1] |-> c]
          /\ lostChunks' = IF o[2] THEN lostChunks ELSE lostChunks \cup {c}
  BY DEF AppendChunk, c
<1>13. /\ o[2] \in BOOLEAN
       /\ \E n \in Nat : n = o[1] /\ (o[2] = TRUE => n > 0)
  BY <1>12, Outcomes
<1>n. PICK n \in Nat : n = o[1] /\ (o[2] = TRUE => n > 0)
  BY <1>13
<1>14. lostChunks \subseteq lostChunks' /\ (c \in lostChunks' \/ n > 0)
  BY <1>12, <1>13, <1>n
<1>15. /\ redis' \in Seq({chunkAt(p) : p \in Tried} \cup {c})
       /\ DOMAIN redis = 1..Len(redis) /\ Len(redis) \in Nat
       /\ DOMAIN redis' = 1..(Len(redis) + n)
       /\ \A i \in 1..Len(redis) : redis'[i] = redis[i]
       /\ \A i \in (Len(redis) + 1)..(Len(redis) + n) : redis'[i] = c
  <2>1. redis' = redis \o [m \in 1..n |-> c]
    BY <1>12, <1>n
  <2> DEFINE S == {chunkAt(p) : p \in Tried}
  <2>2. redis \in Seq(S)
    BY <1>0 DEF RedisInv
  <2> HIDE DEF S
  <2>3. /\ redis' \in Seq(S \cup {c})
        /\ DOMAIN redis = 1..Len(redis) /\ Len(redis) \in Nat
        /\ DOMAIN redis' = 1..(Len(redis) + n)
        /\ \A i \in 1..Len(redis) : redis'[i] = redis[i]
        /\ \A i \in (Len(redis) + 1)..(Len(redis) + n) : redis'[i] = c
    BY <2>1, <2>2, Appended
  <2> QED
    BY <2>3 DEF S
<1>16. redis' \in Seq({chunkAt(p)' : p \in Tried'})
  <2>1. {chunkAt(p)' : p \in Tried'} = {chunkAt(p) : p \in Tried} \cup {c}
    BY <1>4, <1>8, <1>10
  <2> QED
    BY <1>15, <2>1
<1>17. ASSUME NEW p \in Tried'
       PROVE  \/ chunkAt(p)' \in lostChunks'
              \/ \E i \in DOMAIN redis' : redis'[i] = chunkAt(p)'
  <2>1. CASE p = r
    <3>1. n > 0 => Len(redis) + 1 \in DOMAIN redis' /\ redis'[Len(redis) + 1] = c
      BY <1>15
    <3> QED
      BY <1>4, <1>8, <1>14, <2>1, <3>1
  <2>2. CASE p \in Tried
    <3>1. \/ chunkAt(p) \in lostChunks
          \/ \E i \in DOMAIN redis : redis[i] = chunkAt(p)
      BY <1>0, <2>2 DEF RedisInv
    <3> QED
      BY <1>4, <1>14, <1>15, <3>1
  <2> QED
    BY <1>10, <2>1, <2>2
<1>18. ASSUME NEW i \in DOMAIN redis, NEW p \in Tried', redis[i] = chunkAt(p)
       PROVE  p \in Tried
  <2>1. PICK q \in Tried : redis[i] = chunkAt(q)
    BY <1>0, <1>18 DEF RedisInv
  <2>2. p \in Due /\ q \in Due
    BY <1>8, <1>10, <1>11, <1>18
  <2> QED
    BY <1>18, <2>1, <2>2, DueDiffer
<1>19. ASSUME NEW i \in DOMAIN redis', NEW j \in DOMAIN redis', NEW p \in Tried',
              NEW q \in Tried', redis'[i] = chunkAt(p)', redis'[j] = chunkAt(q)',
              Earlier(p, q)
       PROVE  i < j
  <2>0. redis'[i] = chunkAt(p) /\ redis'[j] = chunkAt(q) /\ i \in Nat /\ j \in Nat
    BY <1>4, <1>15, <1>19
  <2>1. CASE i <= Len(redis) /\ j <= Len(redis)
    <3>1. /\ i \in DOMAIN redis /\ j \in DOMAIN redis
          /\ redis[i] = chunkAt(p) /\ redis[j] = chunkAt(q)
      BY <1>15, <2>0, <2>1
    <3>2. p \in Tried /\ q \in Tried
      BY <1>18, <3>1
    <3> QED
      BY <1>0, <1>19, <3>1, <3>2 DEF RedisInv
  <2>2. CASE i <= Len(redis) /\ j > Len(redis)
    BY <1>15, <2>0, <2>2
  <2>3. CASE i > Len(redis)
    <3>1. redis'[i] = c
      BY <1>15, <2>0, <2>3
    <3>2. p \in Due /\ q \in Due
      BY <1>8, <1>10, <1>11
    <3>3. p = r
      BY <1>8, <2>0, <3>1, <3>2, DueDiffer
    <3>4. q = r \/ q \in Tried
      BY <1>10
    <3>5. ~Earlier(r, r)
      BY <1>8, <1>9 DEF Earlier
    <3> QED
      BY <1>11, <1>19, <3>3, <3>4, <3>5
  <2> QED
    BY <1>15, <2>0, <2>1, <2>2, <2>3
<1> QED
  BY <1>1, <1>16, <1>17, <1>19, Zenon DEF RecordInv, RedisInv

\* A call starts with nothing to append and an empty record.
LEMMA RecordInvInit == RecordInit => RecordInv
<1> SUFFICES ASSUME RecordInit PROVE RecordInv
  OBVIOUS
<1>1. /\ todo = <<>> /\ redis = <<>> /\ running = NoEvent /\ accepted = <<>>
  BY DEF RecordInit, Init, EvInit
<1>2. Due = {}
  BY <1>1 DEF Due
<1>3. Tried = {}
  BY <1>2 DEF Tried
<1>4. TodoInv
  BY <1>1 DEF TodoInv
<1>5. RedisInv
  BY <1>1, <1>3 DEF RedisInv
<1> QED
  BY <1>4, <1>5 DEF RecordInv

\* Every step of the call, its callbacks and its backend keeps the record.
LEMMA RecordInvNext ==
    CallInv /\ RecordInv /\ [RecordNext]_allVars => RecordInv'
<1> SUFFICES ASSUME CallInv, RecordInv, [RecordNext]_allVars PROVE RecordInv'
  OBVIOUS
<1>0. CallInv' /\ [Next]_vars /\ [EvNext]_evVars
  BY RecordSteps, CallInvNext, EventSteps
<1>1. CASE Next /\ Coupled
  <2>1. CASE RunCallback
    BY <1>0, <1>1, <2>1, RecordCallback
  <2>2. CASE CallbackReturns
    <3>1. cleanup' = "ended" => cleanup = "ended"
      <4>1. SUFFICES ASSUME cleanup' = "ended" PROVE FALSE
        OBVIOUS
      <4>2. running # NoEvent /\ UNCHANGED evDone
        BY <2>2 DEF CallbackReturns
      <4>3. evDone
        BY <1>0, <4>1, <4>2, Zenon DEF CallInv, DrainInv
      <4> QED
        BY <4>2, <4>3, Zenon DEF CallInv, DrainInv
    <3> QED
      BY <1>0, <1>1, <2>2, <3>1, RecordReturn
  <2>3. CASE UNCHANGED <<running, ran>>
    BY <1>0, <1>1, <2>3, RecordOther
  <2> QED
    BY <1>0, <2>1, <2>2, <2>3 DEF EvNext, Dispatch, Fire, DispatcherStep, RunExits,
       StopQueue, evVars
<1>2. CASE CallbackStep /\ UNCHANGED vars
  <2>1. CASE AppendChunk
    BY <1>2, <2>1, RecordAppend
  <2>2. CASE SendWithFallback \/ EnqueueJob \/ uploadDebugLogs
    <3>1. /\ Step /\ Head(todo).kind # "chunk" /\ UNCHANGED <<redis, lostChunks>>
      BY <2>2 DEF SendWithFallback, EnqueueJob, uploadDebugLogs
    <3> QED
      BY <1>2, <3>1, RecordNoAppend
  <2> QED
    BY <1>2, <2>1, <2>2 DEF CallbackStep
<1>3. CASE (JobRuns /\ UNCHANGED vars) \/ UNCHANGED allVars
  <2>1. UNCHANGED <<vars, todo, redis, lostChunks>>
    BY <1>3 DEF JobRuns, allVars, recVars
  <2>2. UNCHANGED <<accepted, running, ran>>
    BY <2>1 DEF vars, evVars
  <2>3. Due' = Due /\ \A p : chunkAt(p)' = chunkAt(p)
    BY <2>2 DEF Due, chunkAt
  <2>4. Tried' = Tried
    BY <2>1, <2>2, <2>3 DEF Tried
  <2>5. TodoInv' /\ RedisInv'
    BY <2>1, <2>2, <2>3, <2>4, RedisFrame DEF TodoInv, RecordInv
  <2> QED
    BY <2>5 DEF RecordInv
<1> QED
  BY <1>1, <1>2, <1>3 DEF RecordNext

\* Once the call's operations are under way, Redis holds the chunks of its
\* callbacks in their order (the state that KeepsRecord is about).
LEMMA RecordedHolds == CallInv /\ RecordInv => Recorded
<1> SUFFICES ASSUME CallInv, RecordInv,
                    cleanup \in {"ended", "cancel", "onCleanup", "done"}
             PROVE  /\ DOMAIN redis = UNION {Held(chunkAt(p)) : p \in Due}
                    /\ \A p \in Due :
                          chunkAt(p) \in lostChunks \/ Held(chunkAt(p)) # {}
                    /\ \A p, q \in Due : Earlier(p, q) =>
                          \A i \in Held(chunkAt(p)), j \in Held(chunkAt(q)) : i < j
  BY DEF Recorded
<1>1. running = NoEvent /\ evQueue = <<>>
  BY Zenon DEF CallInv, DrainInv
<1>2. Len(accepted) = Len(ran) /\ Len(ran) \in Nat /\ DOMAIN accepted = 1..Len(ran)
  BY <1>1 DEF CallInv, TypeOK, EvTypeOK, CallbacksInOrder
<1>3. Tried = Due
  <2>1. \A p \in Due : p[1] <= Len(ran)
    BY <1>2 DEF Due
  <2> QED
    BY <1>1, <2>1 DEF Tried
<1>4. RedisInv
  BY DEF RecordInv
<1>5. \A i \in DOMAIN redis : \E p \in Due : i \in Held(chunkAt(p))
  BY <1>3, <1>4 DEF RedisInv, Held
<1>6. \A p \in Due : Held(chunkAt(p)) \subseteq DOMAIN redis
  BY DEF Held
<1>7. DOMAIN redis = UNION {Held(chunkAt(p)) : p \in Due}
  BY <1>5, <1>6
<1> QED
  BY <1>3, <1>4, <1>7 DEF RedisInv, Held

\* Before the backend learns that the call is over, the chunks of all callbacks
\* were tried, and Redis holds them in order except those whose append failed:
\* withRedisTimeoutRetry repeats only the newest chunk, and swallows no error.
THEOREM KeepsRecord == RecordSpec => []Recorded
<1>1. CallInv /\ RecordInv => Recorded
  BY RecordedHolds
<1>2. RecordInit => CallInv /\ RecordInv
  BY RecordStart, CallInvInit, RecordInvInit
<1>3. (CallInv /\ RecordInv) /\ [RecordNext]_allVars => (CallInv /\ RecordInv)'
  BY RecordSteps, CallInvNext, RecordInvNext
<1> QED
  BY <1>1, <1>2, <1>3, PTL DEF RecordSpec

----------------------------------------------------------------------------
(* The next call's context.                                                *)

Ended == {"ended", "cancel", "onCleanup", "done"}

\* A chunk is a call, its result, or a turn of the user or the assistant.
CallChunk(c, e) ==
    /\ c.id = <<e, "call">> /\ c.role = "assistant" /\ c.calls = <<e>>
    /\ c.debug = FALSE /\ c.other = FALSE
ResultChunk(c, e) ==
    /\ c.id = <<e, "result">> /\ c.role = "tool" /\ c.calls = <<>>
    /\ c.answers = e /\ c.debug = FALSE /\ c.other = FALSE
TurnChunk(c, e) ==
    /\ c.id \in {<<e, "user">>, <<e, "assistant">>} /\ c.role # "tool"
    /\ c.calls = <<>> /\ c.debug = FALSE /\ c.other = FALSE

\* A tool result appends a call and its result, a committed turn one turn
\* (chunkOf).
LEMMA ChunkShapes ==
    ASSUME NEW e
    PROVE  /\ CallChunk(chunkOf(e, "call"), e)
           /\ ResultChunk(chunkOf(e, "result"), e)
           /\ \A part \in {"user", "assistant"} : TurnChunk(chunkOf(e, part), e)
<1>1. CallChunk(chunkOf(e, "call"), e)
  BY DEF chunkOf, Plain, CallChunk
<1>2. ResultChunk(chunkOf(e, "result"), e)
  BY DEF chunkOf, Plain, ResultChunk
<1>3. ASSUME NEW part \in {"user", "assistant"} PROVE TurnChunk(chunkOf(e, part), e)
  BY DEF chunkOf, Plain, TurnChunk
<1> QED BY <1>1, <1>2, <1>3

\* The operations of a callback, spelt out.
LEMMA CallbackShape ==
    ASSUME NEW e \in Event
    PROVE  /\ \A k \in DOMAIN CallbackOps(e) : CallbackOps(e)[k].kind # "job"
           /\ \/ /\ DOMAIN CallbackOps(e) = {1, 2}
                 /\ \A k \in {1, 2} : CallbackOps(e)[k].kind = "chunk"
                 /\ CallChunk(CallbackOps(e)[1].id, e)
                 /\ ResultChunk(CallbackOps(e)[2].id, e)
              \/ \A k \in DOMAIN CallbackOps(e) : CallbackOps(e)[k].kind = "chunk" =>
                    k = 1 /\ TurnChunk(CallbackOps(e)[k].id, e)
<1> DEFINE ops == CallbackOps(e)
           Two == /\ DOMAIN ops = {1, 2}
                  /\ \A k \in {1, 2} : ops[k].kind = "chunk"
                  /\ CallChunk(ops[1].id, e) /\ ResultChunk(ops[2].id, e)
           One == \A k \in DOMAIN ops : ops[k].kind = "chunk" =>
                     k = 1 /\ TurnChunk(ops[k].id, e)
           NoJob == \A k \in DOMAIN ops : ops[k].kind # "job"
<1> SUFFICES NoJob /\ (Two \/ One)
  OBVIOUS
<1>o. \A k, x : Op(k, x).kind = k /\ Op(k, x).id = x
  BY DEF Op
<1>e. EventKind[e] \in {"update", "user", "assistant", "tool", "none"}
  BY RecordAssumption
<1>1. CASE EventKind[e] = "none"
  <2>1. ops = <<>>
    BY <1>1 DEF CallbackOps
  <2> QED BY <2>1
<1>2. ASSUME NEW k, NEW x, ops = <<Op(k, x)>>, k # "job",
             k = "chunk" => TurnChunk(x, e)
      PROVE  NoJob /\ One
  <2>1. PICK o : o = Op(k, x) /\ o.kind = k /\ o.id = x
    BY <1>o
  <2>2. ops = <<o>>
    BY <1>2, <2>1, Zenon
  <2>3. DOMAIN ops = {1} /\ ops[1] = o
    BY <2>2
  <2> HIDE DEF ops
  <2> QED BY <1>2, <2>1, <2>3
<1>3. CASE EventKind[e] = "update"
  <2>1. ops = <<Op("update", e)>>
    BY <1>3 DEF CallbackOps
  <2> QED BY <1>2, <2>1
<1>4. CASE EventKind[e] \in {"user", "assistant"}
  <2>1. ops = <<Op("chunk", chunkOf(e, EventKind[e]))>>
    BY <1>4 DEF CallbackOps
  <2>2. TurnChunk(chunkOf(e, EventKind[e]), e)
    BY <1>4, ChunkShapes
  <2> QED BY <1>2, <2>1, <2>2
<1>5. CASE EventKind[e] = "tool"
  <2>1. ops = <<Op("chunk", chunkOf(e, "call")), Op("chunk", chunkOf(e, "result"))>>
    BY <1>5 DEF CallbackOps
  <2>2. PICK c, d : /\ c = chunkOf(e, "call") /\ d = chunkOf(e, "result")
                    /\ CallChunk(c, e) /\ ResultChunk(d, e)
    BY ChunkShapes
  <2>3. PICK o, q : /\ o = Op("chunk", c) /\ q = Op("chunk", d)
                    /\ o.kind = "chunk" /\ o.id = c /\ q.kind = "chunk" /\ q.id = d
    BY <1>o
  <2>4. ops = <<o, q>>
    BY <2>1, <2>2, <2>3, Zenon
  <2>5. DOMAIN ops = {1, 2} /\ ops[1] = o /\ ops[2] = q
    <3>1. DOMAIN <<o, q>> = {1, 2} /\ <<o, q>>[1] = o /\ <<o, q>>[2] = q
      OBVIOUS
    <3> QED BY <2>4, <3>1, Zenon
  <2> HIDE DEF ops
  <2>6. Two
    BY <2>2, <2>3, <2>5, Zenon
  <2>7. NoJob
    BY <2>3, <2>5
  <2> QED BY <2>6, <2>7
<1> QED BY <1>1, <1>3, <1>4, <1>5, <1>e

\* What a callback owes the record: a call with its result, or one turn.
LEMMA DueShape ==
    ASSUME CallInv, NEW p \in Due
    PROVE  LET e == accepted[p[1]] IN
           /\ e \in Event /\ p = <<p[1], p[2]>> /\ p[1] \in Nat
           /\ \/ /\ p[2] = 1 /\ CallChunk(chunkAt(p), e)
                 /\ <<p[1], 2>> \in Due /\ ResultChunk(chunkAt(<<p[1], 2>>), e)
              \/ /\ p[2] = 2 /\ ResultChunk(chunkAt(p), e)
                 /\ <<p[1], 1>> \in Due /\ CallChunk(chunkAt(<<p[1], 1>>), e)
              \/ p[2] = 1 /\ TurnChunk(chunkAt(p), e)
<1> DEFINE e == accepted[p[1]]
           n == p[1]
<1>0. /\ p \in (DOMAIN accepted) \X (1..2) /\ p[2] \in DOMAIN CallbackOps(e)
      /\ CallbackOps(e)[p[2]].kind = "chunk"
  BY DEF Due
<1>1. e \in Event /\ n \in DOMAIN accepted /\ n \in Nat
  BY <1>0 DEF CallInv, TypeOK, EvTypeOK
<1>2. p = <<n, p[2]>> /\ p[2] \in {1, 2}
  BY <1>0
<1>3. chunkAt(p) = CallbackOps(e)[p[2]].id
  BY DEF chunkAt
<1>4. ASSUME NEW k \in {1, 2}
      PROVE  /\ chunkAt(<<n, k>>) = CallbackOps(e)[k].id
             /\ (k \in DOMAIN CallbackOps(e) /\ CallbackOps(e)[k].kind = "chunk"
                   => <<n, k>> \in Due)
  <2>1. <<n, k>>[1] = n /\ <<n, k>>[2] = k
    OBVIOUS
  <2>2. <<n, k>> \in (DOMAIN accepted) \X (1..2)
    BY <1>1
  <2> QED BY <2>1, <2>2 DEF chunkAt, Due
<1> HIDE DEF e, n
<1>5. CASE \A k \in DOMAIN CallbackOps(e) : CallbackOps(e)[k].kind = "chunk" =>
              k = 1 /\ TurnChunk(CallbackOps(e)[k].id, e)
  BY <1>0, <1>1, <1>2, <1>3, <1>5 DEF e, n
<1>6. CASE /\ DOMAIN CallbackOps(e) = {1, 2}
           /\ \A k \in {1, 2} : CallbackOps(e)[k].kind = "chunk"
           /\ CallChunk(CallbackOps(e)[1].id, e)
           /\ ResultChunk(CallbackOps(e)[2].id, e)
  <2>1. /\ <<n, 1>> \in Due /\ CallChunk(chunkAt(<<n, 1>>), e)
        /\ <<n, 2>> \in Due /\ ResultChunk(chunkAt(<<n, 2>>), e)
    BY <1>4, <1>6, Zenon
  <2>2. CASE p[2] = 1
    <3>1. p = <<n, 1>>
      BY <1>2, <2>2
    <3> QED BY <1>1, <1>2, <2>1, <2>2, <3>1, Zenon DEF e, n
  <2>3. CASE p[2] = 2
    <3>1. p = <<n, 2>>
      BY <1>2, <2>3
    <3> QED BY <1>1, <1>2, <2>1, <2>3, <3>1, Zenon DEF e, n
  <2> QED BY <1>2, <2>2, <2>3
<1>7. \/ /\ DOMAIN CallbackOps(e) = {1, 2}
         /\ \A k \in {1, 2} : CallbackOps(e)[k].kind = "chunk"
         /\ CallChunk(CallbackOps(e)[1].id, e)
         /\ ResultChunk(CallbackOps(e)[2].id, e)
      \/ \A k \in DOMAIN CallbackOps(e) : CallbackOps(e)[k].kind = "chunk" =>
            k = 1 /\ TurnChunk(CallbackOps(e)[k].id, e)
  BY <1>1, CallbackShape
<1> QED BY <1>5, <1>6, <1>7

\* The chunks the callbacks of accepted events owe the record.
DueChunks == {chunkAt(p) : p \in Due}

\* Two chunks of one event are of one kind only if they are the same.
LEMMA SamePart ==
    ASSUME CallInv, NEW p \in Due, NEW q \in Due,
           accepted[p[1]] = accepted[q[1]], p[2] = q[2]
    PROVE  p = q
<1>1. p[1] \in DOMAIN accepted /\ q[1] \in DOMAIN accepted
  BY DEF Due
<1>2. p[1] = q[1]
  BY <1>1 DEF CallInv, OnceInv
<1> QED BY <1>2, DueShape

\* Callbacks append a call together with its result, and ids nobody else uses:
\* what one call stores is whole if nothing of it is lost.
LEMMA WholeCall ==
    ASSUME CallInv
    PROVE  /\ Whole(DueChunks)
           /\ \A c \in DueChunks : /\ c.id[1] \in Event
                                   /\ \A x \in ToSet(c.calls) : x \in Event
<1> DEFINE C == DueChunks
           ev(p) == accepted[p[1]]
<1>p. ASSUME NEW c \in C PROVE \E p \in Due : c = chunkAt(p)
  BY DEF DueChunks
<1>q. ASSUME NEW p \in Due PROVE chunkAt(p) \in C
  BY DEF DueChunks
<1> HIDE DEF C
<1>1. ASSUME NEW p \in Due
      PROVE  /\ ev(p) \in Event /\ Replayable(chunkAt(p))
             /\ chunkAt(p).id = <<ev(p), chunkAt(p).id[2]>>
             /\ chunkAt(p).id[1] \in Event /\ chunkAt(p).id[2] # "added"
             /\ chunkAt(p).calls = <<ev(p)>> \/ chunkAt(p).calls = <<>>
             /\ chunkAt(p).calls = <<ev(p)>> <=> CallChunk(chunkAt(p), ev(p))
             /\ chunkAt(p).role = "tool" <=> ResultChunk(chunkAt(p), ev(p))
  <2>1. /\ ev(p) \in Event
        /\ \/ CallChunk(chunkAt(p), ev(p)) \/ ResultChunk(chunkAt(p), ev(p))
           \/ TurnChunk(chunkAt(p), ev(p))
    BY DueShape
  <2>2. \A x : <<x>> # <<>>
    OBVIOUS
  <2>3. CASE CallChunk(chunkAt(p), ev(p))
    BY <2>1, <2>2, <2>3 DEF CallChunk, ResultChunk, Replayable
  <2>4. CASE ResultChunk(chunkAt(p), ev(p))
    BY <2>1, <2>2, <2>4 DEF CallChunk, ResultChunk, Replayable
  <2>5. CASE TurnChunk(chunkAt(p), ev(p))
    BY <2>1, <2>2, <2>5 DEF CallChunk, ResultChunk, TurnChunk, Replayable
  <2> QED BY <2>1, <2>3, <2>4, <2>5
<1>2. ASSUME NEW p \in Due, NEW q \in Due, chunkAt(p).id = chunkAt(q).id
      PROVE  p = q
  <2>1. ev(p) = ev(q) /\ chunkAt(p).id[2] = chunkAt(q).id[2]
    BY <1>1, <1>2
  <2>2. p[2] = q[2]
    <3>1. ASSUME NEW r \in Due
          PROVE  \/ chunkAt(r).id[2] = "result" /\ r[2] = 2
                 \/ chunkAt(r).id[2] # "result" /\ r[2] = 1
      <4>1. CASE r[2] = 1 /\ CallChunk(chunkAt(r), ev(r))
        BY <4>1 DEF CallChunk
      <4>2. CASE r[2] = 2 /\ ResultChunk(chunkAt(r), ev(r))
        BY <4>2 DEF ResultChunk
      <4>3. CASE r[2] = 1 /\ TurnChunk(chunkAt(r), ev(r))
        BY <4>3 DEF TurnChunk
      <4> QED BY <4>1, <4>2, <4>3, DueShape
    <3>2. /\ \/ chunkAt(p).id[2] = "result" /\ p[2] = 2
             \/ chunkAt(p).id[2] # "result" /\ p[2] = 1
          /\ \/ chunkAt(q).id[2] = "result" /\ q[2] = 2
             \/ chunkAt(q).id[2] # "result" /\ q[2] = 1
      BY <3>1
    <3> QED BY <2>1, <3>2
  <2> QED BY <2>1, <2>2, SamePart
<1>3. ASSUME NEW p \in Due, CallChunk(chunkAt(p), ev(p))
      PROVE  /\ p[2] = 1
             /\ \E q \in Due : ev(q) = ev(p) /\ ResultChunk(chunkAt(q), ev(p))
  <2>1. ~ResultChunk(chunkAt(p), ev(p)) /\ ~TurnChunk(chunkAt(p), ev(p))
    BY <1>3 DEF CallChunk, ResultChunk, TurnChunk
  <2>2. /\ p[2] = 1 /\ <<p[1], 2>> \in Due
        /\ ResultChunk(chunkAt(<<p[1], 2>>), ev(p))
    BY <2>1, DueShape
  <2>3. ev(<<p[1], 2>>) = ev(p)
    OBVIOUS
  <2> QED BY <2>2, <2>3
<1>4. ASSUME NEW p \in Due, ResultChunk(chunkAt(p), ev(p))
      PROVE  /\ p[2] = 2
             /\ \E q \in Due : ev(q) = ev(p) /\ CallChunk(chunkAt(q), ev(p))
  <2>1. ~CallChunk(chunkAt(p), ev(p)) /\ ~TurnChunk(chunkAt(p), ev(p))
    BY <1>4 DEF CallChunk, ResultChunk, TurnChunk
  <2>2. /\ p[2] = 2 /\ <<p[1], 1>> \in Due
        /\ CallChunk(chunkAt(<<p[1], 1>>), ev(p))
    BY <2>1, DueShape
  <2>3. ev(<<p[1], 1>>) = ev(p)
    OBVIOUS
  <2> QED BY <2>2, <2>3
<1> HIDE DEF ev
<1>5. \A c, d \in C : c.id = d.id => c = d
  BY <1>p, <1>2
<1>6. \A c \in C : c.id[2] # "added"
  BY <1>p, <1>1
<1>7. ASSUME NEW c \in C PROVE c.calls \in Seq(CallIds(C))
  <2>1. PICK p \in Due : c = chunkAt(p)
    BY <1>p
  <2>2. CASE c.calls = <<>>
    BY <2>2
  <2>3. CASE c.calls = <<ev(p)>>
    <3>1. ev(p) \in ToSet(c.calls)
      BY <2>3 DEF ToSet
    <3>2. ev(p) \in CallIds(C)
      BY <3>1 DEF CallIds
    <3> QED BY <2>3, <3>2
  <2> QED BY <1>1, <2>1, <2>2, <2>3
<1> DEFINE P == {c \in C : Replayable(c)}
           R == {c \in P : c.role = "tool"}
<1>8. P = C /\ \A c \in R : \E p \in Due : c = chunkAt(p) /\ ResultChunk(c, ev(p))
  BY <1>p, <1>1
<1>9. \A p \in Due : ResultChunk(chunkAt(p), ev(p)) => chunkAt(p) \in R
  BY <1>1, <1>8, <1>q
<1> HIDE DEF P, R
<1>10. ASSUME NEW r \in R
       PROVE  /\ r.calls = <<>> /\ r.answers # NoCall
              /\ \E c \in P : r.answers \in ToSet(c.calls)
  <2>1. PICK p \in Due : r = chunkAt(p) /\ ResultChunk(r, ev(p))
    BY <1>8
  <2>2. r.calls = <<>> /\ r.answers = ev(p) /\ ev(p) \in Event
    BY <1>1, <2>1 DEF ResultChunk
  <2>3. PICK q \in Due : ev(q) = ev(p) /\ CallChunk(chunkAt(q), ev(p))
    BY <1>4, <2>1
  <2>4. chunkAt(q) \in P /\ r.answers \in ToSet(chunkAt(q).calls)
    <3>1. chunkAt(q).calls = <<ev(p)>>
      BY <2>3 DEF CallChunk
    <3>2. ev(p) \in ToSet(<<ev(p)>>)
      BY DEF ToSet
    <3> QED BY <1>8, <1>q, <2>2, <3>1, <3>2
  <2> QED BY <2>2, <2>4, PriorAssumption
<1>11. ASSUME NEW c \in P, NEW k \in DOMAIN c.calls
       PROVE  /\ \E r \in R : r.answers = c.calls[k]
              /\ k = 1 /\ \E p \in Due : /\ c = chunkAt(p) /\ p[2] = 1
                                         /\ c.calls[k] = ev(p)
  <2>1. PICK p \in Due : c = chunkAt(p)
    BY <1>8, <1>p
  <2>2. c.calls = <<ev(p)>> /\ k = 1 /\ c.calls[k] = ev(p)
    <3>1. c.calls = <<ev(p)>>
      BY <1>1, <2>1
    <3> QED BY <3>1
  <2>3. CallChunk(c, ev(p))
    BY <1>1, <2>1, <2>2
  <2>4. p[2] = 1 /\ \E q \in Due : ev(q) = ev(p) /\ ResultChunk(chunkAt(q), ev(p))
    BY <1>3, <2>1, <2>3
  <2>5. PICK q \in Due : ev(q) = ev(p) /\ ResultChunk(chunkAt(q), ev(p))
    BY <2>4
  <2>6. chunkAt(q) \in R /\ chunkAt(q).answers = ev(p)
    BY <1>9, <2>5 DEF ResultChunk
  <2> QED BY <2>1, <2>2, <2>4, <2>6
<1>12. ASSUME NEW r \in R, NEW s \in R, r.answers = s.answers PROVE r = s
  <2>1. PICK p \in Due : r = chunkAt(p) /\ ResultChunk(r, ev(p))
    BY <1>8
  <2>2. PICK q \in Due : s = chunkAt(q) /\ ResultChunk(s, ev(q))
    BY <1>8
  <2>3. ev(p) = ev(q) /\ p[2] = 2 /\ q[2] = 2
    BY <1>4, <1>12, <2>1, <2>2 DEF ResultChunk
  <2> QED BY <2>1, <2>2, <2>3, SamePart DEF ev
<1>13. ASSUME NEW c \in P, NEW d \in P, NEW k \in DOMAIN c.calls,
              NEW l \in DOMAIN d.calls, c.calls[k] = d.calls[l]
       PROVE  c = d /\ k = l
  <2>1. PICK p \in Due : c = chunkAt(p) /\ p[2] = 1 /\ c.calls[k] = ev(p)
    BY <1>11
  <2>2. PICK q \in Due : d = chunkAt(q) /\ q[2] = 1 /\ d.calls[l] = ev(q)
    BY <1>11
  <2>3. p = q
    BY <1>13, <2>1, <2>2, SamePart DEF ev
  <2>4. k = 1 /\ l = 1
    BY <1>11
  <2> QED BY <2>1, <2>2, <2>3, <2>4
<1>14. Whole(C)
  BY <1>5, <1>6, <1>7, <1>10, <1>11, <1>12, <1>13, Zenon DEF Whole, CallIds, P, R
<1>15. ASSUME NEW c \in C, NEW x \in ToSet(c.calls) PROVE c.id[1] \in Event /\ x \in Event
  <2>1. PICK p \in Due : c = chunkAt(p)
    BY <1>p
  <2>2. CASE c.calls = <<>>
    BY <2>2 DEF ToSet
  <2>3. CASE c.calls = <<ev(p)>>
    BY <1>1, <2>1, <2>3 DEF ToSet
  <2> QED BY <1>1, <2>1, <2>2, <2>3
<1>16. \A c \in C : c.id[1] \in Event
  BY <1>p, <1>1
<1> QED BY <1>14, <1>15, <1>16 DEF C

\* f lists where each of seq stands first; st is these, in order.
Stores(f, seq, st) ==
    /\ f \in [DOMAIN st -> DOMAIN seq]
    /\ \A i \in DOMAIN st : st[i] = seq[f[i]]
    /\ \A i, j \in DOMAIN st : i \in Nat /\ (i < j <=> f[i] < f[j])
    /\ \A i, j \in DOMAIN st : st[i] = st[j] => i = j
    /\ \A n \in DOMAIN seq : \E i \in DOMAIN st : st[i] = seq[n]

\* The backend stores each chunk of a list once, at its first place
\* (sync_conversation_chunks_to_db).
LEMMA DeduplicatedStores ==
    ASSUME NEW S, NEW seq \in Seq(S)
    PROVE  Deduplicated(seq) \in Seq(S) /\ \E f : Stores(f, seq, Deduplicated(seq))
<1> DEFINE D == DOMAIN seq
           Firsts == {n \in D : \A p \in 1..(n - 1) : seq[p] # seq[n]}
           C == Cardinality(Firsts)
           st == Deduplicated(seq)
<1>0. /\ D = 1..Len(seq) /\ Len(seq) \in Nat /\ Firsts \in SUBSET (1..Len(seq))
      /\ \A n \in D : n \in Nat /\ seq[n] \in S
  OBVIOUS
<1>1. C \in Nat /\ \E f : Keeps(f, seq, Firsts)
  BY <1>0, KeptInOrder
<1>2. PICK f : Keeps(f, seq, Firsts)
  BY <1>1
<1>3. st = Kept(seq, Firsts)
  BY DEF Deduplicated
<1>n. \A n \in Firsts : n \in D /\ \A p \in 1..(n - 1) : seq[p] # seq[n]
  OBVIOUS
<1>m. \A n \in D : (\A p \in 1..(n - 1) : seq[p] # seq[n]) => n \in Firsts
  OBVIOUS
<1> HIDE DEF C, st, Firsts, D
<1>4. /\ f \in [1..C -> Firsts]
      /\ \A i, j \in 1..C : i < j <=> f[i] < f[j]
      /\ \A n \in Firsts : \E i \in 1..C : f[i] = n
      /\ st = [k \in 1..C |-> seq[f[k]]]
  BY <1>2, <1>3, Zenon DEF Keeps, C
<1>5. st \in Seq(S) /\ DOMAIN st = 1..C /\ \A i \in 1..C : st[i] = seq[f[i]]
  <2>1. \A i \in 1..C : seq[f[i]] \in S
    BY <1>0, <1>4, <1>n
  <2> QED BY <1>1, <1>4, <2>1
<1>6. ASSUME NEW i \in 1..C, NEW j \in 1..C, st[i] = st[j] PROVE i = j
  <2>0. f[i] \in Firsts /\ f[j] \in Firsts
    BY <1>4
  <2>d. \A n \in D : n \in Nat \ {0}
    BY <1>0
  <2>1. /\ f[i] \in Firsts /\ f[j] \in Firsts /\ seq[f[i]] = seq[f[j]]
        /\ f[i] \in Nat \ {0} /\ f[j] \in Nat \ {0}
    BY <1>5, <1>6, <1>n, <2>0, <2>d
  <2>2. ~(f[i] < f[j]) /\ ~(f[j] < f[i])
    <3>1. \A p, n \in Nat \ {0} : p < n => p \in 1..(n - 1)
      OBVIOUS
    <3> QED BY <1>n, <2>1, <3>1
  <2> QED BY <1>4, <2>2
<1>7. ASSUME NEW n \in D PROVE \E i \in 1..C : st[i] = seq[n]
  <2> DEFINE W == {p \in D : seq[p] = seq[n]}
  <2>1. W \in SUBSET (1..Len(seq)) /\ W # {} /\ W \subseteq D
    BY <1>0
  <2>w. \A p \in D : seq[p] = seq[n] <=> p \in W
    OBVIOUS
  <2> HIDE DEF W
  <2>2. PICK m \in W : \A p \in W : m <= p
    BY <1>0, <2>1, FirstOf
  <2>3. m \in D /\ seq[m] = seq[n] /\ m \in 1..Len(seq)
    BY <1>0, <2>1, <2>w
  <2>4. ASSUME NEW p \in 1..(m - 1) PROVE seq[p] # seq[m]
    <3>1. p \in D /\ p < m /\ p \in Nat /\ m \in Nat
      BY <1>0, <2>3
    <3>2. p \notin W
      BY <2>2, <3>1
    <3> QED BY <2>3, <2>w, <3>1, <3>2
  <2>5. m \in Firsts
    BY <1>m, <2>3, <2>4
  <2>6. PICK i \in 1..C : f[i] = m
    BY <1>4, <2>5
  <2> QED BY <1>5, <2>3, <2>6
<1>8. f \in [1..C -> D]
  BY <1>4, <1>n
<1>9. \A i, j \in 1..C : i \in Nat
  OBVIOUS
<1>10. Stores(f, seq, st)
  BY <1>4, <1>5, <1>6, <1>7, <1>8, <1>9, Zenon DEF Stores, D
<1> QED BY <1>5, <1>10 DEF st

\* A call of which nothing was lost leaves the chunks of its callbacks in the
\* database, each once and in the order of the callbacks.
LEMMA CallIsStored ==
    ASSUME CallInv, RecordInv, cleanup \in Ended, lostChunks = {},
           stored = Deduplicated(redis)
    PROVE  stored \in Seq(DueChunks) /\ ToSet(stored) = DueChunks /\ Timed(stored)
<1>0. /\ \A i \in DOMAIN redis : \E p \in Due : redis[i] = chunkAt(p)
      /\ \A p \in Due : \E i \in DOMAIN redis : redis[i] = chunkAt(p)
      /\ \A p, q \in Due : Earlier(p, q) =>
            \A i, j \in DOMAIN redis :
               redis[i] = chunkAt(p) /\ redis[j] = chunkAt(q) => i < j
  BY RecordedHolds DEF Recorded, Held, Ended
<1>1. redis \in Seq(DueChunks)
  <2>1. redis \in Seq({chunkAt(p) : p \in Tried})
    BY DEF RecordInv, RedisInv
  <2>2. {chunkAt(p) : p \in Tried} \subseteq DueChunks
    BY DEF Tried, DueChunks
  <2> QED BY <2>1, <2>2
<1>2. PICK f : Stores(f, redis, stored)
  BY <1>1, DeduplicatedStores
<1>3. stored \in Seq(DueChunks)
  BY <1>1, DeduplicatedStores
<1>4. /\ f \in [DOMAIN stored -> DOMAIN redis]
      /\ \A i \in DOMAIN stored : stored[i] = redis[f[i]]
      /\ \A i, j \in DOMAIN stored : i \in Nat /\ (i < j <=> f[i] < f[j])
      /\ \A i, j \in DOMAIN stored : stored[i] = stored[j] => i = j
      /\ \A n \in DOMAIN redis : \E i \in DOMAIN stored : stored[i] = redis[n]
  BY <1>2, Zenon DEF Stores
<1>5. ASSUME NEW i \in DOMAIN stored PROVE \E p \in Due : stored[i] = chunkAt(p)
  BY <1>0, <1>4
<1>6. ASSUME NEW p \in Due PROVE \E i \in DOMAIN stored : stored[i] = chunkAt(p)
  <2>1. PICK n \in DOMAIN redis : redis[n] = chunkAt(p)
    BY <1>0
  <2> QED BY <1>4, <2>1
<1>7. ToSet(stored) = DueChunks
  BY <1>5, <1>6 DEF ToSet, DueChunks
<1>t. ASSUME NEW p \in Due
      PROVE  /\ p[1] \in Nat /\ p[2] \in Nat /\ chunkAt(p).id[1] = accepted[p[1]]
             /\ chunkAt(p).role # "tool" => p[2] = 1
  <2> DEFINE e == accepted[p[1]]
             c == chunkAt(p)
  <2>0. /\ p[1] \in Nat
        /\ \/ p[2] = 1 /\ CallChunk(c, e)
           \/ p[2] = 2 /\ ResultChunk(c, e)
           \/ p[2] = 1 /\ TurnChunk(c, e)
    BY DueShape
  <2> HIDE DEF e, c
  <2>1. CASE p[2] = 1 /\ CallChunk(c, e)
    BY <2>0, <2>1 DEF CallChunk, c, e
  <2>2. CASE p[2] = 2 /\ ResultChunk(c, e)
    BY <2>0, <2>2 DEF ResultChunk, c, e
  <2>3. CASE p[2] = 1 /\ TurnChunk(c, e)
    BY <2>0, <2>3 DEF TurnChunk, c, e
  <2> QED BY <2>0, <2>1, <2>2, <2>3
<1>8. ASSUME NEW i \in DOMAIN stored, NEW j \in DOMAIN stored, i < j,
             NEW p \in Due, NEW q \in Due, stored[i] = chunkAt(p), stored[j] = chunkAt(q)
      PROVE  p[1] <= q[1]
  <2>1. /\ f[i] \in DOMAIN redis /\ f[j] \in DOMAIN redis /\ f[i] < f[j]
        /\ redis[f[i]] = chunkAt(p) /\ redis[f[j]] = chunkAt(q)
    BY <1>4, <1>8
  <2>2. ~Earlier(q, p)
    <3>1. f[i] \in Nat /\ f[j] \in Nat
      BY <1>1, <2>1
    <3>2. Earlier(q, p) => f[j] < f[i]
      BY <1>0, <2>1
    <3> QED BY <2>1, <3>1, <3>2
  <2> QED BY <1>t, <2>2 DEF Earlier
<1>9. ASSUME NEW p \in Due, NEW q \in Due
      PROVE  SameTime(chunkAt(p), chunkAt(q)) <=> p[1] = q[1]
  <2>1. p[1] \in DOMAIN accepted /\ q[1] \in DOMAIN accepted
    BY DEF Due
  <2>2. accepted[p[1]] = accepted[q[1]] <=> p[1] = q[1]
    BY <2>1 DEF CallInv, OnceInv
  <2> QED BY <1>t, <2>2 DEF SameTime
<1>10. ASSUME NEW i \in DOMAIN stored, NEW j \in DOMAIN stored, NEW k \in DOMAIN stored,
              i < j, j < k, SameTime(stored[i], stored[k])
       PROVE  SameTime(stored[i], stored[j])
  <2>1. PICK p \in Due : stored[i] = chunkAt(p)
    BY <1>5
  <2>2. PICK q \in Due : stored[j] = chunkAt(q)
    BY <1>5
  <2>3. PICK r \in Due : stored[k] = chunkAt(r)
    BY <1>5
  <2>4. p[1] <= q[1] /\ q[1] <= r[1]
    BY <1>8, <1>10, <2>1, <2>2, <2>3
  <2>5. p[1] = r[1]
    BY <1>9, <1>10, <2>1, <2>3
  <2>6. p[1] = q[1]
    BY <1>t, <2>4, <2>5
  <2> QED BY <1>9, <2>1, <2>2, <2>6
<1>11. ASSUME NEW i \in DOMAIN stored, NEW j \in DOMAIN stored,
              Turn(stored[i]), Turn(stored[j]), SameTime(stored[i], stored[j])
       PROVE  i = j
  <2>1. PICK p \in Due : stored[i] = chunkAt(p)
    BY <1>5
  <2>2. PICK q \in Due : stored[j] = chunkAt(q)
    BY <1>5
  <2>3. p[2] = 1 /\ q[2] = 1
    BY <1>11, <1>t, <2>1, <2>2 DEF Turn
  <2>4. p[1] = q[1]
    BY <1>9, <1>11, <2>1, <2>2
  <2>5. p = q
    BY <2>3, <2>4, SamePart
  <2> QED BY <1>4, <2>1, <2>2, <2>5
<1>12. Timed(stored)
  BY <1>4, <1>10, <1>11, Zenon DEF Timed
<1> QED BY <1>3, <1>7, <1>12

\* The backend is asked to store the chunks only at the end of the call, when no
\* chunk can be appended any more; what it stored is what Redis still holds.
SyncInv ==
    /\ cleanup \notin Ended =>
          /\ Sync \notin jobs \cup executed
          /\ \A j \in DOMAIN todo : todo[j].kind # "job"
    /\ Sync \in executed => stored = Deduplicated(redis)

\* runCleanup does not go back behind OnCallEnded.
LEMMA EndedStays == [Next]_vars /\ cleanup \in Ended => cleanup' \in Ended
<1> SUFFICES ASSUME [Next]_vars, cleanup \in Ended PROVE cleanup' \in Ended
  OBVIOUS
<1>1. CASE Assemble \/ Abort
  BY <1>1 DEF Assemble, SetPipeline, StartTask, AbortCancel, Abort, cleanVars
<1>2. CASE SinkEnd
  BY <1>2 DEF SinkEnd, Ended
<1>3. ASSUME NEW k \in Processor, ProcessorExits(k) PROVE cleanup' \in Ended
  BY <1>3 DEF ProcessorExits, cleanVars
<1>4. CASE runCleanup
  BY <1>4 DEF runCleanup, CleanupBegin, PipelineStop, Disconnect, CleanupStopQueue,
     CleanupDrained, CleanupWaited, CallEnded, CleanupCancel, OnCleanup, Ended
<1>5. CASE UNCHANGED cleanVars
  BY <1>5 DEF cleanVars
<1> QED
  BY <1>1, <1>2, <1>3, <1>4, <1>5
     DEF Next, vars, taskVars, chainVars, End, EndCheck, EndClaim,
       EndRecheck, EndQueue, ChainStep, SourceDrain, ForwardEnd,
       SendEvent, FireEvent, DispatcherRuns

\* The first of what is left to do, and the rest.
LEMMA HeadAndTail ==
    ASSUME NEW S, NEW s \in Seq(S), s # <<>>
    PROVE  /\ 1 \in DOMAIN s /\ Head(s) = s[1]
           /\ \A j \in DOMAIN Tail(s) : j + 1 \in DOMAIN s /\ Tail(s)[j] = s[j + 1]
OBVIOUS

\* Every step of the call, its callbacks and its backend keeps that.
LEMMA SyncInvNext ==
    CallInv /\ RecordInv /\ SyncInv /\ [RecordNext]_allVars => SyncInv'
<1> SUFFICES ASSUME CallInv, RecordInv, SyncInv, [RecordNext]_allVars
             PROVE  SyncInv'
  OBVIOUS
<1>0. CallInv' /\ [Next]_vars
  BY RecordSteps, CallInvNext
<1>1. CASE Next /\ Coupled
  <2>1. UNCHANGED <<redis, jobs, executed, stored>>
    BY <1>1 DEF Coupled
  <2>2. Deduplicated(redis)' = Deduplicated(redis)
    BY <2>1 DEF Deduplicated
  <2>3. ASSUME cleanup' \notin Ended
        PROVE  \A j \in DOMAIN todo' : todo'[j].kind # "job"
    <3>1. cleanup \notin Ended
      BY <1>0, <2>3, EndedStays
    <3>2. cleanup' # "ended"
      BY <2>3 DEF Ended
    <3>3. todo' = todo \/ (running' # NoEvent /\ todo' = CallbackOps(running'))
      BY <1>1, <3>2 DEF Coupled
    <3>4. running' # NoEvent => running' \in Event
      BY <1>0 DEF CallInv, TypeOK, EvTypeOK
    <3> QED BY <3>1, <3>3, <3>4, CallbackShape DEF SyncInv
  <2>4. cleanup' \notin Ended => cleanup \notin Ended
    BY <1>0, EndedStays
  <2> QED BY <2>1, <2>2, <2>3, <2>4 DEF SyncInv
<1>2. CASE CallbackStep /\ UNCHANGED vars
  <2>0. /\ cleanup' = cleanup /\ Step
        /\ UNCHANGED stored
    BY <1>2 DEF CallbackStep, AppendChunk, SendWithFallback, EnqueueJob,
       uploadDebugLogs, vars, taskVars, cleanVars
  <2>1. todo \in Seq(AnyOp) /\ todo # <<>> /\ todo' = Tail(todo)
    BY <2>0 DEF Step, RecordInv, TodoInv
  <2>2. /\ 1 \in DOMAIN todo /\ Head(todo) = todo[1]
        /\ \A j \in DOMAIN todo' : j + 1 \in DOMAIN todo /\ todo'[j] = todo[j + 1]
    BY <2>1, HeadAndTail
  <2>3. /\ cleanup \notin Ended => \A j \in DOMAIN todo' : todo'[j].kind # "job"
        /\ Head(todo).kind = "job" => cleanup \in Ended
        /\ cleanup \notin Ended => Sync \notin jobs \cup executed
        /\ Sync \in executed => stored = Deduplicated(redis)
    BY <2>2 DEF SyncInv
  <2>s. Sync.kind = "job"
    BY DEF Sync, Op
  <2>4. CASE AppendChunk
    <3>1. Head(todo).kind = "chunk" /\ UNCHANGED <<jobs, executed>>
      BY <2>4 DEF AppendChunk
    <3>2. running # NoEvent
      BY <2>2, <3>1 DEF RecordInv, TodoInv
    <3>3. cleanup \notin Ended
      BY <3>2, Zenon DEF CallInv, DrainInv, Ended
    <3> QED BY <2>0, <2>3, <3>1, <3>3 DEF SyncInv
  <2>5. CASE SendWithFallback
    <3>1. /\ Head(todo).kind \in {"update", "post"} /\ UNCHANGED redis
          /\ jobs' \subseteq jobs \cup {Head(todo)}
          /\ executed' \subseteq executed \cup {Head(todo)}
      BY <2>5 DEF SendWithFallback
    <3>2. Head(todo) # Sync
      BY <2>s, <3>1
    <3>3. Deduplicated(redis)' = Deduplicated(redis)
      BY <3>1 DEF Deduplicated
    <3> HIDE DEF SyncInv
    <3>4. (Sync \in jobs' => Sync \in jobs) /\ (Sync \in executed' => Sync \in executed)
      BY <3>1, <3>2
    <3> QED BY <2>0, <2>3, <3>3, <3>4 DEF SyncInv
  <2>6. CASE EnqueueJob \/ uploadDebugLogs
    <3>1. /\ UNCHANGED <<redis, executed>>
          /\ Head(todo).kind # "job" => UNCHANGED jobs
      BY <2>6 DEF EnqueueJob, uploadDebugLogs
    <3>2. Deduplicated(redis)' = Deduplicated(redis)
      BY <3>1 DEF Deduplicated
    <3> QED BY <2>0, <2>3, <3>1, <3>2 DEF SyncInv
  <2> QED BY <1>2, <2>4, <2>5, <2>6 DEF CallbackStep
<1>3. CASE JobRuns /\ UNCHANGED vars
  <2>1. PICK op \in jobs : /\ jobs' = jobs \ {op} /\ executed' = executed \cup {op}
                           /\ stored' = IF op = Sync THEN Deduplicated(redis) ELSE stored
                           /\ UNCHANGED <<todo, redis>>
    BY <1>3 DEF JobRuns
  <2>2. cleanup' = cleanup /\ Deduplicated(redis)' = Deduplicated(redis)
    BY <1>3, <2>1 DEF vars, taskVars, cleanVars, Deduplicated
  <2> QED BY <2>1, <2>2 DEF SyncInv
<1>4. CASE UNCHANGED allVars
  <2>1. UNCHANGED <<cleanup, todo, redis, jobs, executed, stored>>
    BY <1>4 DEF allVars, recVars, vars, taskVars, cleanVars
  <2>2. Deduplicated(redis)' = Deduplicated(redis)
    BY <2>1 DEF Deduplicated
  <2> QED BY <2>1, <2>2 DEF SyncInv
<1> QED BY <1>1, <1>2, <1>3, <1>4 DEF RecordNext

\* All that is known of a call and of its record.
KeepInv == CallInv /\ RecordInv /\ SyncInv

\* The three invariants hold together from the start of the call on.
LEMMA KeepInvAlways == RecordSpec => []KeepInv
<1>1. RecordInit => KeepInv
  <2>1. RecordInit => SyncInv
    BY DEF RecordInit, SyncInv
  <2> QED BY <2>1, RecordStart, CallInvInit, RecordInvInit DEF KeepInv
<1>2. KeepInv /\ [RecordNext]_allVars => KeepInv'
  BY RecordSteps, CallInvNext, RecordInvNext, SyncInvNext DEF KeepInv
<1> QED BY <1>1, <1>2, PTL DEF RecordSpec

\* The chunks of this call, none of them lost, behind those of earlier calls.
LEMMA PriorAndStored ==
    ASSUME KeepInv, cleanedUp, Sync \in executed, lostChunks = {}
    PROVE  LET S == ToSet(Prior) \cup DueChunks IN
           /\ Prior \in Seq(S) /\ stored \in Seq(S) /\ Prior \o stored \in Seq(S)
           /\ Timed(Prior \o stored) /\ Whole(ToSet(Prior \o stored))
<1>1. cleanup \in Ended /\ stored = Deduplicated(redis)
  BY DEF KeepInv, CallInv, CleanupInv, SyncInv, Ended
<1>2. stored \in Seq(DueChunks) /\ ToSet(stored) = DueChunks /\ Timed(stored)
  BY <1>1, CallIsStored DEF KeepInv
<1>3. /\ Whole(ToSet(stored))
      /\ \A c \in ToSet(stored) : /\ c.id[1] \in Event
                                  /\ \A x \in ToSet(c.calls) : x \in Event
  BY <1>2, WholeCall DEF KeepInv
<1>4. /\ Timed(Prior) /\ Whole(ToSet(Prior))
      /\ \A c \in ToSet(Prior) : /\ c.id[1] \notin Event
                                 /\ \A x \in ToSet(c.calls) : x \notin Event
  BY PriorAssumption DEF ToSet
<1> DEFINE S == ToSet(Prior) \cup DueChunks
<1>5. Prior \in Seq(S) /\ stored \in Seq(S)
  <2>1. \A T : \A s \in Seq(T) : T \subseteq S => s \in Seq(S)
    OBVIOUS
  <2>2. ToSet(Prior) \subseteq S /\ DueChunks \subseteq S
    OBVIOUS
  <2> QED BY <1>2, <2>1, <2>2, PriorAssumption, Zenon
<1>6. \A c \in ToSet(Prior), d \in ToSet(stored) :
         /\ ~SameTime(c, d) /\ c.id # d.id
         /\ ToSet(c.calls) \cap ToSet(d.calls) = {}
  BY <1>3, <1>4 DEF SameTime
<1> HIDE DEF S
<1>7. /\ Prior \o stored \in Seq(S) /\ Timed(Prior \o stored)
      /\ ToSet(Prior \o stored) = ToSet(Prior) \cup ToSet(stored)
  BY <1>2, <1>4, <1>5, <1>6, TimedJoin
<1>8. Whole(ToSet(Prior \o stored))
  BY <1>3, <1>4, <1>6, <1>7, WholeJoin
<1> QED BY <1>5, <1>7, <1>8 DEF S

\* A call leaves the database as the next one assumes to find it
\* (PriorAssumption): in order and every tool call with its result, unless an
\* append failed.
THEOREM LeavesWhole ==
    RecordSpec => [](cleanedUp /\ Sync \in executed /\ lostChunks = {} =>
                        Timed(Prior \o stored) /\ Whole(ToSet(Prior \o stored)))
<1>1. KeepInv => (cleanedUp /\ Sync \in executed /\ lostChunks = {} =>
                     Timed(Prior \o stored) /\ Whole(ToSet(Prior \o stored)))
  BY PriorAndStored
<1> QED BY <1>1, KeepInvAlways, PTL

\* Of what earlier calls and this one leave, the next call replays every turn
\* once and in order and every tool result directly behind its call, however
\* callbacks, retries, backend jobs and the end of the call interleave, unless
\* an append failed.
THEOREM KeepsContext == RecordSpec => []ResumeIsWellFormed
<1>1. KeepInv => ResumeIsWellFormed
  <2> SUFFICES ASSUME KeepInv, cleanedUp, Sync \in executed, lostChunks = {},
                      NEW msgs \in NextContexts
               PROVE  WellFormed(msgs) /\ Replays(msgs, Prior \o stored)
    BY DEF ResumeIsWellFormed
  <2> DEFINE r == buildResumeSystemMessage(Resume)
             S == ToSet(Prior) \cup DueChunks
  <2>1. r \in {NoResume, "within_window", "after_window"}
    BY DEF buildResumeSystemMessage
  <2>2. PICK old \in StorageOrders(Prior), new \in StorageOrders(stored) :
           msgs = buildInitialMessages(old \o new, r)
    BY DEF NextContexts, PriorOrders
  <2>3. /\ Prior \in Seq(S) /\ stored \in Seq(S) /\ Prior \o stored \in Seq(S)
        /\ Timed(Prior \o stored) /\ Whole(ToSet(Prior \o stored))
    BY PriorAndStored
  <2> HIDE DEF r, S
  <2>4. old \o new \in StorageOrders(Prior \o stored)
    BY <2>3, OrdersJoin
  <2> QED BY <2>1, <2>2, <2>3, <2>4, ReplayIsFaithful
<1> QED
  BY <1>1, KeepInvAlways, PTL
=============================================================================
