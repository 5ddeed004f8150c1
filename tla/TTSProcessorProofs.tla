------------------------- MODULE TTSProcessorProofs -------------------------
(***************************************************************************)
(* Proofs, for every capacity and any number of frames, turns, interrupts  *)
(* and lost connections, of the safety of the text-to-speech stage.        *)
(***************************************************************************)
EXTENDS TTSProcessor, TLAPS

USE TTSAssumption

----------------------------------------------------------------------------
(* Who touches what.                                                       *)

\* The neighbours, the processLoops and the inputLoop leave the synthesis state
\* and the websocket alone.
Around ==
    \/ \E k \in Frames : SendFrame(k)
    \/ SendInterrupt \/ processLoop \/ StragglerSends \/ inputLoop

\* Cartesia and the reader leave the base processor and the orchestrator alone.
Network == readTTSConnectionData \/ Cartesia \/ ConnectionLost

\* The steps are those of the three.
LEMMA Steps == [Next]_vars => Around \/ orchestrator \/ Network \/ UNCHANGED vars
BY DEF Next, Around, Network

\* Frame conditions of the goroutines of the base processor; of what is pushed
\* downstream, only the interrupt is theirs.
LEMMA AroundFrame ==
    ASSUME Around
    PROVE  /\ UNCHANGED <<ttsEvents, orchVars, netVars, drops>>
           /\ out' = out \/ out' = Append(out, Pushed("interrupt", 0))
<1>1. CASE (\E k \in Frames : SendFrame(k)) \/ SendInterrupt
  BY <1>1 DEF SendFrame, SendInterrupt, netVars, orchVars
<1>2. CASE processLoop \/ StragglerSends
  BY <1>2 DEF processLoop, ProcTake, ProcSend, EndReturns, ProcExit, StragglerSends,
     envVars, netVars, orchVars
<1>3. CASE inputLoop
  BY <1>3 DEF inputLoop, IntCancel, IntPurge, IntPush, IntCommand, InputExit,
     envVars, netVars, orchVars
<1> QED
  BY <1>1, <1>2, <1>3 DEF Around

\* Frame conditions of the reader and of Cartesia.
LEMMA NetworkFrame ==
    ASSUME Network
    PROVE  UNCHANGED <<baseVars, ctxDone, commands, orchVars, open, left, turnsLeft,
                       interruptsLeft, endSent, out>>
<1>1. CASE readTTSConnectionData
  BY <1>1 DEF readTTSConnectionData, Connect, Read, pushTTSEvent, ReaderExit, envVars
<1>2. CASE Cartesia
  BY <1>2 DEF Cartesia, ServerSpeaks, ServerDone, envVars
<1>3. CASE ConnectionLost
  BY <1>3 DEF ConnectionLost
<1> QED
  BY <1>1, <1>2, <1>3 DEF Network

\* Frame conditions of the orchestrator.
LEMMA OrchestratorFrame ==
    ASSUME orchestrator
    PROVE  UNCHANGED <<baseVars, reader, readerEvent, wire, envVars>>
BY DEF orchestrator, Connected, OrchExit, HandleInterrupt, HandleStart, HandlePart,
   HandleText, HandleResponseEnd, HandleSpeak, HandleOther, HandleEnd, EventStale,
   EventAudio, EventWords, EventDone, DropCommand, Command, TakeEvent, netVars

----------------------------------------------------------------------------
(* Contexts and what is pushed downstream.                                 *)

Message == [type : {"audio", "words", "done"}, ctx : Nat]
Msg(t, c) == [type |-> t, ctx |-> c]
OutKinds == {"start", "speak", "rend", "done", "other", "audio", "words", "end",
             "interrupt"}
FrameOut == [kind : OutKinds, ctx : Nat]

\* What the stage pushes is a frame.
LEMMA FrameTyped == \A k \in OutKinds, c \in Nat : Pushed(k, c) \in FrameOut
BY DEF Pushed, FrameOut, OutKinds

\* A context is the newest one or none.
CtxInv ==
    /\ lastCtx \in Nat
    /\ currentCtx \in {0, lastCtx}
    /\ orch # "exited" => activeCtx = currentCtx

\* A context is made by LLMResponseStart and by a prompt and dropped by an
\* interrupt; ForwardEnd only clears it for the reader.
LEMMA CtxNext == CtxInv /\ [Next]_vars => CtxInv'
<1> SUFFICES ASSUME CtxInv, [Next]_vars PROVE CtxInv'
  OBVIOUS
<1> USE DEF CtxInv
<1>1. CASE Connected \/ OrchExit
  BY <1>1 DEF Connected, OrchExit
<1>2. CASE HandleInterrupt \/ HandleStart \/ HandleSpeak
  BY <1>2 DEF HandleInterrupt, HandleStart, HandleSpeak, clearTTSState
<1>3. CASE HandleEnd
  BY <1>3 DEF HandleEnd, ForwardEnd
<1>4. CASE EventDone
  BY <1>4 DEF EventDone, ForwardEnd, TakeEvent
<1>5. CASE UNCHANGED <<orch, lastCtx, currentCtx, activeCtx>>
  BY <1>5
<1>6. CASE \/ HandlePart \/ HandleText \/ HandleResponseEnd \/ HandleOther
           \/ EventStale \/ EventAudio \/ EventWords
           \/ \E k \in Commands : DropCommand(k)
  BY <1>5, <1>6 DEF HandlePart, HandleText, HandleResponseEnd, HandleOther,
     EventStale, EventAudio, EventWords, DropCommand, TakeEvent, orchVars
<1>7. CASE Around \/ Network \/ UNCHANGED vars
  BY <1>5, <1>7, AroundFrame, NetworkFrame DEF orchVars, vars
<1> QED
  BY <1>1, <1>2, <1>3, <1>4, <1>6, <1>7, Steps DEF orchestrator

\* Nothing is pushed for a context that does not exist yet.
OutInv ==
    /\ out \in Seq(FrameOut)
    /\ \A i \in DOMAIN out : out[i].ctx <= lastCtx

\* What one step may push: the opening of a new context, or frames of the
\* current one that open nothing; speech only for a context that exists, words
\* before "done", the EndFrame last, and only interrupts once the orchestrator
\* has exited.
Pushes(t) ==
    \/ /\ lastCtx' = lastCtx
       /\ \A n \in DOMAIN t :
             /\ t[n].kind \notin {"start", "speak"}
             /\ t[n].ctx \in {0, currentCtx}
             /\ t[n].kind \in {"audio", "words"} =>
                   currentCtx # 0 /\ t[n].ctx = currentCtx
             /\ t[n].kind = "end" => n = Len(t) /\ orch' = "exited"
             /\ orch = "exited" => t[n].kind = "interrupt"
             /\ t[n].kind = "rend" => HandleResponseEnd
             /\ t[n].kind = "done" => HandleResponseEnd \/ EventDone
             /\ t[n].kind = "words" => EventWords \/ pendingWords
       /\ \A m, n \in DOMAIN t : t[m].kind = "done" /\ t[n].kind = "words" => n < m
    \/ /\ lastCtx' = lastCtx + 1 /\ currentCtx' = lastCtx + 1 /\ orch = "running"
       /\ Len(t) = 1 /\ t[1].ctx = lastCtx + 1
       /\ t[1].kind \in {"start", "speak"}

\* Every step of the stage pushes such frames behind those pushed before.
LEMMA PushSteps ==
    ASSUME CtxInv, OutInv, [Next]_vars
    PROVE  \E t \in Seq(FrameOut) : out' = out \o t /\ Pushes(t)
<1> DEFINE Goal == \E t \in Seq(FrameOut) : out' = out \o t /\ Pushes(t)
           Fine(f) == /\ f.kind \notin {"start", "speak"}
                      /\ f.ctx \in {0, currentCtx}
                      /\ f.kind \in {"audio", "words"} =>
                            currentCtx # 0 /\ f.ctx = currentCtx
                      /\ f.kind = "end" => orch' = "exited"
                      /\ orch = "exited" => f.kind = "interrupt"
                      /\ f.kind = "rend" => HandleResponseEnd
                      /\ f.kind = "done" => HandleResponseEnd \/ EventDone
                      /\ f.kind = "words" => EventWords \/ pendingWords
<1>t. lastCtx \in Nat /\ currentCtx \in Nat /\ out \in Seq(FrameOut)
  BY DEF CtxInv, OutInv
<1>0. ASSUME out' = out, lastCtx' = lastCtx PROVE Goal
  <2>1. Pushes(<<>>) /\ <<>> \in Seq(FrameOut) /\ out \o <<>> = out
    BY <1>0, <1>t DEF Pushes
  <2> QED
    BY <1>0, <2>1
<1>a. ASSUME NEW f \in FrameOut, Fine(f), lastCtx' = lastCtx, out' = out \o <<f>>
      PROVE  Goal
  <2>1. Pushes(<<f>>) /\ <<f>> \in Seq(FrameOut)
    BY <1>a DEF Pushes
  <2> QED
    BY <1>a, <2>1
<1>b. ASSUME NEW f \in FrameOut, NEW g \in FrameOut, Fine(f), Fine(g),
             f.kind # "end", f.kind = "done" => g.kind # "words",
             lastCtx' = lastCtx, out' = out \o <<f, g>>
      PROVE  Goal
  <2>1. Pushes(<<f, g>>) /\ <<f, g>> \in Seq(FrameOut)
    BY <1>b DEF Pushes
  <2> QED
    BY <1>b, <2>1
<1>c. ASSUME NEW f \in FrameOut, NEW g \in FrameOut, NEW h \in FrameOut,
             Fine(f), Fine(g), Fine(h), f.kind # "end", g.kind # "end",
             f.kind # "done", h.kind # "words",
             lastCtx' = lastCtx, out' = out \o <<f, g, h>>
      PROVE  Goal
  <2>1. Pushes(<<f, g, h>>) /\ <<f, g, h>> \in Seq(FrameOut)
    BY <1>c DEF Pushes
  <2> QED
    BY <1>c, <2>1
<1>s. ASSUME NEW f \in FrameOut, f.kind \in {"start", "speak"}, f.ctx = lastCtx + 1,
             out' = Append(out, f), clearTTSState(lastCtx + 1), orch = "running"
      PROVE  Goal
  <2>1. Pushes(<<f>>) /\ <<f>> \in Seq(FrameOut) /\ out' = out \o <<f>>
    BY <1>s, <1>t DEF Pushes, clearTTSState
  <2> QED
    BY <2>1
<1> SUFFICES Goal
  OBVIOUS
<1> HIDE DEF Goal
<1>1. CASE HandleStart \/ HandleSpeak
  <2>1. PICK k \in {"start", "speak"} : out' = Append(out, Pushed(k, lastCtx + 1))
    BY <1>1 DEF HandleStart, HandleSpeak
  <2>2. clearTTSState(lastCtx + 1) /\ orch = "running"
    BY <1>1 DEF HandleStart, HandleSpeak, Command
  <2>3. PICK f \in FrameOut : f = Pushed(k, lastCtx + 1)
    BY <1>t, <2>1, FrameTyped DEF OutKinds
  <2> QED
    BY <2>1, <2>2, <2>3, <1>s, <1>t DEF Pushed
<1>2. CASE HandleOther
  <2>1. PICK f \in FrameOut : f = Pushed("other", currentCtx)
    BY <1>t, FrameTyped, Zenon DEF OutKinds
  <2>2. out' = out \o <<f>> /\ lastCtx' = lastCtx /\ orch = "running"
    BY <1>2, <1>t, <2>1 DEF HandleOther, orchVars, Command
  <2> QED
    BY <2>1, <2>2, <1>a, <1>t DEF Pushed
<1>3. CASE HandleResponseEnd
  <2>1. PICK f \in FrameOut, g \in FrameOut :
          f = Pushed("done", currentCtx) /\ g = Pushed("rend", currentCtx)
    BY <1>t, FrameTyped, Zenon DEF OutKinds
  <2>2. lastCtx' = lastCtx /\ (out' = out \o <<g>> \/ out' = Append(out, f) \o <<g>>)
    BY <1>3, <2>1 DEF HandleResponseEnd
  <2>3. Append(out, f) \o <<g>> = out \o <<f, g>>
    BY <2>1, <1>t
  <2>4. orch = "running" /\ f.kind = "done" /\ g.kind = "rend"
    BY <1>3, <2>1 DEF Pushed, HandleResponseEnd, Command
  <2>5. Fine(f) /\ Fine(g)
    BY <1>3, <2>1, <2>4, <1>t DEF Pushed
  <2> QED
    BY <2>1, <2>2, <2>3, <2>4, <2>5, <1>a, <1>b
<1>4. CASE HandleEnd
  <2>1. PICK f \in FrameOut : f = Pushed("end", currentCtx)
    BY <1>t, FrameTyped, Zenon DEF OutKinds
  <2>2. /\ lastCtx' = lastCtx /\ orch = "running"
        /\ out' = out \/ (out' = out \o <<f>> /\ orch' = "exited")
    BY <1>4, <2>1 DEF HandleEnd, ForwardEnd, Command
  <2>3. orch' = "exited" => Fine(f)
    BY <2>1, <2>2, <1>t DEF Pushed
  <2> QED
    BY <2>1, <2>2, <2>3, <1>0, <1>a
<1>5. CASE EventAudio \/ EventWords \/ EventDone
  <2>0. /\ lastCtx' = lastCtx /\ orch = "running"
        /\ currentCtx # 0 /\ Head(ttsEvents).ctx = currentCtx
    BY <1>5 DEF EventAudio, EventWords, EventDone, TakeEvent, isCurrent
  <2>1. PICK a, w, d, e \in FrameOut :
          /\ a = Pushed("audio", currentCtx) /\ w = Pushed("words", currentCtx)
          /\ d = Pushed("done", currentCtx) /\ e = Pushed("end", currentCtx)
    BY <1>t, FrameTyped, Zenon DEF OutKinds
  <2>2. /\ a.kind = "audio" /\ w.kind = "words" /\ d.kind = "done" /\ e.kind = "end"
        /\ Fine(a)
        /\ EventWords \/ pendingWords => Fine(w)
        /\ EventDone => Fine(d)
        /\ orch' = "exited" => Fine(e)
    BY <2>0, <2>1, <1>t DEF Pushed
  <2>3. Flushed = <<>> \/ (Flushed = <<w>> /\ Fine(w))
    BY <2>1, <2>2 DEF Flushed
  <2>4. CASE EventAudio
    <3>1. out' = Append(out, a) \/ out' = Append(out, a) \o Flushed
      BY <2>0, <2>1, <2>4 DEF EventAudio
    <3>2. /\ Append(out, a) = out \o <<a>> /\ Append(out, a) \o <<>> = out \o <<a>>
          /\ Append(out, a) \o <<w>> = out \o <<a, w>>
      <4>1. Append(out, a) = out \o <<a>>
        BY <2>1, <1>t
      <4>2. Append(out, a) \o <<>> = Append(out, a)
        BY <2>1, <1>t
      <4>3. Append(out, a) \o <<w>> = out \o <<a, w>>
        BY <2>1, <1>t
      <4> QED
        BY <4>1, <4>2, <4>3
    <3>3. out' = out \o <<a>> \/ (out' = out \o <<a, w>> /\ Fine(w))
      BY <3>1, <3>2, <2>3
    <3> QED
      BY <3>3, <2>0, <2>1, <2>2, <1>a, <1>b
  <2>5. CASE EventWords
    <3>1. out' = out \/ out' = out \o <<w>>
      BY <2>0, <2>1, <2>5, <1>t DEF EventWords
    <3> QED
      BY <3>1, <2>0, <2>1, <2>2, <2>5, <1>0, <1>a
  <2>6. CASE EventDone
    <3>1. \/ out' = (out \o Flushed) \o <<d>>
          \/ (out' = ((out \o Flushed) \o <<d>>) \o <<e>> /\ orch' = "exited")
      BY <2>0, <2>1, <2>6 DEF EventDone, ForwardEnd
    <3>2. /\ (out \o <<>>) \o <<d>> = out \o <<d>>
          /\ (out \o <<w>>) \o <<d>> = out \o <<w, d>>
          /\ ((out \o <<>>) \o <<d>>) \o <<e>> = out \o <<d, e>>
          /\ ((out \o <<w>>) \o <<d>>) \o <<e>> = out \o <<w, d, e>>
      <4>1. (out \o <<>>) \o <<d>> = out \o <<d>>
        BY <2>1, <1>t
      <4>2. (out \o <<w>>) \o <<d>> = out \o <<w, d>>
        BY <2>1, <1>t
      <4>3. (out \o <<d>>) \o <<e>> = out \o <<d, e>>
        BY <2>1, <1>t
      <4>4. (out \o <<w, d>>) \o <<e>> = out \o <<w, d, e>>
        BY <2>1, <1>t
      <4> QED
        BY <4>1, <4>2, <4>3, <4>4, Zenon
    <3>3. \/ out' = out \o <<d>>
          \/ out' = out \o <<w, d>> /\ Fine(w)
          \/ out' = out \o <<d, e>> /\ orch' = "exited"
          \/ out' = out \o <<w, d, e>> /\ Fine(w) /\ orch' = "exited"
      BY <3>1, <3>2, <2>3
    <3>d. Fine(d)
      BY <2>2, <2>6
    <3>4. CASE out' = out \o <<d>>
      BY <3>4, <3>d, <2>0, <2>1, <1>a
    <3>5. CASE out' = out \o <<w, d>> /\ Fine(w)
      BY <3>5, <3>d, <2>0, <2>1, <2>2, <1>b
    <3>6. CASE out' = out \o <<d, e>> /\ orch' = "exited"
      BY <3>6, <3>d, <2>0, <2>1, <2>2, <1>b
    <3>7. CASE out' = out \o <<w, d, e>> /\ Fine(w) /\ orch' = "exited"
      BY <3>7, <3>d, <2>0, <2>1, <2>2, <1>c
    <3> QED
      BY <3>3, <3>4, <3>5, <3>6, <3>7
  <2> QED
    BY <1>5, <2>4, <2>5, <2>6
<1>6. CASE HandleInterrupt
  BY <1>6, <1>0 DEF HandleInterrupt, clearTTSState
<1>7. CASE \/ Connected \/ OrchExit \/ HandlePart \/ HandleText \/ EventStale
           \/ \E k \in Commands : DropCommand(k)
  BY <1>7, <1>0 DEF Connected, OrchExit, HandlePart, HandleText, EventStale,
     DropCommand, TakeEvent, orchVars
<1>8. CASE Around
  <2>1. PICK f \in FrameOut : f = Pushed("interrupt", 0)
    BY FrameTyped DEF OutKinds
  <2>2. lastCtx' = lastCtx /\ (out' = out \/ out' = out \o <<f>>)
    BY <1>8, <2>1, <1>t, AroundFrame DEF orchVars
  <2>3. Fine(f)
    BY <2>1 DEF Pushed
  <2> QED
    BY <2>1, <2>2, <2>3, <1>0, <1>a
<1>9. CASE Network \/ UNCHANGED vars
  BY <1>9, <1>0, NetworkFrame DEF vars, orchVars
<1> QED
  BY <1>1, <1>2, <1>3, <1>4, <1>5, <1>6, <1>7, <1>8, <1>9, Steps DEF orchestrator

\* The fields of what was pushed.
LEMMA FrameFields ==
    ASSUME NEW s \in Seq(FrameOut), NEW i \in DOMAIN s
    PROVE  s[i].ctx \in Nat /\ s[i].kind \in OutKinds
<1>1. s[i] \in FrameOut
  OBVIOUS
<1> QED
  BY <1>1 DEF FrameOut

\* Where a frame that is there after a push comes from.
LEMMA AfterPush ==
    ASSUME out \in Seq(FrameOut), NEW t \in Seq(FrameOut), out' = out \o t
    PROVE  /\ out' \in Seq(FrameOut)
           /\ \A i \in DOMAIN out : i \in DOMAIN out' /\ out'[i] = out[i]
           /\ \A i \in DOMAIN out' : i \in DOMAIN out
                 \/ \E n \in DOMAIN t : i = Len(out) + n /\ out'[i] = t[n]
           /\ DOMAIN out = 1..Len(out) /\ Len(out) \in Nat
           /\ \A n \in DOMAIN t : n \in Nat \ {0}
<1>1. /\ DOMAIN out = 1..Len(out) /\ DOMAIN t = 1..Len(t)
      /\ DOMAIN (out \o t) = 1..(Len(out) + Len(t))
      /\ Len(out) \in Nat /\ Len(t) \in Nat
  OBVIOUS
<1>2. \A i \in 1..(Len(out) + Len(t)) :
         (out \o t)[i] = IF i <= Len(out) THEN out[i] ELSE t[i - Len(out)]
  OBVIOUS
<1>3. out' \in Seq(FrameOut)
  OBVIOUS
<1>4. ASSUME NEW i \in DOMAIN out', i \notin DOMAIN out
      PROVE  \E n \in DOMAIN t : i = Len(out) + n /\ out'[i] = t[n]
  <2>1. i \in 1..(Len(out) + Len(t)) /\ i > Len(out)
    BY <1>1, <1>4
  <2>2. i - Len(out) \in DOMAIN t /\ i = Len(out) + (i - Len(out))
    BY <1>1, <2>1
  <2>3. out'[i] = t[i - Len(out)]
    BY <1>1, <1>2, <2>1
  <2> QED
    BY <2>2, <2>3
<1>5. ASSUME NEW i \in DOMAIN out PROVE i \in DOMAIN out' /\ out'[i] = out[i]
  BY <1>1, <1>2
<1> QED
  BY <1>1, <1>3, <1>4, <1>5

\* Every push is for a context that exists.
LEMMA OutNext == CtxInv /\ OutInv /\ [Next]_vars => OutInv'
<1> SUFFICES ASSUME CtxInv, OutInv, [Next]_vars PROVE OutInv'
  OBVIOUS
<1>1. PICK t \in Seq(FrameOut) : out' = out \o t /\ Pushes(t)
  BY PushSteps
<1>2. out \in Seq(FrameOut)
  BY DEF OutInv
<1>3. /\ lastCtx \in Nat /\ currentCtx \in {0, lastCtx}
      /\ lastCtx' \in {lastCtx, lastCtx + 1}
  BY <1>1 DEF Pushes, CtxInv
<1>4. ASSUME NEW n \in DOMAIN t PROVE t[n].ctx <= lastCtx'
  <2>1. CASE lastCtx' = lastCtx
    <3>1. lastCtx' # lastCtx + 1
      BY <1>3, <2>1
    <3>2. t[n].ctx \in {0, currentCtx}
      BY <1>1, <3>1, Zenon DEF Pushes
    <3> QED
      BY <1>3, <2>1, <3>2
  <2>2. CASE lastCtx' = lastCtx + 1
    <3>1. Len(t) = 1 /\ t[1].ctx = lastCtx'
      BY <1>1, <1>3, <2>2 DEF Pushes
    <3>2. n = 1
      BY <1>1, <3>1
    <3> QED
      BY <1>3, <2>2, <3>1, <3>2
  <2> QED
    BY <1>3, <2>1, <2>2
<1>5. ASSUME NEW i \in DOMAIN out PROVE out[i].ctx <= lastCtx'
  BY <1>2, <1>3, FrameFields DEF OutInv
<1> QED
  BY <1>1, <1>2, <1>4, <1>5, AfterPush DEF OutInv

\* Speech is pushed for the newest context only.
LEMMA StaleNext ==
    CtxInv /\ OutInv /\ NoStaleSpeech /\ [Next]_vars => NoStaleSpeech'
<1> SUFFICES ASSUME CtxInv, OutInv, NoStaleSpeech, [Next]_vars,
                    NEW i \in DOMAIN out', NEW j \in DOMAIN out',
                    out'[i].kind \in {"audio", "words"},
                    out'[j].kind \in {"start", "speak"}, j < i
             PROVE  out'[i].ctx >= out'[j].ctx
  BY DEF NoStaleSpeech, Openings
<1>1. PICK t \in Seq(FrameOut) : out' = out \o t /\ Pushes(t)
  BY PushSteps
<1>2. out \in Seq(FrameOut)
  BY DEF OutInv
<1>3. CASE i \in DOMAIN out
  <2>1. j \in DOMAIN out
    BY <1>1, <1>2, <1>3, AfterPush
  <2> QED
    BY <1>1, <1>2, <1>3, <2>1, AfterPush DEF NoStaleSpeech, Openings
<1>4. CASE i \notin DOMAIN out
  <2>1. PICK n \in DOMAIN t : i = Len(out) + n /\ out'[i] = t[n]
    BY <1>1, <1>2, <1>4, AfterPush
  <2>2. lastCtx' = lastCtx /\ t[n].ctx = lastCtx
    BY <1>1, <2>1 DEF Pushes, CtxInv
  <2>3. j \in DOMAIN out
    <3>1. \A m \in DOMAIN t : t[m].kind \notin {"start", "speak"}
      BY <1>1, <2>2 DEF Pushes, CtxInv
    <3> QED
      BY <1>1, <1>2, <3>1, AfterPush
  <2>4. out'[j].ctx <= lastCtx
    BY <1>1, <1>2, <2>3, AfterPush DEF OutInv
  <2>5. out'[j].ctx \in Nat /\ lastCtx \in Nat
    <3>1. out' \in Seq(FrameOut)
      BY <1>1, <1>2, AfterPush
    <3> QED
      BY <3>1, FrameFields DEF CtxInv
  <2> QED
    BY <2>1, <2>2, <2>4, <2>5
<1> QED
  BY <1>3, <1>4

\* The EndFrame is the orchestrator's last act.
EndInv ==
    orch # "exited" => \A i \in DOMAIN out : out[i].kind # "end"

\* An orchestrator that has exited stays so.
LEMMA ExitedStays == [Next]_vars /\ orch = "exited" => orch' = "exited"
<1> SUFFICES ASSUME [Next]_vars, orch = "exited" PROVE orch' = "exited"
  OBVIOUS
<1>1. CASE orchestrator
  BY <1>1 DEF orchestrator, Connected, OrchExit, HandleInterrupt, HandleStart,
     HandlePart, HandleText, HandleResponseEnd, HandleSpeak, HandleOther, HandleEnd,
     EventStale, EventAudio, EventWords, EventDone, DropCommand, Command, TakeEvent
<1>2. CASE Around \/ Network \/ UNCHANGED vars
  BY <1>2, AroundFrame, NetworkFrame DEF vars, orchVars
<1> QED
  BY <1>1, <1>2, Steps

\* Only ForwardEnd pushes the EndFrame, and it exits.
LEMMA EndNext == CtxInv /\ OutInv /\ EndInv /\ [Next]_vars => EndInv'
<1> SUFFICES ASSUME CtxInv, OutInv, EndInv, [Next]_vars, orch' # "exited",
                    NEW i \in DOMAIN out'
             PROVE  out'[i].kind # "end"
  BY DEF EndInv
<1>1. PICK t \in Seq(FrameOut) : out' = out \o t /\ Pushes(t)
  BY PushSteps
<1>2. out \in Seq(FrameOut) /\ orch # "exited"
  BY ExitedStays DEF OutInv
<1>3. ASSUME NEW n \in DOMAIN t PROVE t[n].kind # "end"
  <2>1. CASE Len(t) = 1 /\ t[1].kind \in {"start", "speak"}
    <3>1. n = 1
      BY <1>1, <2>1
    <3> QED
      BY <2>1, <3>1
  <2>2. CASE ~(Len(t) = 1 /\ t[1].kind \in {"start", "speak"})
    BY <1>1, <2>2, Zenon DEF Pushes
  <2> QED
    BY <2>1, <2>2
<1> QED
  BY <1>1, <1>2, <1>3, AfterPush DEF EndInv

\* What follows the EndFrame.
EndLast ==
    \A i, j \in DOMAIN out :
        out[i].kind = "end" /\ i < j => out[j].kind = "interrupt"

\* Once the EndFrame is pushed, interrupts are all that follows.
LEMMA LastNext ==
    CtxInv /\ OutInv /\ EndInv /\ EndLast /\ [Next]_vars => EndLast'
<1> SUFFICES ASSUME CtxInv, OutInv, EndInv, EndLast, [Next]_vars,
                    NEW i \in DOMAIN out', NEW j \in DOMAIN out',
                    out'[i].kind = "end", i < j
             PROVE  out'[j].kind = "interrupt"
  BY DEF EndLast
<1>1. PICK t \in Seq(FrameOut) : out' = out \o t /\ Pushes(t)
  BY PushSteps
<1>2. out \in Seq(FrameOut)
  BY DEF OutInv
<1>3. CASE i \in DOMAIN out
  <2>1. out[i].kind = "end" /\ orch = "exited"
    BY <1>1, <1>2, <1>3, AfterPush DEF EndInv
  <2>2. \A n \in DOMAIN t : t[n].kind = "interrupt"
    BY <1>1, <2>1 DEF Pushes
  <2> QED
    BY <1>1, <1>2, <1>3, <2>1, <2>2, AfterPush DEF EndLast
<1>4. CASE i \notin DOMAIN out
  <2>1. PICK n \in DOMAIN t : i = Len(out) + n /\ out'[i] = t[n]
    BY <1>1, <1>2, <1>4, AfterPush
  <2>2. n = Len(t)
    <3>1. CASE Len(t) = 1
      BY <1>1, <2>1, <3>1
    <3>2. CASE Len(t) # 1
      BY <1>1, <2>1, <3>2, Zenon DEF Pushes
    <3> QED
      BY <3>1, <3>2
  <2>3. j \in DOMAIN (out \o t) /\ j > Len(out) + Len(t)
    BY <1>1, <2>1, <2>2
  <2> QED
    BY <1>1, <1>2, <2>3
<1> QED
  BY <1>3, <1>4

\* Speech pushed to playback never belongs to a context older than the one
\* announced last, whatever is still queued, held by the reader or on the wire.
THEOREM NoStaleSpeechHolds == Spec => []NoStaleSpeech
<1>1. Init => CtxInv /\ OutInv /\ NoStaleSpeech
  BY DEF Init, CtxInv, OutInv, NoStaleSpeech, Openings
<1>2. CtxInv /\ OutInv /\ NoStaleSpeech /\ [Next]_vars
         => (CtxInv /\ OutInv /\ NoStaleSpeech)'
  BY CtxNext, OutNext, StaleNext
<1> QED
  BY <1>1, <1>2, PTL DEF Spec

----------------------------------------------------------------------------
(* Cartesia and the events on their way from it.                           *)

CartType == [audio : SUBSET Nat, words : SUBSET Nat, opened : SUBSET Nat,
             closed : SUBSET Nat, finished : SUBSET Nat]

\* Text opens the context it is written to, unless Cartesia ignores it.
LEMMA TextWrites ==
    ASSUME NEW s \in CartType, NEW c \in Nat, NEW sent \in BOOLEAN
    PROVE  LET t == AfterText(s, c, sent) IN
           /\ t \in CartType
           /\ t.closed = s.closed /\ t.finished = s.finished
           /\ \/ t = s
              \/ /\ sent /\ conn /\ c # 0 /\ c \notin s.finished \cup s.closed
                 /\ t.opened = s.opened \cup {c} /\ t.words = s.words \cup {c}
BY DEF AfterText, CartType

\* A reset closes the context, if it is open there.
LEMMA ResetWrites ==
    ASSUME NEW s \in CartType, NEW c \in Nat
    PROVE  LET t == AfterReset(s, c) IN
           /\ t \in CartType
           /\ t.opened = s.opened /\ t.words = s.words /\ t.finished = s.finished
           /\ \/ t.closed = s.closed
              \/ c \in s.opened /\ t.closed = s.closed \cup {c}
BY DEF AfterReset, CartType

\* A cancel finishes the context.
LEMMA CancelWrites ==
    ASSUME NEW s \in CartType, NEW c \in Nat
    PROVE  LET t == AfterCancel(s, c) IN
           /\ t \in CartType
           /\ t.opened = s.opened /\ t.closed = s.closed
           /\ \/ t = s
              \/ /\ t.finished = s.finished \cup {c} /\ t.words = s.words \ {c}
BY DEF AfterCancel, CartType

\* A context Cartesia has finished, it has no words for.
CartInv ==
    /\ cart \in CartType
    /\ \A c \in cart.opened : c # 0 /\ c <= lastCtx
    /\ cart.closed \subseteq cart.opened
    /\ cart.finished \cap cart.words = {}

\* What a write of the orchestrator does to context c, the newest one.
Wrote(c) ==
    /\ cart' \in CartType /\ cart'.finished = cart.finished
    /\ \/ cart'.opened = cart.opened /\ cart'.words = cart.words
       \/ /\ conn /\ c # 0 /\ c \notin cart.finished
          /\ cart'.opened = cart.opened \cup {c}
          /\ cart'.words = cart.words \cup {c}
    /\ \/ cart'.closed = cart.closed
       \/ c \in cart'.opened /\ cart'.closed = cart.closed \cup {c}

\* Without text to send, a flush opens nothing.
LEMMA FlushWrites ==
    ASSUME cart \in CartType, currentCtx \in Nat, NEW sent \in BOOLEAN,
           NEW reset \in BOOLEAN, Flush(sent, reset)
    PROVE  /\ Wrote(currentCtx)
           /\ ~aggregation \/ ~sent =>
                 cart'.opened = cart.opened /\ cart'.words = cart.words
<1>1. CASE aggregation
  <2>1. PICK t \in CartType :
          /\ t = AfterText(cart, currentCtx, sent)
          /\ t.closed = cart.closed /\ t.finished = cart.finished
          /\ \/ t = cart
             \/ /\ sent /\ conn /\ currentCtx # 0 /\ currentCtx \notin cart.finished
                /\ t.opened = cart.opened \cup {currentCtx}
                /\ t.words = cart.words \cup {currentCtx}
    BY TextWrites
  <2>2. cart' = t \/ cart' = AfterReset(t, currentCtx)
    BY <1>1, <2>1 DEF Flush
  <2> QED
    BY <1>1, <2>1, <2>2, ResetWrites DEF Wrote
<1>2. CASE ~aggregation
  <2>1. cart' = cart \/ cart' = AfterReset(cart, currentCtx)
    BY <1>2 DEF Flush
  <2> QED
    BY <2>1, ResetWrites DEF Wrote
<1> QED
  BY <1>1, <1>2

\* The orchestrator writes to the newest context only; but for an interrupt it
\* finishes none.
LEMMA OrchestratorWrites ==
    ASSUME CtxInv, CartInv, orchestrator
    PROVE  \/ cart' = AfterCancel(cart, currentCtx) /\ Command("interrupt")
           \/ Wrote(currentCtx')
<1>0. cart \in CartType /\ currentCtx \in Nat /\ lastCtx + 1 \in Nat
  BY DEF CtxInv, CartInv
<1>1. CASE HandleInterrupt
  BY <1>1 DEF HandleInterrupt
<1>2. CASE HandleText
  BY <1>0, <1>2, TextWrites DEF HandleText, Wrote
<1>3. CASE HandleResponseEnd
  <2>1. PICK sent \in BOOLEAN, reset \in ResetResult(currentCtx) : Flush(sent, reset)
    BY <1>3 DEF HandleResponseEnd
  <2> QED
    BY <1>0, <1>3, <2>1, FlushWrites DEF ResetResult, HandleResponseEnd
<1>4. CASE HandleEnd
  <2>1. PICK sent \in BOOLEAN, reset \in ResetResult(currentCtx) : Flush(sent, reset)
    BY <1>4 DEF HandleEnd
  <2> QED
    BY <1>0, <1>4, <2>1, FlushWrites DEF ResetResult, HandleEnd
<1>5. CASE HandleSpeak
  <2>1. PICK sent \in BOOLEAN :
          \/ cart' = AfterReset(AfterText(cart, lastCtx + 1, sent), lastCtx + 1)
          \/ cart' = AfterText(cart, lastCtx + 1, sent)
    BY <1>5 DEF HandleSpeak
  <2>2. PICK t \in CartType :
          /\ t = AfterText(cart, lastCtx + 1, sent)
          /\ t.closed = cart.closed /\ t.finished = cart.finished
          /\ \/ t = cart
             \/ /\ conn /\ lastCtx + 1 # 0 /\ lastCtx + 1 \notin cart.finished
                /\ t.opened = cart.opened \cup {lastCtx + 1}
                /\ t.words = cart.words \cup {lastCtx + 1}
    BY <1>0, TextWrites
  <2>3. currentCtx' = lastCtx + 1
    BY <1>5 DEF HandleSpeak, clearTTSState
  <2> QED
    BY <1>0, <2>1, <2>2, <2>3, ResetWrites DEF Wrote
<1>6. CASE cart' = cart
  BY <1>0, <1>6 DEF Wrote
<1>7. CASE \/ Connected \/ OrchExit \/ HandleStart \/ HandlePart \/ HandleOther
           \/ EventStale \/ EventAudio \/ EventWords \/ EventDone
           \/ \E k \in Commands : DropCommand(k)
  BY <1>6, <1>7 DEF Connected, OrchExit, HandleStart, HandlePart, HandleOther,
     EventStale, EventAudio, EventWords, EventDone, DropCommand, TakeEvent, netVars
<1> QED
  BY <1>1, <1>2, <1>3, <1>4, <1>5, <1>7 DEF orchestrator

\* Cartesia never forgets that a context was opened, closed or finished.
LEMMA CartNext ==
    ASSUME CtxInv, CartInv, [Next]_vars
    PROVE  /\ CartInv'
           /\ cart.opened \subseteq cart'.opened
           /\ cart.closed \subseteq cart'.closed
           /\ cart.finished \subseteq cart'.finished
<1>0. /\ cart \in CartType /\ currentCtx \in {0, lastCtx} /\ lastCtx \in Nat
      /\ CtxInv'
  BY CtxNext DEF CtxInv, CartInv
<1>1. CASE cart' = cart /\ lastCtx' = lastCtx
  BY <1>1 DEF CartInv
<1>2. CASE orchestrator
  <2>1. lastCtx' \in {lastCtx, lastCtx + 1}
    BY <1>2 DEF orchestrator, Connected, OrchExit, HandleInterrupt, HandleStart,
       HandlePart, HandleText, HandleResponseEnd, HandleSpeak, HandleOther,
       HandleEnd, EventStale, EventAudio, EventWords, EventDone, DropCommand,
       Command, TakeEvent, clearTTSState, orchVars
  <2>2. CASE Wrote(currentCtx')
    BY <1>0, <2>1, <2>2 DEF Wrote, CartInv, CtxInv, CartType
  <2>3. CASE cart' = AfterCancel(cart, currentCtx)
    BY <1>0, <2>1, <2>3, CancelWrites DEF CartInv, CartType
  <2> QED
    BY <1>2, <2>2, <2>3, OrchestratorWrites
<1>3. CASE Network
  <2>1. lastCtx' = lastCtx
    BY <1>3, NetworkFrame DEF orchVars
  <2>2. CASE readTTSConnectionData
    BY <1>1, <2>1, <2>2 DEF readTTSConnectionData, Connect, Read, pushTTSEvent,
       ReaderExit
  <2>3. CASE \E c \in Ctx : ServerSpeaks(c)
    BY <1>0, <2>1, <2>3 DEF ServerSpeaks, CartInv, CartType
  <2>4. CASE \E c \in Ctx : ServerDone(c)
    BY <1>0, <2>1, <2>4 DEF ServerDone, CartInv, CartType, Ctx
  <2>5. CASE ConnectionLost
    <3>1. /\ cart' \in CartType /\ cart'.opened = cart.opened
          /\ cart'.closed = cart.closed /\ cart'.words = {}
          /\ cart'.finished = cart.finished \cup cart.opened
      BY <1>0, <2>5 DEF ConnectionLost, CartType
    <3> QED
      BY <2>1, <3>1 DEF CartInv
  <2> QED
    BY <1>3, <2>2, <2>3, <2>4, <2>5 DEF Network, Cartesia
<1>4. CASE Around \/ UNCHANGED vars
  BY <1>1, <1>4, AroundFrame DEF vars, orchVars, netVars
<1> QED
  BY <1>2, <1>3, <1>4, Steps

InEvents(m) == \E n \in DOMAIN ttsEvents : ttsEvents[n] = m
InReader(m) == reader = "push" /\ readerEvent = m
OnWire(m) == \E n \in DOMAIN wire : wire[n] = m

\* Events keep the order of the wire: no word of a context is behind its "done".
FlowType ==
    /\ ttsEvents \in Seq(Message) /\ wire \in Seq(Message)
    /\ reader = "push" => readerEvent \in Message
    /\ Len(wire) <= 1
DoneIsLast(c) ==
    /\ InEvents(Msg("done", c)) \/ InReader(Msg("done", c)) \/ OnWire(Msg("done", c))
          => c \in cart.finished \cap cart.closed
    /\ InEvents(Msg("done", c)) => ~InReader(Msg("words", c))
    /\ InEvents(Msg("done", c)) \/ InReader(Msg("done", c)) => ~OnWire(Msg("words", c))
    /\ \A m, n \in DOMAIN ttsEvents :
          ttsEvents[m] = Msg("done", c) /\ ttsEvents[n] = Msg("words", c) => n < m
FlowInv == FlowType /\ \A c \in Nat : DoneIsLast(c)

\* What the events are after one was taken.
LEMMA EventTaken ==
    ASSUME NEW s \in Seq(Message), s # <<>>
    PROVE  /\ Head(s) \in Message /\ Tail(s) \in Seq(Message)
           /\ 1 \in DOMAIN s /\ s[1] = Head(s)
           /\ \A n \in DOMAIN Tail(s) :
                 n \in Nat /\ n + 1 \in DOMAIN s /\ Tail(s)[n] = s[n + 1]
           /\ \A n \in DOMAIN s : n = 1 \/ (n - 1 \in DOMAIN Tail(s) /\ Tail(s)[n - 1] = s[n])
OBVIOUS

\* One message at most is on its way from Cartesia.
LEMMA OneOnWire ==
    ASSUME NEW s \in Seq(Message), s # <<>>, Len(s) <= 1
    PROVE  DOMAIN s = {1} /\ s[1] = Head(s) /\ DOMAIN Tail(s) = {}
<1>1. Len(s) \in Nat /\ DOMAIN s = 1..Len(s) /\ 1 \in DOMAIN s
  BY EventTaken
<1>2. Len(s) = 1
  BY <1>1
<1>3. DOMAIN s = {1}
  BY <1>1, <1>2
<1>4. Tail(s) \in Seq(Message) /\ Len(Tail(s)) = 0
  BY <1>2
<1>5. DOMAIN Tail(s) = {}
  BY <1>4
<1> QED
  BY <1>3, <1>5, EventTaken

\* What the events are after one was queued.
LEMMA EventQueued ==
    ASSUME NEW s \in Seq(Message), NEW e \in Message
    PROVE  /\ Append(s, e) \in Seq(Message)
           /\ \A n \in DOMAIN s : n \in DOMAIN Append(s, e) /\ Append(s, e)[n] = s[n]
           /\ Len(s) + 1 \in DOMAIN Append(s, e) /\ Append(s, e)[Len(s) + 1] = e
           /\ \A n \in DOMAIN Append(s, e) :
                 \/ n \in DOMAIN s /\ n < Len(s) + 1
                 \/ n = Len(s) + 1
OBVIOUS

\* The orchestrator takes events in order or drains them all.
LEMMA OrchestratorEvents ==
    ASSUME orchestrator
    PROVE  \/ ttsEvents' = ttsEvents \/ ttsEvents' = <<>>
           \/ ttsEvents # <<>> /\ ttsEvents' = Tail(ttsEvents)
BY DEF orchestrator, Connected, OrchExit, HandleInterrupt, HandleStart, HandlePart,
   HandleText, HandleResponseEnd, HandleSpeak, HandleOther, HandleEnd, EventStale,
   EventAudio, EventWords, EventDone, DropCommand, TakeEvent, clearTTSState

\* The reader and the channels are first-in first-out.
LEMMA FlowNext == CtxInv /\ CartInv /\ FlowInv /\ [Next]_vars => FlowInv'
<1> SUFFICES ASSUME CtxInv, CartInv, FlowInv, [Next]_vars PROVE FlowInv'
  OBVIOUS
<1>0. /\ FlowType /\ \A c \in Nat : DoneIsLast(c)
      /\ cart.closed \subseteq cart'.closed /\ cart.finished \subseteq cart'.finished
      /\ cart \in CartType /\ cart' \in CartType
  BY CartNext DEF FlowInv, CartInv
<1>1. CASE UNCHANGED <<reader, readerEvent, wire>>
           /\ (ttsEvents' = ttsEvents \/ ttsEvents' = <<>>)
  <2>1. /\ \A e : InEvents(e)' => InEvents(e)
        /\ \A e : (InReader(e)' <=> InReader(e)) /\ (OnWire(e)' <=> OnWire(e))
    BY <1>1 DEF InEvents, InReader, OnWire
  <2>2. \/ ttsEvents' = ttsEvents \/ DOMAIN ttsEvents' = {}
    BY <1>1
  <2>3. ttsEvents' \in Seq(Message)
    <3>1. <<>> \in Seq(Message) /\ ttsEvents \in Seq(Message)
      BY <1>0 DEF FlowType
    <3> QED
      BY <1>1, <3>1, Zenon
  <2>4. FlowType'
    BY <1>0, <1>1, <2>3 DEF FlowType
  <2> QED
    BY <1>0, <2>1, <2>2, <2>4 DEF FlowInv, DoneIsLast
<1>2. CASE UNCHANGED <<reader, readerEvent, wire>>
           /\ ttsEvents # <<>> /\ ttsEvents' = Tail(ttsEvents)
  <2>1. /\ ttsEvents' \in Seq(Message)
        /\ \A n \in DOMAIN ttsEvents' : /\ n \in Nat /\ n + 1 \in DOMAIN ttsEvents
                                        /\ ttsEvents'[n] = ttsEvents[n + 1]
    BY <1>0, <1>2, EventTaken DEF FlowType
  <2>2. FlowType'
    BY <1>0, <1>2, <2>1 DEF FlowType
  <2>3. ASSUME NEW c \in Nat PROVE DoneIsLast(c)'
    <3>1. ASSUME NEW e, InEvents(e)' PROVE InEvents(e)
      BY <2>1, <3>1 DEF InEvents
    <3>2. \A e : (InReader(e)' <=> InReader(e)) /\ (OnWire(e)' <=> OnWire(e))
      BY <1>2 DEF InReader, OnWire
    <3>3. ASSUME NEW m \in DOMAIN ttsEvents', NEW n \in DOMAIN ttsEvents',
                 ttsEvents'[m] = Msg("done", c), ttsEvents'[n] = Msg("words", c)
          PROVE  n < m
      <4>1. n + 1 < m + 1 /\ n \in Nat /\ m \in Nat
        BY <1>0, <2>1, <3>3 DEF DoneIsLast
      <4> QED
        BY <4>1
    <3> QED
      BY <1>0, <3>1, <3>2, <3>3 DEF DoneIsLast
  <2> QED
    BY <2>2, <2>3 DEF FlowInv
<1>3. CASE Around \/ orchestrator \/ UNCHANGED vars
  BY <1>1, <1>2, <1>3, AroundFrame, OrchestratorFrame, OrchestratorEvents
     DEF netVars, vars
<1>4. CASE Connect \/ ReaderExit
  <2>1. /\ UNCHANGED <<ttsEvents, wire>> /\ reader' # "push"
    BY <1>4 DEF Connect, ReaderExit
  <2> QED
    BY <1>0, <2>1 DEF FlowInv, FlowType, DoneIsLast, InEvents, InReader, OnWire
<1>5. CASE Read
  <2>1. /\ ttsEvents' = ttsEvents /\ wire' = <<>> /\ wire # <<>>
        /\ 1 \in DOMAIN wire /\ wire[1] = Head(wire) /\ Head(wire) \in Message
    BY <1>0, <1>5 DEF Read, FlowType
  <2>2. /\ reader = "read"
        /\ \/ UNCHANGED <<reader, readerEvent>>
           \/ reader' = "push" /\ readerEvent' = wire[1]
    BY <1>5, <2>1 DEF Read
  <2>3. /\ \A e : InEvents(e)' <=> InEvents(e)
        /\ \A e : ~OnWire(e)' /\ ~InReader(e)
        /\ \A e : InReader(e)' => OnWire(e)
    BY <2>1, <2>2 DEF InEvents, InReader, OnWire
  <2>4. FlowType'
    BY <1>0, <2>1, <2>2 DEF FlowType
  <2> QED
    BY <1>0, <2>1, <2>3, <2>4 DEF FlowInv, DoneIsLast
<1>6. CASE pushTTSEvent
  <2>1. PICK e \in Message : e = readerEvent /\ InReader(e)
    BY <1>0, <1>6 DEF pushTTSEvent, InReader, FlowType
  <2>2. /\ ttsEvents' = Append(ttsEvents, e) /\ wire' = wire /\ reader' # "push"
        /\ ttsEvents \in Seq(Message)
    BY <1>0, <1>6, <2>1 DEF pushTTSEvent, FlowType
  <2>3. FlowType'
    BY <1>0, <2>2, EventQueued DEF FlowType
  <2>4. /\ \A f : InEvents(f)' => InEvents(f) \/ f = e
        /\ \A f : OnWire(f)' <=> OnWire(f)
        /\ \A f : ~InReader(f)'
    <3>1. ASSUME NEW f, InEvents(f)' PROVE InEvents(f) \/ f = e
      BY <2>2, <3>1, EventQueued DEF InEvents
    <3> QED
      BY <2>2, <3>1 DEF OnWire, InReader
  <2>5. ASSUME NEW c \in Nat, NEW m \in DOMAIN ttsEvents', NEW n \in DOMAIN ttsEvents',
               ttsEvents'[m] = Msg("done", c), ttsEvents'[n] = Msg("words", c)
        PROVE  n < m
    <3>1. Msg("done", c) # Msg("words", c)
      BY DEF Msg
    <3>2. CASE m \in DOMAIN ttsEvents /\ n \in DOMAIN ttsEvents
      BY <1>0, <2>2, <2>5, <3>2, EventQueued DEF DoneIsLast
    <3>3. CASE m \in DOMAIN ttsEvents /\ n \notin DOMAIN ttsEvents
      <4>1. e = Msg("words", c) /\ InEvents(Msg("done", c))
        BY <2>2, <2>5, <3>3, EventQueued DEF InEvents
      <4> QED
        BY <1>0, <2>1, <4>1 DEF DoneIsLast
    <3>4. CASE m \notin DOMAIN ttsEvents
      <4>1. m = Len(ttsEvents) + 1 /\ n # m
        BY <2>2, <2>5, <3>1, <3>4, EventQueued
      <4> QED
        BY <2>2, <4>1, EventQueued
    <3> QED
      BY <3>2, <3>3, <3>4
  <2>6. ASSUME NEW c \in Nat PROVE DoneIsLast(c)'
    BY <1>0, <2>1, <2>4, <2>5 DEF DoneIsLast
  <2> QED
    BY <2>3, <2>6 DEF FlowInv
<1>7. CASE \E c \in Ctx : ServerSpeaks(c)
  <2>1. PICK d \in Nat : ServerSpeaks(d)
    BY <1>7 DEF Ctx
  <2>2. PICK e \in Message :
          /\ wire' = <<e>> /\ e.ctx = d /\ e.type # "done"
          /\ e.type = "words" => d \in cart.words
    BY <2>1 DEF ServerSpeaks, Emit, Message
  <2>3. UNCHANGED <<ttsEvents, reader, readerEvent>>
    BY <2>1 DEF ServerSpeaks
  <2>4. /\ \A f : (InEvents(f)' <=> InEvents(f)) /\ (InReader(f)' <=> InReader(f))
        /\ \A f : OnWire(f)' => f = e
    BY <2>2, <2>3 DEF InEvents, InReader, OnWire
  <2>5. ASSUME NEW c \in Nat PROVE DoneIsLast(c)'
    <3>1. e # Msg("done", c) /\ (e = Msg("words", c) => c \notin cart.finished)
      BY <2>2 DEF Msg, CartInv
    <3> QED
      BY <1>0, <2>3, <2>4, <3>1 DEF DoneIsLast
  <2> QED
    BY <1>0, <2>2, <2>3, <2>5 DEF FlowInv, FlowType
<1>8. CASE \E c \in Ctx : ServerDone(c)
  <2>1. PICK d \in Nat : ServerDone(d)
    BY <1>8 DEF Ctx
  <2>2. PICK e \in Message : wire' = <<e>> /\ e = Msg("done", d)
    BY <2>1 DEF ServerDone, Emit, Message, Msg
  <2>3. /\ UNCHANGED <<ttsEvents, reader, readerEvent>>
        /\ d \in cart'.finished \cap cart'.closed
    BY <1>0, <2>1 DEF ServerDone, CartType
  <2>4. /\ \A f : (InEvents(f)' <=> InEvents(f)) /\ (InReader(f)' <=> InReader(f))
        /\ \A f : OnWire(f)' => f = e
    BY <2>2, <2>3 DEF InEvents, InReader, OnWire
  <2>5. ASSUME NEW c \in Nat PROVE DoneIsLast(c)'
    <3>1. e # Msg("words", c) /\ (e = Msg("done", c) => c = d)
      BY <2>2 DEF Msg
    <3> QED
      BY <1>0, <2>3, <2>4, <3>1 DEF DoneIsLast
  <2> QED
    BY <1>0, <2>2, <2>3, <2>5 DEF FlowInv, FlowType
<1>9. CASE ConnectionLost
  <2>1. wire' = <<>> /\ ttsEvents' = ttsEvents /\ reader' # "push"
    BY <1>9 DEF ConnectionLost
  <2> QED
    BY <1>0, <2>1 DEF FlowInv, FlowType, DoneIsLast, InEvents, InReader, OnWire
<1> QED
  BY <1>3, <1>4, <1>5, <1>6, <1>7, <1>8, <1>9, Steps
     DEF Network, readTTSConnectionData, Cartesia

----------------------------------------------------------------------------
(* A call that nobody interrupts.                                          *)

\* Interrupts and lost connections are not taken back.
BudgetInv == interruptsLeft \in 0..MaxInterrupts /\ drops \in 0..MaxDrops

\* Every step keeps them within their bounds (InterruptFrame, reconnect).
LEMMA BudgetNext ==
    ASSUME BudgetInv, [Next]_vars
    PROVE  BudgetInv' /\ (NoInterrupt' => NoInterrupt) /\ (NoDrop' => NoDrop)
<1> USE DEF BudgetInv, NoInterrupt, NoDrop
<1>1. CASE UNCHANGED <<interruptsLeft, drops>>
  BY <1>1
<1>2. CASE SendInterrupt \/ ConnectionLost
  BY <1>2 DEF SendInterrupt, ConnectionLost
<1>3. CASE orchestrator \/ UNCHANGED vars
  BY <1>1, <1>3, OrchestratorFrame DEF envVars, vars
<1>4. CASE (\E k \in Frames : SendFrame(k)) \/ processLoop \/ StragglerSends
  BY <1>1, <1>4 DEF SendFrame, processLoop, ProcTake, ProcSend, EndReturns, ProcExit,
     StragglerSends, envVars
<1>5. CASE inputLoop
  BY <1>1, <1>5 DEF inputLoop, IntCancel, IntPurge, IntPush, IntCommand, InputExit,
     envVars
<1>6. CASE readTTSConnectionData \/ Cartesia
  BY <1>1, <1>6 DEF readTTSConnectionData, Connect, Read, pushTTSEvent, ReaderExit,
     Cartesia, ServerSpeaks, ServerDone, envVars
<1> QED
  BY <1>2, <1>3, <1>4, <1>5, <1>6 DEF Next

\* Without interrupts the inputLoop has nothing to do, there is one processLoop,
\* and the processor is cancelled only once the orchestrator has exited.
Quiet ==
    /\ sysCount = 0 /\ intPC \in {"idle", "exited"}
    /\ straggler = NoFrame /\ procCancelled = FALSE
    /\ inbox \in Seq(Frames)
    /\ commands \in Seq(Frames)
    /\ proc = "send" => held \in Frames
    /\ proc = "exited" => ctxDone
    /\ endDone \/ ctxDone => orch = "exited"
QuietInv == NoInterrupt => Quiet

\* Only the inputLoop puts an interrupt in the way.
LEMMA QuietNext == BudgetInv /\ QuietInv /\ [Next]_vars => QuietInv'
<1> SUFFICES ASSUME BudgetInv, QuietInv, [Next]_vars, NoInterrupt' PROVE Quiet'
  BY DEF QuietInv
<1>0. Quiet
  BY BudgetNext DEF QuietInv
<1>1. CASE \E k \in Frames : SendFrame(k)
  <2>1. PICK k \in Frames : SendFrame(k)
    BY <1>1
  <2> QED
    BY <1>0, <2>1 DEF SendFrame, Quiet, orchVars
<1>2. CASE SendInterrupt
  BY <1>2 DEF SendInterrupt, BudgetInv, NoInterrupt
<1>3. CASE processLoop
  <2>1. CASE ProcTake
    BY <1>0, <2>1 DEF ProcTake, Quiet, orchVars
  <2>2. CASE ProcSend
    BY <1>0, <2>2 DEF ProcSend, Quiet, orchVars
  <2>3. CASE EndReturns
    BY <1>0, <2>3 DEF EndReturns, Quiet, orchVars
  <2>4. CASE ProcExit
    BY <1>0, <2>4 DEF ProcExit, Quiet, orchVars
  <2> QED
    BY <1>3, <2>1, <2>2, <2>3, <2>4 DEF processLoop
<1>4. CASE StragglerSends
  BY <1>0, <1>4 DEF StragglerSends, Quiet
<1>5. CASE inputLoop
  <2>1. sysCount = 0 /\ intPC \notin {"wait", "push", "command"}
    BY <1>0 DEF Quiet
  <2>2. CASE IntCancel \/ IntPush \/ IntCommand
    BY <2>1, <2>2 DEF IntCancel, IntPush, IntCommand
  <2>3. CASE IntPurge
    BY <2>1, <2>3, Zenon DEF IntPurge
  <2>4. CASE InputExit
    BY <1>0, <2>4 DEF InputExit, Quiet, orchVars
  <2> QED
    BY <1>5, <2>2, <2>3, <2>4 DEF inputLoop
<1>6. CASE Network \/ UNCHANGED vars
  BY <1>0, <1>6, NetworkFrame DEF Quiet, baseVars, orchVars, vars
<1>7. CASE orchestrator
  <2>1. UNCHANGED baseVars
    BY <1>7, OrchestratorFrame
  <2>2. commands' \in Seq(Frames)
    <3>1. commands' = commands \/ (commands # <<>> /\ commands' = Tail(commands))
      BY <1>7 DEF orchestrator, Connected, OrchExit, HandleInterrupt, HandleStart,
         HandlePart, HandleText, HandleResponseEnd, HandleSpeak, HandleOther,
         HandleEnd, EventStale, EventAudio, EventWords, EventDone, DropCommand,
         Command, TakeEvent
    <3> QED
      BY <1>0, <3>1 DEF Quiet
  <2>3. orch' = "exited" \/ UNCHANGED <<endDone, ctxDone>>
    BY <1>7 DEF orchestrator, Connected, OrchExit, HandleInterrupt, HandleStart,
       HandlePart, HandleText, HandleResponseEnd, HandleSpeak, HandleOther,
       HandleEnd, EventStale, EventAudio, EventWords, EventDone, DropCommand,
       ForwardEnd, orchVars
  <2>4. orch = "exited" => orch' = "exited"
    BY ExitedStays
  <2>5. ctxDone => ctxDone'
    BY <1>7 DEF orchestrator, Connected, OrchExit, HandleInterrupt, HandleStart,
       HandlePart, HandleText, HandleResponseEnd, HandleSpeak, HandleOther,
       HandleEnd, EventStale, EventAudio, EventWords, EventDone, DropCommand,
       ForwardEnd
  <2> QED
    BY <1>0, <2>1, <2>2, <2>3, <2>4, <2>5 DEF Quiet, baseVars
<1> QED
  BY <1>1, <1>2, <1>3, <1>4, <1>5, <1>6, <1>7, Steps DEF Around

\* What was pushed stays pushed.
LEMMA HasStays ==
    ASSUME CtxInv, OutInv, [Next]_vars
    PROVE  \A k, c : Has(k, c) => Has(k, c)'
<1>1. PICK t \in Seq(FrameOut) : out' = out \o t
  BY PushSteps
<1>2. \A i \in DOMAIN out : i \in DOMAIN out' /\ out'[i] = out[i]
  BY <1>1, AfterPush DEF OutInv
<1> QED
  BY <1>2 DEF Has

\* Somewhere between Cartesia and playback are the words of context c.
WordsKept(c) ==
    \/ c \in cart.words \/ pendingWords
    \/ InEvents(Msg("words", c)) \/ InReader(Msg("words", c))
    \/ OnWire(Msg("words", c)) \/ Has("words", c)
Spoken(c) == Has("done", c) /\ Has("words", c)

\* While nothing interrupts or fails, the words of a context that has text are
\* not lost, and Cartesia owes its "done" until it was spoken.
WordsInv ==
    NoInterrupt /\ NoDrop /\ orch # "exited" =>
        /\ orch = "running" => conn
        /\ currentCtx \in cart.opened => WordsKept(currentCtx)
        /\ currentCtx \in cart.opened => textSent \/ Spoken(currentCtx)

\* With a connection a flush leaves the debt of a "done" exactly if text was sent.
LEMMA FlushOwes ==
    ASSUME conn, currentCtx # 0, NEW sent \in BOOLEAN,
           NEW reset \in ResetResult(currentCtx), Flush(sent, reset)
    PROVE  textSent' <=> textSent \/ (aggregation /\ sent)
<1>1. reset = TRUE
  BY DEF ResetResult
<1>2. textSent' = ((textSent \/ (aggregation /\ sent)) /\ reset)
  BY DEF Flush
<1> QED
  BY <1>1, <1>2

\* A word leaves the events only for playback or the pending words.
LEMMA EventsKept ==
    ASSUME FlowInv, ttsEvents # <<>>, ttsEvents' = Tail(ttsEvents)
    PROVE  \A e : InEvents(e) => InEvents(e)' \/ e = Head(ttsEvents)
<1>1. ttsEvents \in Seq(Message)
  BY DEF FlowInv, FlowType
<1>2. ASSUME NEW n \in DOMAIN ttsEvents
      PROVE  \/ ttsEvents[n] = Head(ttsEvents)
             \/ \E m \in DOMAIN ttsEvents' : ttsEvents'[m] = ttsEvents[n]
  BY <1>1, EventTaken
<1> QED
  BY <1>2 DEF InEvents

\* Words that are taken from the events or were pending are pushed or pending,
\* and "done" is pushed behind them.
LEMMA EventPushes ==
    ASSUME CtxInv, OutInv
    PROVE  /\ EventWords => pendingWords' \/ Has("words", currentCtx)'
           /\ EventAudio /\ pendingWords => pendingWords' \/ Has("words", currentCtx)'
           /\ EventDone => Has("done", currentCtx)'
           /\ EventDone /\ pendingWords => Has("words", currentCtx)'
<1>0. out \in Seq(FrameOut) /\ currentCtx \in Nat
  BY DEF OutInv, CtxInv
<1>1. PICK a, w, d, e \in FrameOut :
        /\ a = Pushed("audio", currentCtx) /\ w = Pushed("words", currentCtx)
        /\ d = Pushed("done", currentCtx) /\ e = Pushed("end", currentCtx)
  BY <1>0, FrameTyped, Zenon DEF OutKinds
<1>a. ASSUME NEW f \in FrameOut, NEW i \in DOMAIN out', out'[i] = f,
             NEW k, f = Pushed(k, currentCtx), currentCtx' = currentCtx
      PROVE  Has(k, currentCtx)'
  BY <1>a DEF Has
<1>2. ASSUME EventWords PROVE pendingWords' \/ Has("words", currentCtx)'
  <2>1. /\ currentCtx' = currentCtx
        /\ pendingWords' = TRUE \/ out' = Append(out, w)
    BY <1>1, <1>2 DEF EventWords, TakeEvent, isCurrent
  <2>2. ASSUME out' = Append(out, w)
        PROVE  Len(out) + 1 \in DOMAIN out' /\ out'[Len(out) + 1] = w
    BY <1>0, <2>2
  <2> QED
    BY <1>1, <1>a, <2>1, <2>2
<1>3. ASSUME EventAudio, pendingWords PROVE pendingWords' \/ Has("words", currentCtx)'
  <2>1. /\ currentCtx' = currentCtx
        /\ pendingWords' = pendingWords \/ out' = Append(out, a) \o <<w>>
    BY <1>1, <1>3 DEF EventAudio, TakeEvent, isCurrent, Flushed
  <2>2. ASSUME out' = Append(out, a) \o <<w>>
        PROVE  Len(out) + 2 \in DOMAIN out' /\ out'[Len(out) + 2] = w
    BY <1>0, <1>1, <2>2
  <2> QED
    BY <1>1, <1>3, <1>a, <2>1, <2>2
<1>4. ASSUME EventDone
      PROVE  /\ Has("done", currentCtx)'
             /\ pendingWords => Has("words", currentCtx)'
  <2>1. /\ currentCtx' = currentCtx
        /\ \/ out' = (out \o Flushed) \o <<d>>
           \/ out' = ((out \o Flushed) \o <<d>>) \o <<e>>
    BY <1>1, <1>4 DEF EventDone, TakeEvent, isCurrent, ForwardEnd
  <2>2. CASE pendingWords
    <3>1. \/ out' = (out \o <<w>>) \o <<d>>
          \/ out' = ((out \o <<w>>) \o <<d>>) \o <<e>>
      BY <1>1, <2>1, <2>2 DEF Flushed
    <3>s. /\ (out \o <<w>>) \o <<d>> = out \o <<w, d>>
          /\ ((out \o <<w>>) \o <<d>>) \o <<e>> = out \o <<w, d, e>>
      BY <1>0, <1>1
    <3>2. /\ Len(out) + 1 \in DOMAIN out' /\ out'[Len(out) + 1] = w
          /\ Len(out) + 2 \in DOMAIN out' /\ out'[Len(out) + 2] = d
      <4>1. CASE out' = out \o <<w, d>>
        BY <1>0, <1>1, <4>1
      <4>2. CASE out' = out \o <<w, d, e>>
        BY <1>0, <1>1, <4>2
      <4> QED
        BY <3>1, <3>s, <4>1, <4>2
    <3> QED
      BY <1>1, <1>a, <2>1, <3>2
  <2>3. CASE ~pendingWords
    <3>1. \/ out' = (out \o <<>>) \o <<d>>
          \/ out' = ((out \o <<>>) \o <<d>>) \o <<e>>
      BY <2>1, <2>3 DEF Flushed
    <3>2. Len(out) + 1 \in DOMAIN out' /\ out'[Len(out) + 1] = d
      BY <1>0, <1>1, <3>1
    <3> QED
      BY <1>1, <1>a, <2>1, <2>3, <3>2
  <2> QED
    BY <2>2, <2>3
<1> QED
  BY <1>2, <1>3, <1>4

\* When the "done" of a context comes, all its words have come.
LEMMA DoneComesLast ==
    ASSUME CtxInv, CartInv, FlowInv, EventDone
    PROVE  /\ currentCtx \in cart.finished \cap cart.closed
           /\ currentCtx \notin cart.words /\ ~InEvents(Msg("words", currentCtx))
           /\ ~InReader(Msg("words", currentCtx)) /\ ~OnWire(Msg("words", currentCtx))
<1>1. PICK c \in Nat : c = currentCtx /\ Head(ttsEvents) = Msg("done", c)
  <2>1. Head(ttsEvents) \in Message
    BY EventTaken DEF EventDone, TakeEvent, FlowInv, FlowType
  <2> QED
    BY <2>1 DEF EventDone, isCurrent, Msg, Message
<1>2. 1 \in DOMAIN ttsEvents /\ ttsEvents[1] = Msg("done", c)
  BY <1>1, EventTaken DEF EventDone, TakeEvent, FlowInv, FlowType
<1>3. /\ DoneIsLast(c) /\ InEvents(Msg("done", c))
      /\ \A n \in DOMAIN ttsEvents : n \in Nat \ {0}
  BY <1>2 DEF FlowInv, FlowType, InEvents
<1>4. /\ ~InReader(Msg("words", c)) /\ ~OnWire(Msg("words", c))
      /\ c \in cart.finished \cap cart.closed /\ c \notin cart.words
  BY <1>3 DEF DoneIsLast, CartInv
<1>5. ~InEvents(Msg("words", c))
  <2>1. ASSUME NEW n \in DOMAIN ttsEvents, ttsEvents[n] = Msg("words", c) PROVE FALSE
    <3>1. n < 1 /\ n \in Nat \ {0}
      BY <1>2, <1>3, <2>1 DEF DoneIsLast
    <3> QED
      BY <3>1
  <2> QED
    BY <2>1 DEF InEvents
<1> QED
  BY <1>1, <1>4, <1>5

\* Its words were pushed or are pending then.
LEMMA DoneIsSpoken ==
    ASSUME CtxInv, OutInv, CartInv, FlowInv, [Next]_vars, EventDone,
           WordsKept(currentCtx)
    PROVE  Has("done", currentCtx)' /\ Has("words", currentCtx)'
<1>1. pendingWords \/ Has("words", currentCtx)
  BY DoneComesLast DEF WordsKept
<1>2. currentCtx' = currentCtx
  BY DEF EventDone, TakeEvent
<1> QED
  BY <1>1, <1>2, EventPushes, HasStays

\* Nothing else is lost: what the reader takes it hands on, and with one
\* connection the orchestrator's writes all reach Cartesia.
LEMMA WordsNext ==
    ASSUME CtxInv, OutInv, CartInv, FlowInv, BudgetInv, QuietInv, WordsInv,
           [Next]_vars
    PROVE  WordsInv'
<1> SUFFICES ASSUME NoInterrupt', NoDrop', orch' # "exited"
             PROVE  /\ orch' = "running" => conn'
                    /\ currentCtx' \in cart'.opened =>
                          /\ WordsKept(currentCtx)'
                          /\ textSent' \/ Spoken(currentCtx)'
  BY DEF WordsInv
<1> DEFINE Goal == /\ orch' = "running" => conn'
                   /\ currentCtx' \in cart'.opened =>
                         /\ WordsKept(currentCtx)'
                         /\ textSent' \/ Spoken(currentCtx)'
<1>0. /\ orch # "exited" /\ NoInterrupt /\ NoDrop /\ Quiet /\ ~ctxDone
      /\ orch = "running" => conn
      /\ currentCtx \in cart.opened =>
            WordsKept(currentCtx) /\ (textSent \/ Spoken(currentCtx))
  BY ExitedStays, BudgetNext DEF QuietInv, WordsInv, Quiet
<1>c. /\ CtxInv' /\ CartInv' /\ cart \in CartType /\ currentCtx \in Nat
      /\ lastCtx \in Nat /\ FlowType
  BY CtxNext, CartNext DEF CtxInv, CartInv, FlowInv
<1>h. \A k, c : Has(k, c) => Has(k, c)'
  BY HasStays
<1>u. ASSUME UNCHANGED <<currentCtx, cart, pendingWords, ttsEvents, reader, readerEvent,
                         wire, textSent>>
      PROVE  currentCtx' \in cart'.opened =>
                /\ WordsKept(currentCtx)'
                /\ textSent' \/ Spoken(currentCtx)'
  <2>1. \A e : /\ InEvents(e)' <=> InEvents(e)
               /\ InReader(e)' <=> InReader(e)
               /\ OnWire(e)' <=> OnWire(e)
    BY <1>u DEF InEvents, InReader, OnWire
  <2> QED
    BY <1>0, <1>h, <1>u, <2>1 DEF WordsKept, Spoken
<1>1. CASE Around \/ UNCHANGED vars
  BY <1>0, <1>1, <1>u, AroundFrame DEF orchVars, netVars, vars
<1>2. CASE Connected \/ HandlePart \/ HandleOther \/ \E k \in Commands : DropCommand(k)
  BY <1>0, <1>2, <1>u DEF Connected, HandlePart, HandleOther, DropCommand, Command,
     netVars, orchVars
<1>3. CASE OrchExit
  BY <1>0, <1>3 DEF OrchExit
<1>4. CASE HandleInterrupt
  <2>1. commands \in Seq(Frames) /\ "interrupt" \notin Frames
    BY <1>0 DEF Quiet, Frames
  <2>2. commands # <<>> /\ Head(commands) = "interrupt"
    BY <1>4 DEF HandleInterrupt, Command
  <2> QED
    BY <2>1, <2>2
<1>5. CASE HandleStart
  <2>1. /\ currentCtx' = lastCtx + 1 /\ cart' = cart /\ UNCHANGED <<conn, orch>>
    BY <1>5 DEF HandleStart, clearTTSState
  <2> QED
    BY <1>0, <1>c, <2>1 DEF CartInv
<1>6. CASE HandleSpeak
  <2>0. /\ currentCtx' = lastCtx + 1 /\ orch = "running"
        /\ UNCHANGED <<conn, orch>>
    BY <1>6 DEF HandleSpeak, clearTTSState, Command
  <2>1. lastCtx + 1 \notin cart.opened /\ ResetResult(lastCtx + 1) = {TRUE}
    <3>1. lastCtx + 1 \notin cart.opened /\ lastCtx + 1 # 0
      BY <1>c DEF CartInv
    <3>2. conn
      BY <1>0, <2>0
    <3> QED
      BY <3>1, <3>2 DEF ResetResult
  <2>2. PICK sent \in BOOLEAN :
          /\ textSent' = (sent /\ TRUE)
          /\ \/ cart' = AfterReset(AfterText(cart, lastCtx + 1, sent), lastCtx + 1)
             \/ cart' = AfterText(cart, lastCtx + 1, sent)
    BY <1>6, <2>1 DEF HandleSpeak
  <2>3. PICK t \in CartType :
          /\ t = AfterText(cart, lastCtx + 1, sent)
          /\ \/ t = cart
             \/ sent /\ t.words = cart.words \cup {lastCtx + 1}
    <3> DEFINE t == AfterText(cart, lastCtx + 1, sent)
    <3>1. lastCtx + 1 \in Nat
      BY <1>c
    <3>2. /\ t \in CartType
          /\ \/ t = cart
             \/ sent /\ t.words = cart.words \cup {lastCtx + 1}
      BY <1>c, <3>1, TextWrites, Zenon
    <3> QED
      BY <3>2, Zenon
  <2>4. cart'.opened = t.opened /\ cart'.words = t.words
    <3>1. lastCtx + 1 \in Nat
      BY <1>c
    <3>2. /\ AfterReset(t, lastCtx + 1).opened = t.opened
          /\ AfterReset(t, lastCtx + 1).words = t.words
      BY <2>3, <3>1, ResetWrites, Zenon
    <3>3. cart' = AfterReset(t, lastCtx + 1) \/ cart' = t
      BY <2>2, <2>3, Zenon
    <3> QED
      BY <3>2, <3>3, Zenon
  <2>5. orch' = "running" => conn'
    BY <1>0, <2>0
  <2>6. ASSUME currentCtx' \in cart'.opened
        PROVE  WordsKept(currentCtx)' /\ textSent'
    <3>1. t # cart
      BY <2>0, <2>1, <2>4, <2>6
    <3>2. sent /\ currentCtx' \in cart'.words
      BY <2>0, <2>3, <2>4, <3>1
    <3> QED
      BY <2>2, <3>2 DEF WordsKept
  <2> QED
    BY <2>5, <2>6
<1>7. CASE HandleText
  <2>1. /\ orch = "running"
        /\ UNCHANGED <<currentCtx, conn, orch, pendingWords, ttsEvents, reader,
                       readerEvent, wire>>
    BY <1>7 DEF HandleText, Command
  <2>2. PICK sent \in BOOLEAN :
          /\ textSent' = (textSent \/ sent)
          /\ cart' = AfterText(cart, currentCtx, sent)
    BY <1>7 DEF HandleText
  <2>3. CASE currentCtx \in cart.opened
    <3>1. cart.words \subseteq cart'.words
      BY <1>c, <2>2, TextWrites
    <3> QED
      BY <1>0, <1>h, <2>1, <2>2, <2>3, <3>1 DEF WordsKept, Spoken, InEvents, InReader,
         OnWire
  <2>4. CASE currentCtx \notin cart.opened /\ currentCtx \in cart'.opened
    <3>1. currentCtx \in cart'.words /\ sent
      BY <1>c, <2>2, <2>4, TextWrites
    <3> QED
      BY <1>0, <2>1, <2>2, <3>1 DEF WordsKept
  <2> QED
    BY <1>0, <2>1, <2>3, <2>4
<1>8. CASE HandleResponseEnd \/ HandleEnd
  <2>1. /\ orch = "running" /\ conn
        /\ UNCHANGED <<currentCtx, pendingWords, ttsEvents, reader, readerEvent, wire>>
        /\ UNCHANGED <<conn, orch>>
    BY <1>0, <1>8 DEF HandleResponseEnd, HandleEnd, ForwardEnd, Command
  <2>2. PICK sent \in BOOLEAN, reset \in ResetResult(currentCtx) : Flush(sent, reset)
    BY <1>8 DEF HandleResponseEnd, HandleEnd
  <2>3. CASE currentCtx \in cart'.opened
    <3>1. currentCtx # 0 /\ reset \in BOOLEAN
      BY <1>c, <2>1, <2>3 DEF CartInv, ResetResult
    <3>2. textSent' <=> textSent \/ (aggregation /\ sent)
      BY <2>1, <2>2, <3>1, FlushOwes
    <3>3. CASE currentCtx \in cart.opened
      <4>1. cart.words \subseteq cart'.words
        BY <1>c, <2>2, <3>1, FlushWrites DEF Wrote
      <4> QED
        BY <1>0, <1>h, <2>1, <3>2, <3>3, <4>1 DEF WordsKept, Spoken, InEvents,
           InReader, OnWire
    <3>4. CASE currentCtx \notin cart.opened
      <4>1. aggregation /\ sent /\ currentCtx \in cart'.words
        BY <1>c, <2>2, <2>3, <3>1, <3>4, FlushWrites DEF Wrote
      <4> QED
        BY <2>1, <3>2, <4>1 DEF WordsKept
    <3> QED
      BY <3>3, <3>4
  <2> QED
    BY <2>1, <2>3
<1>9. CASE EventStale \/ EventAudio \/ EventWords \/ EventDone
  <2>1. /\ orch = "running" /\ conn /\ ttsEvents # <<>>
        /\ ttsEvents' = Tail(ttsEvents)
        /\ UNCHANGED <<currentCtx, reader, readerEvent, wire, cart>>
        /\ UNCHANGED <<conn, orch>>
    BY <1>0, <1>9 DEF EventStale, EventAudio, EventWords, EventDone, ForwardEnd,
       TakeEvent
  <2>2. PICK w : w = Msg("words", currentCtx)
    OBVIOUS
  <2>3. /\ InEvents(w) => InEvents(w)' \/ w = Head(ttsEvents)
        /\ InReader(w) => InReader(w)'
        /\ OnWire(w) => OnWire(w)'
    BY <2>1, EventsKept DEF InReader, OnWire
  <2>4. CASE currentCtx \notin cart.opened
    BY <2>1, <2>4
  <2>5. CASE currentCtx \in cart.opened /\ (EventStale \/ EventAudio)
    <3>1. textSent' = textSent
      BY <2>5 DEF EventStale, EventAudio
    <3>2. pendingWords => pendingWords' \/ Has("words", currentCtx)'
      BY <2>5, EventPushes DEF EventStale
    <3>3. w # Head(ttsEvents)
      <4>1. currentCtx # 0
        BY <2>5 DEF CartInv
      <4> QED
        BY <2>2, <2>5, <4>1 DEF EventStale, EventAudio, isCurrent, Msg
    <3> QED
      BY <1>0, <1>h, <2>1, <2>2, <2>3, <2>5, <3>1, <3>2, <3>3 DEF WordsKept, Spoken
  <2>6. CASE currentCtx \in cart.opened /\ EventWords
    <3>1. textSent' = textSent
      BY <2>6 DEF EventWords
    <3>2. pendingWords' \/ Has("words", currentCtx)'
      BY <2>6, EventPushes
    <3> QED
      BY <1>0, <1>h, <2>1, <2>6, <3>1, <3>2 DEF WordsKept, Spoken
  <2>7. CASE currentCtx \in cart.opened /\ EventDone
    <3>1. Has("done", currentCtx)' /\ Has("words", currentCtx)'
      BY <1>0, <2>7, DoneIsSpoken
    <3> QED
      BY <2>1, <3>1 DEF WordsKept, Spoken
  <2> QED
    BY <1>9, <2>4, <2>5, <2>6, <2>7
<1>10. CASE Network
  <2>0. /\ UNCHANGED <<currentCtx, pendingWords, textSent, orch>>
        /\ \A k, c : Has(k, c)' <=> Has(k, c)
    BY <1>10, NetworkFrame DEF orchVars, Has
  <2>1. CASE Connect
    <3>1. /\ UNCHANGED <<ttsEvents, wire, cart>> /\ conn' = TRUE /\ reader # "push"
      BY <2>1 DEF Connect
    <3> QED
      BY <1>0, <2>0, <3>1 DEF WordsKept, Spoken, InEvents, InReader, OnWire
  <2>2. CASE ReaderExit
    BY <1>0, <2>2 DEF ReaderExit
  <2>3. CASE Read
    <3>0. /\ UNCHANGED <<ttsEvents, cart, conn>> /\ wire # <<>> /\ wire' = Tail(wire)
          /\ wire \in Seq(Message) /\ Len(wire) <= 1 /\ reader = "read"
      BY <1>c, <2>3 DEF Read, FlowType
    <3>1. DOMAIN wire = {1} /\ wire[1] = Head(wire) /\ DOMAIN wire' = {}
      BY <3>0, OneOnWire
    <3>2. CASE currentCtx \in cart.opened
      <4>1. currentCtx # 0 /\ activeCtx = currentCtx
        BY <1>0, <3>2 DEF CartInv, CtxInv
      <4>2. Head(wire).ctx = currentCtx => reader' = "push" /\ readerEvent' = wire[1]
        BY <2>3, <3>0, <3>1, <4>1 DEF Read
      <4>3. OnWire(Msg("words", currentCtx)) => InReader(Msg("words", currentCtx))'
        BY <2>0, <3>0, <3>1, <4>2 DEF OnWire, InReader, Msg
      <4> QED
        BY <1>0, <2>0, <3>0, <3>1, <3>2, <4>3 DEF WordsKept, Spoken, InEvents, InReader
    <3> QED
      BY <1>0, <2>0, <3>0, <3>1, <3>2
  <2>4. CASE pushTTSEvent
    <3>1. /\ UNCHANGED <<wire, cart, conn>> /\ ttsEvents' = Append(ttsEvents, readerEvent)
          /\ readerEvent \in Message /\ ttsEvents \in Seq(Message)
      BY <1>c, <2>4 DEF pushTTSEvent, FlowType
    <3>2. \A e : /\ InEvents(e) => InEvents(e)'
                 /\ InReader(e) => InEvents(e)'
                 /\ OnWire(e)' <=> OnWire(e)
      BY <3>1, EventQueued DEF InEvents, InReader, OnWire
    <3> QED
      BY <1>0, <2>0, <3>1, <3>2 DEF WordsKept, Spoken
  <2>5. CASE \E c \in Ctx : ServerSpeaks(c)
    <3>1. PICK d \in Ctx : ServerSpeaks(d)
      BY <2>5
    <3>2. /\ UNCHANGED <<ttsEvents, reader, readerEvent, conn>> /\ wire = <<>>
          /\ cart'.opened = cart.opened
      BY <1>c, <3>1 DEF ServerSpeaks, CartType
    <3>3. \/ cart'.words = cart.words
          \/ cart'.words = cart.words \ {d} /\ OnWire(Msg("words", d))'
      BY <1>c, <3>1 DEF ServerSpeaks, CartType, OnWire, Emit, Msg
    <3>4. \A e : /\ ~OnWire(e)
                 /\ InEvents(e) => InEvents(e)'
                 /\ InReader(e) => InReader(e)'
      BY <3>2 DEF InEvents, InReader, OnWire
    <3>5. currentCtx \in cart.words =>
             currentCtx \in cart'.words \/ OnWire(Msg("words", currentCtx))'
      BY <2>0, <3>3
    <3>6. WordsKept(currentCtx) => WordsKept(currentCtx)'
      BY <2>0, <3>4, <3>5 DEF WordsKept
    <3> QED
      BY <1>0, <2>0, <3>2, <3>6 DEF Spoken
  <2>6. CASE \E c \in Ctx : ServerDone(c)
    <3>1. /\ UNCHANGED <<ttsEvents, reader, readerEvent, conn>> /\ wire = <<>>
          /\ cart'.opened = cart.opened /\ cart'.words = cart.words
      BY <1>c, <2>6 DEF ServerDone, CartType
    <3>2. \A e : /\ ~OnWire(e)
                 /\ InEvents(e) => InEvents(e)'
                 /\ InReader(e) => InReader(e)'
      BY <3>1 DEF InEvents, InReader, OnWire
    <3>3. WordsKept(currentCtx) => WordsKept(currentCtx)'
      BY <2>0, <3>1, <3>2 DEF WordsKept
    <3> QED
      BY <1>0, <2>0, <3>1, <3>3 DEF Spoken
  <2>7. CASE ConnectionLost
    BY <1>0, <2>7 DEF ConnectionLost, NoDrop
  <2> QED
    BY <1>10, <2>1, <2>2, <2>3, <2>4, <2>5, <2>6, <2>7
       DEF Network, readTTSConnectionData, Cartesia
<1> QED
  BY <1>1, <1>2, <1>3, <1>4, <1>5, <1>6, <1>7, <1>8, <1>9, <1>10, Steps
     DEF orchestrator

\* The EndFrame was pushed behind the speech of its context.
EndSpoken ==
    NoDrop /\ NoInterrupt /\ Has("end", currentCtx) /\ currentCtx \in cart.opened
        => Spoken(currentCtx)

\* ForwardEnd runs when Cartesia owes nothing or has just said "done".
LEMMA EndSpokenNext ==
    ASSUME CtxInv, OutInv, CartInv, FlowInv, BudgetInv, QuietInv, WordsInv, EndInv,
           EndSpoken, [Next]_vars
    PROVE  EndSpoken'
<1> SUFFICES ASSUME NoDrop', NoInterrupt', Has("end", currentCtx)',
                    currentCtx' \in cart'.opened
             PROVE  Spoken(currentCtx)'
  BY DEF EndSpoken
<1>0. NoDrop /\ NoInterrupt /\ Quiet /\ \A k, c : Has(k, c) => Has(k, c)'
  BY BudgetNext, HasStays DEF QuietInv
<1>1. orch' = "exited"
  BY EndNext DEF EndInv, Has, Pushed
<1>2. CASE orch = "exited"
  <2>1. ~orchestrator
    BY <1>2 DEF orchestrator, Connected, OrchExit, HandleInterrupt, HandleStart,
       HandlePart, HandleText, HandleResponseEnd, HandleSpeak, HandleOther, HandleEnd,
       EventStale, EventAudio, EventWords, EventDone, DropCommand, Command, TakeEvent
  <2>2. currentCtx' = currentCtx
    BY <2>1, Steps, AroundFrame, NetworkFrame DEF orchVars, vars
  <2>3. cart'.opened = cart.opened
    <3>1. CASE Network
      BY <3>1 DEF Network, readTTSConnectionData, Connect, Read, pushTTSEvent,
         ReaderExit, Cartesia, ServerSpeaks, ServerDone, ConnectionLost, CartInv,
         CartType
    <3> QED
      BY <2>1, <3>1, Steps, AroundFrame DEF netVars, vars
  <2>4. Has("end", currentCtx)
    <3>1. PICK i \in DOMAIN out' : out'[i] = Pushed("end", currentCtx)
      BY <2>2 DEF Has
    <3>2. PICK t \in Seq(FrameOut) : out' = out \o t /\ Pushes(t)
      BY PushSteps
    <3>3. \A n \in DOMAIN t : t[n].kind = "interrupt"
      BY <1>2, <3>2 DEF Pushes
    <3>4. i \in DOMAIN out /\ out'[i] = out[i]
      BY <3>1, <3>2, <3>3, AfterPush DEF OutInv, Pushed
    <3> QED
      BY <3>1, <3>4 DEF Has
  <2> QED
    BY <1>0, <2>2, <2>3, <2>4 DEF EndSpoken, Spoken
<1>3. CASE orch # "exited"
  <2>1. HandleEnd \/ EventDone \/ out' = out
    BY <1>1, <1>3, Steps, AroundFrame, NetworkFrame DEF orchestrator, Connected,
       OrchExit, HandleInterrupt, HandleStart, HandlePart, HandleText,
       HandleResponseEnd, HandleSpeak, HandleOther, EventStale, EventAudio,
       EventWords, DropCommand, orchVars, vars
  <2>2. CASE out' = out
    BY <1>3, <2>2 DEF EndInv, Has, Pushed
  <2>3. CASE EventDone
    BY <1>0, <1>3, <2>3, DoneIsSpoken DEF WordsInv, Spoken, EventDone, TakeEvent
  <2>4. CASE HandleEnd
    <3>1. conn /\ currentCtx' = currentCtx /\ ~textSent'
      BY <1>0, <1>1, <1>3, <2>4 DEF WordsInv, HandleEnd, Command
    <3>2. PICK sent \in BOOLEAN, reset \in ResetResult(currentCtx) : Flush(sent, reset)
      BY <2>4 DEF HandleEnd
    <3>3. currentCtx # 0 /\ reset \in BOOLEAN
      BY <3>1, <3>2, CartNext DEF CartInv, ResetResult
    <3>4. ~textSent /\ ~(aggregation /\ sent)
      BY <3>1, <3>2, <3>3, FlushOwes
    <3>5. currentCtx \in cart.opened
      BY <3>1, <3>2, <3>3, <3>4, FlushWrites DEF CartInv, CtxInv
    <3> QED
      BY <1>0, <1>3, <3>1, <3>4, <3>5 DEF WordsInv, Spoken
  <2> QED
    BY <2>1, <2>2, <2>3, <2>4
<1> QED
  BY <1>2, <1>3

SpeechInv ==
    /\ CtxInv /\ OutInv /\ CartInv /\ FlowInv /\ BudgetInv /\ QuietInv
    /\ WordsInv /\ EndInv

\* The stage starts without contexts, frames, interrupts or losses.
LEMMA SpeechInit == Init => SpeechInv
<1> SUFFICES ASSUME Init PROVE SpeechInv
  OBVIOUS
<1>1. CtxInv /\ OutInv /\ EndInv /\ BudgetInv
  BY DEF Init, CtxInv, OutInv, EndInv, BudgetInv
<1>2. CartInv
  BY DEF Init, CartInv, CartType
<1>3. FlowInv
  BY DEF Init, FlowInv, FlowType, DoneIsLast, InEvents, InReader, OnWire
<1>4. Quiet
  BY DEF Init, Quiet
<1>5. WordsInv
  BY DEF Init, WordsInv
<1> QED
  BY <1>1, <1>2, <1>3, <1>4, <1>5 DEF SpeechInv, QuietInv

\* Every step of the orchestrator, the websocket and the neighbours keeps the
\* invariants about what was spoken and what is still owed.
LEMMA SpeechNext == SpeechInv /\ [Next]_vars => SpeechInv'
BY CtxNext, OutNext, CartNext, FlowNext, BudgetNext, QuietNext, WordsNext, EndNext
   DEF SpeechInv

\* The EndFrame waits for the speech in progress, and nothing but interrupts
\* follows it.
THEOREM EndAfterSpeechHolds == Spec => []EndAfterSpeech
<1>1. Init => SpeechInv /\ EndLast /\ EndSpoken
  <2>1. Init => EndLast /\ EndSpoken
    BY DEF Init, EndLast, EndSpoken, Has
  <2> QED
    BY <2>1, SpeechInit
<1>2. SpeechInv /\ EndLast /\ EndSpoken /\ [Next]_vars
         => (SpeechInv /\ EndLast /\ EndSpoken)'
  BY SpeechNext, LastNext, EndSpokenNext DEF SpeechInv
<1>3. EndLast /\ EndSpoken => EndAfterSpeech
  BY DEF EndAfterSpeech, EndLast, EndSpoken, Spoken
<1> QED
  BY <1>1, <1>2, <1>3, PTL DEF Spec

----------------------------------------------------------------------------
(* The frames on their way to the orchestrator.                            *)

\* The frames the orchestrator has yet to see, in order.
Stream == (commands \o (IF proc = "send" THEN <<held>> ELSE <<>>)) \o inbox

InTurn == {"text", "part", "rend"}

\* Behind the end of a response the next of its frames follows a new start.
Bracketed(s) ==
    \A i, k \in DOMAIN s : s[i] = "rend" /\ s[k] \in InTurn /\ i < k =>
        \E j \in DOMAIN s : i < j /\ j < k /\ s[j] = "start"
Opens(s) ==
    \A k \in DOMAIN s : s[k] \in InTurn =>
        \E j \in DOMAIN s : j < k /\ s[j] = "start"
Restarts(s) ==
    \A i \in DOMAIN s : s[i] = "rend" => \E j \in DOMAIN s : i < j /\ s[j] = "start"
Starts(s) == \E j \in DOMAIN s : s[j] = "start"

\* t is s without its element m.
Without(s, m, t) ==
    /\ DOMAIN t = 1..(Len(s) - 1)
    /\ \A i \in DOMAIN t : t[i] = IF i < m THEN s[i] ELSE s[i + 1]

\* A neighbour sends the frames of a response only behind its start.
LEMMA StreamSent ==
    ASSUME NEW s \in Seq(Frames), NEW k \in Frames
    PROVE  LET t == Append(s, k) IN
           /\ Bracketed(s) /\ (k \in InTurn => Restarts(s)) => Bracketed(t)
           /\ Opens(s) /\ (k \in InTurn => Starts(s)) => Opens(t)
           /\ Restarts(s) /\ k # "rend" => Restarts(t)
           /\ Starts(s) => Starts(t)
           /\ k = "start" => Restarts(t) /\ Starts(t)
<1>0. Append(s, k) \in Seq(Frames)
  OBVIOUS
<1>1. PICK t \in Seq(Frames) : t = Append(s, k)
  BY <1>0, Zenon
<1>2. /\ DOMAIN s = 1..Len(s) /\ DOMAIN t = 1..(Len(s) + 1) /\ Len(s) \in Nat
      /\ \A i \in 1..Len(s) : t[i] = s[i]
      /\ t[Len(s) + 1] = k
  BY <1>1
<1>3. Bracketed(s) /\ (k \in InTurn => Restarts(s)) => Bracketed(t)
  BY <1>2 DEF Bracketed, Restarts, InTurn
<1>4. Opens(s) /\ (k \in InTurn => Starts(s)) => Opens(t)
  BY <1>2 DEF Opens, Starts, InTurn
<1>5. Restarts(s) /\ k # "rend" => Restarts(t)
  BY <1>2 DEF Restarts
<1>6. Starts(s) => Starts(t)
  BY <1>2 DEF Starts
<1>7. k = "start" => Restarts(t) /\ Starts(t)
  BY <1>2 DEF Restarts, Starts
<1> QED
  BY <1>1, <1>3, <1>4, <1>5, <1>6, <1>7

\* The orchestrator takes them in order.
LEMMA StreamTaken ==
    ASSUME NEW s \in Seq(Frames), s # <<>>
    PROVE  LET t == Tail(s) IN
           /\ Opens(s) => Head(s) \notin InTurn
           /\ Bracketed(s) => Bracketed(t)
           /\ Bracketed(s) /\ Head(s) = "rend" => Opens(t)
           /\ Opens(s) /\ Head(s) # "start" => Opens(t)
           /\ Restarts(s) => Restarts(t)
           /\ Restarts(s) /\ Head(s) = "rend" => Starts(t)
           /\ Starts(s) /\ Head(s) # "start" => Starts(t)
<1>0. Tail(s) \in Seq(Frames)
  OBVIOUS
<1>1. PICK t \in Seq(Frames) : t = Tail(s)
  BY <1>0, Zenon
<1>2. /\ DOMAIN s = 1..Len(s) /\ DOMAIN t = 1..(Len(s) - 1) /\ Len(s) \in Nat
      /\ Len(s) >= 1 /\ s[1] = Head(s)
      /\ \A i \in 1..(Len(s) - 1) : t[i] = s[i + 1]
  BY <1>1
<1>3. Opens(s) => Head(s) \notin InTurn
  BY <1>2 DEF Opens, InTurn
<1>4. Bracketed(s) => Bracketed(t)
  <2> SUFFICES ASSUME Bracketed(s), NEW i \in DOMAIN t, NEW k \in DOMAIN t,
                      t[i] = "rend", t[k] \in InTurn, i < k
               PROVE  \E j \in DOMAIN t : i < j /\ j < k /\ t[j] = "start"
    BY DEF Bracketed
  <2>0. /\ i + 1 \in DOMAIN s /\ k + 1 \in DOMAIN s /\ i + 1 < k + 1
        /\ s[i + 1] = "rend" /\ s[k + 1] \in InTurn
    BY <1>2
  <2>1. PICK j \in DOMAIN s : i + 1 < j /\ j < k + 1 /\ s[j] = "start"
    BY <2>0, Zenon DEF Bracketed
  <2>2. j - 1 \in DOMAIN t /\ i < j - 1 /\ j - 1 < k /\ t[j - 1] = "start"
    BY <1>2, <2>1
  <2> QED
    BY <2>2
<1>5. Bracketed(s) /\ Head(s) = "rend" => Opens(t)
  <2> SUFFICES ASSUME Bracketed(s), Head(s) = "rend", NEW k \in DOMAIN t,
                      t[k] \in InTurn
               PROVE  \E j \in DOMAIN t : j < k /\ t[j] = "start"
    BY DEF Opens
  <2>0. /\ 1 \in DOMAIN s /\ k + 1 \in DOMAIN s /\ 1 < k + 1
        /\ s[1] = "rend" /\ s[k + 1] \in InTurn
    BY <1>2
  <2>1. PICK j \in DOMAIN s : 1 < j /\ j < k + 1 /\ s[j] = "start"
    BY <2>0, Zenon DEF Bracketed
  <2>2. j - 1 \in DOMAIN t /\ j - 1 < k /\ t[j - 1] = "start"
    BY <1>2, <2>1
  <2> QED
    BY <2>2
<1>6. Opens(s) /\ Head(s) # "start" => Opens(t)
  <2> SUFFICES ASSUME Opens(s), Head(s) # "start", NEW k \in DOMAIN t,
                      t[k] \in InTurn
               PROVE  \E j \in DOMAIN t : j < k /\ t[j] = "start"
    BY DEF Opens
  <2>1. PICK j \in DOMAIN s : j < k + 1 /\ s[j] = "start"
    BY <1>2 DEF Opens
  <2>2. j - 1 \in DOMAIN t /\ j - 1 < k /\ t[j - 1] = "start"
    BY <1>2, <2>1
  <2> QED
    BY <2>2
<1>7. Restarts(s) => Restarts(t) /\ (Head(s) = "rend" => Starts(t))
  <2> SUFFICES ASSUME Restarts(s) PROVE Restarts(t) /\ (Head(s) = "rend" => Starts(t))
    OBVIOUS
  <2>1. ASSUME NEW j \in DOMAIN s, NEW i \in Nat, i + 1 < j, s[j] = "start"
        PROVE  j - 1 \in DOMAIN t /\ i < j - 1 /\ t[j - 1] = "start"
    BY <1>2, <2>1
  <2>2. Restarts(t)
    <3> SUFFICES ASSUME NEW i \in DOMAIN t, t[i] = "rend"
                 PROVE  \E j \in DOMAIN t : i < j /\ t[j] = "start"
      BY DEF Restarts
    <3>1. PICK j \in DOMAIN s : i + 1 < j /\ s[j] = "start"
      BY <1>2 DEF Restarts
    <3> QED
      BY <1>2, <2>1, <3>1
  <2>3. Head(s) = "rend" => Starts(t)
    <3> SUFFICES ASSUME Head(s) = "rend" PROVE Starts(t)
      OBVIOUS
    <3>1. PICK j \in DOMAIN s : 0 + 1 < j /\ s[j] = "start"
      BY <1>2 DEF Restarts
    <3> QED
      BY <2>1, <3>1 DEF Starts
  <2> QED
    BY <2>2, <2>3
<1>8. Starts(s) /\ Head(s) # "start" => Starts(t)
  <2> SUFFICES ASSUME Starts(s), Head(s) # "start" PROVE Starts(t)
    OBVIOUS
  <2>1. PICK j \in DOMAIN s : s[j] = "start"
    BY DEF Starts
  <2>2. j - 1 \in DOMAIN t /\ t[j - 1] = "start"
    BY <1>2, <2>1
  <2> QED
    BY <2>2 DEF Starts
<1> QED
  BY <1>1, <1>3, <1>4, <1>5, <1>6, <1>7, <1>8

\* A frame that is pushed upstream at once was not part of it.
LEMMA StreamUp ==
    ASSUME NEW s \in Seq(Frames), NEW m \in DOMAIN s, s[m] = "up",
           NEW t, Without(s, m, t)
    PROVE  /\ Bracketed(s) => Bracketed(t)
           /\ Opens(s) => Opens(t)
           /\ Restarts(s) => Restarts(t)
           /\ Starts(s) => Starts(t)
<1> DEFINE Old(i) == IF i < m THEN i ELSE i + 1
           New(j) == IF j < m THEN j ELSE j - 1
<1>0. Len(s) \in Nat /\ DOMAIN s = 1..Len(s) /\ m \in 1..Len(s)
  OBVIOUS
<1>1. DOMAIN t = 1..(Len(s) - 1)
  BY DEF Without
<1>2. ASSUME NEW i \in DOMAIN t PROVE Old(i) \in DOMAIN s /\ t[i] = s[Old(i)]
  BY <1>0, <1>1 DEF Without
<1>3. ASSUME NEW j \in DOMAIN s, s[j] = "start"
      PROVE  New(j) \in DOMAIN t /\ t[New(j)] = "start"
  <2>1. j # m
    BY <1>3
  <2> QED
    BY <1>0, <1>1, <1>3, <2>1 DEF Without
<1>4. ASSUME NEW i \in DOMAIN t, NEW j \in DOMAIN s, s[j] = "start"
      PROVE  /\ Old(i) < j => i < New(j)
             /\ j < Old(i) => New(j) < i
  <2>1. j # m
    BY <1>4
  <2> QED
    BY <1>0, <1>1, <2>1
<1>5. ASSUME NEW i \in DOMAIN t, NEW k \in DOMAIN t, i < k PROVE Old(i) < Old(k)
  BY <1>0, <1>1, <1>5
<1> HIDE DEF Old, New
<1>6. Bracketed(s) => Bracketed(t)
  <2> SUFFICES ASSUME Bracketed(s), NEW i \in DOMAIN t, NEW k \in DOMAIN t,
                      t[i] = "rend", t[k] \in InTurn, i < k
               PROVE  \E j \in DOMAIN t : i < j /\ j < k /\ t[j] = "start"
    BY DEF Bracketed
  <2>0. /\ Old(i) \in DOMAIN s /\ Old(k) \in DOMAIN s /\ Old(i) < Old(k)
        /\ s[Old(i)] = "rend" /\ s[Old(k)] \in InTurn
    BY <1>2, <1>5
  <2>1. PICK j \in DOMAIN s : Old(i) < j /\ j < Old(k) /\ s[j] = "start"
    BY <2>0, Zenon DEF Bracketed
  <2> QED
    BY <1>3, <1>4, <2>1
<1>7. Opens(s) => Opens(t)
  <2> SUFFICES ASSUME Opens(s), NEW k \in DOMAIN t, t[k] \in InTurn
               PROVE  \E j \in DOMAIN t : j < k /\ t[j] = "start"
    BY DEF Opens
  <2>1. PICK j \in DOMAIN s : j < Old(k) /\ s[j] = "start"
    BY <1>2, Zenon DEF Opens
  <2> QED
    BY <1>3, <1>4, <2>1
<1>8. Restarts(s) => Restarts(t)
  <2> SUFFICES ASSUME Restarts(s), NEW i \in DOMAIN t, t[i] = "rend"
               PROVE  \E j \in DOMAIN t : i < j /\ t[j] = "start"
    BY DEF Restarts
  <2>1. PICK j \in DOMAIN s : Old(i) < j /\ s[j] = "start"
    BY <1>2, Zenon DEF Restarts
  <2> QED
    BY <1>3, <1>4, <2>1
<1>9. Starts(s) => Starts(t)
  BY <1>3 DEF Starts
<1> QED
  BY <1>6, <1>7, <1>8, <1>9

\* How the queues move the stream along.
LEMMA StreamMoves ==
    ASSUME NEW c \in Seq(Frames), NEW i \in Seq(Frames), NEW k \in Frames
    PROVE  /\ (c \o <<>>) \o i \in Seq(Frames) /\ (c \o <<k>>) \o i \in Seq(Frames)
           /\ (c \o <<k>>) \o i = (Append(c, k) \o <<>>) \o i
           /\ i # <<>> => (c \o <<>>) \o i = (c \o <<Head(i)>>) \o Tail(i)
<1>1. (c \o <<>>) \o i \in Seq(Frames) /\ (c \o <<k>>) \o i \in Seq(Frames)
  OBVIOUS
<1>2. (c \o <<k>>) \o i = (Append(c, k) \o <<>>) \o i
  OBVIOUS
<1>3. i # <<>> => (c \o <<>>) \o i = (c \o <<Head(i)>>) \o Tail(i)
  OBVIOUS
<1> QED
  BY <1>1, <1>2, <1>3

\* A frame sent to inputDataCh comes last in the stream.
LEMMA StreamGrows ==
    ASSUME NEW c \in Seq(Frames), NEW m \in Seq(Frames), NEW i \in Seq(Frames),
           NEW k \in Frames
    PROVE  (c \o m) \o Append(i, k) = Append((c \o m) \o i, k)
OBVIOUS

\* A command taken by the orchestrator was the first of the stream.
LEMMA StreamShrinks ==
    ASSUME NEW c \in Seq(Frames), NEW m \in Seq(Frames), NEW i \in Seq(Frames),
           c # <<>>
    PROVE  /\ (Tail(c) \o m) \o i = Tail((c \o m) \o i)
           /\ Head((c \o m) \o i) = Head(c)
           /\ (c \o m) \o i # <<>>
<1>1. /\ Head((c \o m) \o i) = Head(c)
      /\ (c \o m) \o i # <<>>
  OBVIOUS
<1>2. (Tail(c) \o m) \o i = Tail((c \o m) \o i)
  OBVIOUS
<1> QED
  BY <1>1, <1>2

\* What is read from the inbox is behind the commands.
LEMMA StreamReads ==
    ASSUME NEW c \in Seq(Frames), NEW i \in Seq(Frames), i # <<>>
    PROVE  LET n == Len(c) + 1 IN
           /\ n \in DOMAIN ((c \o <<>>) \o i)
           /\ ((c \o <<>>) \o i)[n] = Head(i)
           /\ Without((c \o <<>>) \o i, n, (c \o <<>>) \o Tail(i))
<1>1. c \o <<>> = c
  OBVIOUS
<1>2. /\ Len(c) + 1 \in DOMAIN (c \o i) /\ (c \o i)[Len(c) + 1] = Head(i)
      /\ Len(c) \in Nat /\ Len(i) \in Nat \ {0}
      /\ Len(c \o i) = Len(c) + Len(i)
  OBVIOUS
<1>3. PICK t \in Seq(Frames) : t = c \o Tail(i)
  <2>1. c \o Tail(i) \in Seq(Frames)
    OBVIOUS
  <2> QED
    BY <2>1, Zenon
<1>4. DOMAIN t = 1..(Len(c) + Len(i) - 1)
  <2>2. Len(Tail(i)) = Len(i) - 1 /\ Tail(i) \in Seq(Frames)
    BY <1>2
  <2>3. Len(t) = Len(c) + Len(Tail(i)) /\ DOMAIN t = 1..Len(t)
    BY <1>3, <2>2
  <2> QED
    BY <1>2, <2>2, <2>3
<1>5. ASSUME NEW x \in 1..(Len(c) + Len(i) - 1)
      PROVE  t[x] = IF x < Len(c) + 1 THEN (c \o i)[x] ELSE (c \o i)[x + 1]
  BY <1>2, <1>3
<1>6. Without(c \o i, Len(c) + 1, t)
  <2>1. PICK u : u = c \o i
    OBVIOUS
  <2>2. /\ DOMAIN t = 1..(Len(u) - 1)
        /\ \A x \in DOMAIN t : t[x] = IF x < Len(c) + 1 THEN u[x] ELSE u[x + 1]
    BY <1>2, <1>4, <1>5, <2>1
  <2> QED
    BY <2>1, <2>2, Zenon DEF Without
<1> QED
  BY <1>1, <1>2, <1>3, <1>6

\* The end of a response is announced by its handler, TTSDone by it or when
\* Cartesia is done, and neither for a context that does not exist yet.
LEMMA NewHas ==
    ASSUME CtxInv, OutInv, [Next]_vars
    PROVE  /\ \A c : Has("rend", c)' => Has("rend", c) \/ HandleResponseEnd
           /\ \A c : Has("done", c)' => Has("done", c) \/ HandleResponseEnd \/ EventDone
           /\ \A k : ~Has(k, lastCtx + 1)
<1>1. PICK t \in Seq(FrameOut) : out' = out \o t /\ Pushes(t)
  BY PushSteps
<1>2. \A n \in DOMAIN t :
        /\ t[n].kind = "rend" => HandleResponseEnd
        /\ t[n].kind = "done" => HandleResponseEnd \/ EventDone
  <2>1. CASE Len(t) = 1 /\ t[1].kind \in {"start", "speak"}
    BY <1>1, <2>1
  <2>2. CASE ~(Len(t) = 1 /\ t[1].kind \in {"start", "speak"})
    BY <1>1, <2>2, Zenon DEF Pushes
  <2> QED
    BY <2>1, <2>2
<1>3. ASSUME NEW k, NEW c, Has(k, c)', ~Has(k, c)
      PROVE  \E n \in DOMAIN t : t[n].kind = k
  <2>1. PICK i \in DOMAIN out' : out'[i] = Pushed(k, c)
    BY <1>3 DEF Has
  <2>2. i \notin DOMAIN out
    BY <1>1, <1>3, <2>1, AfterPush DEF Has, OutInv
  <2> QED
    BY <1>1, <2>1, <2>2, AfterPush DEF OutInv, Pushed
<1>4. ASSUME NEW k, Has(k, lastCtx + 1) PROVE FALSE
  <2>1. PICK i \in DOMAIN out : out[i].ctx = lastCtx + 1
    BY <1>4 DEF Has, Pushed
  <2> QED
    BY <2>1 DEF OutInv, CtxInv
<1> QED
  BY <1>2, <1>3, <1>4

\* How the stream changes while the call goes on.
LEMMA StreamSteps ==
    ASSUME CtxInv, OutInv, Quiet, [Next]_vars, orch' # "exited"
    PROVE  /\ Stream \in Seq(Frames)
           /\ \/ Stream' = Stream /\ UNCHANGED <<open, currentCtx>> /\ ~HandleResponseEnd
              \/ \E k \in Frames : SendFrame(k) /\ Stream' = Append(Stream, k)
              \/ /\ UNCHANGED <<open, out, orchVars>>
                 /\ \E m \in DOMAIN Stream :
                       Stream[m] = "up" /\ Without(Stream, m, Stream')
              \/ \E k \in Frames : /\ orchestrator /\ Command(k) /\ Stream # <<>>
                                    /\ Head(Stream) = k /\ Stream' = Tail(Stream)
<1> DEFINE mid == IF proc = "send" THEN <<held>> ELSE <<>>
           Goal == \/ Stream' = Stream /\ UNCHANGED <<open, currentCtx>>
                      /\ ~HandleResponseEnd
                   \/ \E k \in Frames : SendFrame(k) /\ Stream' = Append(Stream, k)
                   \/ /\ UNCHANGED <<open, out, orchVars>>
                      /\ \E m \in DOMAIN Stream :
                            Stream[m] = "up" /\ Without(Stream, m, Stream')
                   \/ \E k \in Frames : /\ orchestrator /\ Command(k) /\ Stream # <<>>
                                         /\ Head(Stream) = k /\ Stream' = Tail(Stream)
<1>0. /\ orch # "exited" /\ ~ctxDone /\ proc # "exited" /\ ~endDone
      /\ procCancelled = FALSE
      /\ commands \in Seq(Frames) /\ inbox \in Seq(Frames) /\ mid \in Seq(Frames)
      /\ proc = "send" => held \in Frames
  BY ExitedStays DEF Quiet
<1>1. Stream = (commands \o mid) \o inbox /\ Stream \in Seq(Frames)
  BY <1>0, StreamMoves DEF Stream
<1> HIDE DEF mid
<1>r. ASSUME commands' = commands PROVE ~HandleResponseEnd
  BY <1>0, <1>r DEF HandleResponseEnd, Command
<1>s. ASSUME Stream' = Stream, UNCHANGED <<open, currentCtx>>, ~HandleResponseEnd
      PROVE  Goal
  BY <1>s
<1>u. ASSUME UNCHANGED <<commands, proc, held, inbox, open, currentCtx>> PROVE Goal
  BY <1>u, <1>r DEF Stream
<1>a. ASSUME NEW k \in Frames, SendFrame(k), Stream' = Append(Stream, k) PROVE Goal
  BY <1>a
<1>w. ASSUME UNCHANGED <<open, out, orchVars>>,
             \E m \in DOMAIN Stream : Stream[m] = "up" /\ Without(Stream, m, Stream')
      PROVE  Goal
  BY <1>w
<1>t. ASSUME NEW k \in Frames, orchestrator, Command(k), Stream # <<>>,
             Head(Stream) = k, Stream' = Tail(Stream)
      PROVE  Goal
  BY <1>t
<1> SUFFICES Goal
  BY <1>1
<1> HIDE DEF Goal
<1>2. CASE \E k \in Frames : SendFrame(k)
  <2>1. PICK k \in Frames : SendFrame(k)
    BY <1>2
  <2>2. UNCHANGED <<commands, proc, held>> /\ inbox' = Append(inbox, k)
    BY <2>1 DEF SendFrame
  <2>3. Stream' = (commands \o mid) \o Append(inbox, k)
    BY <2>2 DEF Stream, mid
  <2>4. Stream' = Append(Stream, k)
    <3>1. PICK c \in Seq(Frames), m \in Seq(Frames), i \in Seq(Frames) :
            c = commands /\ m = mid /\ i = inbox
      BY <1>0
    <3>2. Stream = (c \o m) \o i /\ Stream' = (c \o m) \o Append(i, k)
      BY <1>1, <2>3, <3>1, Zenon
    <3>3. (c \o m) \o Append(i, k) = Append((c \o m) \o i, k)
      BY <3>1, StreamGrows
    <3> QED
      BY <3>2, <3>3, Zenon
  <2> QED
    BY <1>a, <2>1, <2>4
<1>3. CASE ProcTake
  <2>1. /\ proc = "ready" /\ inbox # <<>> /\ inbox' = Tail(inbox) /\ mid = <<>>
        /\ UNCHANGED <<commands, open, currentCtx, out, orchVars>>
    BY <1>3 DEF ProcTake, envVars, orchVars, mid
  <2>2. PICK h \in Frames : h = Head(inbox)
    BY <1>0, <2>1
  <2>3. CASE h = "up"
    <3>1. Stream' = (commands \o <<>>) \o Tail(inbox)
      BY <1>3, <2>1, <2>2, <2>3 DEF ProcTake, Stream
    <3>2. Stream = (commands \o <<>>) \o inbox
      BY <1>1, <2>1
    <3>3. \E n \in DOMAIN Stream : Stream[n] = "up" /\ Without(Stream, n, Stream')
      BY <1>0, <2>1, <2>2, <2>3, <3>1, <3>2, StreamReads, Zenon
    <3> QED
      BY <1>w, <2>1, <3>3
  <2>4. CASE h # "up"
    <3>1. Stream' = (commands \o <<Head(inbox)>>) \o Tail(inbox)
      BY <1>3, <2>1, <2>2, <2>4 DEF ProcTake, Stream
    <3>2. Stream' = Stream
      BY <1>0, <1>1, <2>1, <2>2, <3>1, StreamMoves
    <3> QED
      BY <1>r, <1>s, <2>1, <3>2
  <2> QED
    BY <2>3, <2>4
<1>4. CASE ProcSend
  <2>1. /\ proc = "send" /\ proc' # "send" /\ commands' = Append(commands, held)
        /\ UNCHANGED <<inbox, open, currentCtx>> /\ held \in Frames
    BY <1>0, <1>4 DEF ProcSend, envVars, orchVars
  <2>2. Stream' = (Append(commands, held) \o <<>>) \o inbox
    BY <2>1 DEF Stream
  <2>3. Stream' = Stream
    BY <1>0, <1>1, <2>1, <2>2, StreamMoves DEF mid
  <2>4. ~HandleResponseEnd
    BY <1>0, <2>1 DEF HandleResponseEnd, Command
  <2> QED
    BY <1>s, <2>1, <2>3, <2>4
<1>5. CASE EndReturns \/ ProcExit \/ StragglerSends
  BY <1>0, <1>5 DEF EndReturns, ProcExit, StragglerSends, Quiet
<1>6. CASE inputLoop
  <2>1. CASE IntCancel \/ IntPush \/ IntCommand \/ InputExit
    BY <1>0, <2>1 DEF IntCancel, IntPush, IntCommand, InputExit, Quiet
  <2>2. CASE IntPurge
    <3>1. intPC # "wait"
      BY DEF Quiet
    <3> QED
      BY <2>2, <3>1, Zenon DEF IntPurge
  <2> QED
    BY <1>6, <2>1, <2>2 DEF inputLoop
<1>7. CASE SendInterrupt \/ UNCHANGED vars
  BY <1>u, <1>7 DEF SendInterrupt, vars, baseVars, orchVars, envVars
<1>8. CASE Network
  BY <1>u, <1>8, NetworkFrame DEF baseVars, orchVars
<1>9. CASE orchestrator
  <2>1. UNCHANGED <<proc, held, inbox, open>>
    BY <1>9, OrchestratorFrame DEF baseVars, envVars
  <2>2. CASE \E k : Command(k)
    <3>1. PICK k \in Frames : /\ Command(k) /\ commands # <<>> /\ Head(commands) = k
                              /\ commands' = Tail(commands)
      BY <1>0, <2>2 DEF Command
    <3>2. Stream' = (Tail(commands) \o mid) \o inbox
      BY <2>1, <3>1 DEF Stream, mid
    <3>3. Stream' = Tail(Stream) /\ Head(Stream) = k /\ Stream # <<>>
      <4>1. PICK c \in Seq(Frames), m \in Seq(Frames), i \in Seq(Frames) :
              c = commands /\ m = mid /\ i = inbox
        BY <1>0
      <4>2. /\ Stream = (c \o m) \o i /\ Stream' = (Tail(c) \o m) \o i
            /\ c # <<>> /\ Head(c) = k
        BY <1>1, <3>1, <3>2, <4>1, Zenon
      <4>3. c \in Seq(Frames) /\ m \in Seq(Frames) /\ i \in Seq(Frames) /\ c # <<>>
        BY <4>1, <4>2, Zenon
      <4>4. (Tail(c) \o m) \o i = Tail((c \o m) \o i)
        BY <4>3, StreamShrinks, Zenon
      <4>5. Head((c \o m) \o i) = Head(c)
        BY <4>3, StreamShrinks, Zenon
      <4>6. (c \o m) \o i # <<>>
        BY <4>3, StreamShrinks, Zenon
      <4> QED
        BY <4>2, <4>4, <4>5, <4>6, Zenon
    <3> QED
      BY <1>9, <1>t, <3>1, <3>3
  <2>3. CASE Connected \/ OrchExit \/ EventStale \/ EventAudio \/ EventWords \/ EventDone
    BY <1>u, <2>1, <2>3 DEF Connected, OrchExit, EventStale, EventAudio, EventWords,
       EventDone, TakeEvent
  <2>4. CASE ~(Connected \/ OrchExit \/ EventStale \/ EventAudio \/ EventWords \/ EventDone)
    <3>1. \E k : Command(k)
      BY <1>9, <2>4 DEF orchestrator, HandleInterrupt, HandleStart, HandlePart,
         HandleText, HandleResponseEnd, HandleSpeak, HandleOther, HandleEnd, DropCommand
    <3> QED
      BY <2>2, <3>1
  <2> QED
    BY <2>3, <2>4
<1> QED
  BY <1>2, <1>3, <1>4, <1>5, <1>6, <1>7, <1>8, <1>9, Steps DEF Around, processLoop

\* A command is handled by the handler of its kind, or dropped.
LEMMA Handled ==
    ASSUME Quiet, orchestrator, NEW k, Command(k), ~pendingEnd
    PROVE  /\ k = "start" => HandleStart
           /\ k = "rend" <=> HandleResponseEnd
           /\ k = "speak" => HandleSpeak
           /\ k \notin {"start", "speak"} => currentCtx' = currentCtx
           /\ ~Connected /\ ~OrchExit /\ ~TakeEvent /\ ~HandleInterrupt
<1>1. /\ commands \in Seq(Frames) /\ commands # <<>> /\ Head(commands) = k
      /\ commands' = Tail(commands) /\ "interrupt" \notin Frames
  BY DEF Quiet, Command, Frames
<1>2. commands' # commands /\ k # "interrupt"
  <2>1. Len(commands') # Len(commands)
    BY <1>1
  <2>2. k \in Frames
    BY <1>1
  <2> QED
    BY <1>1, <2>1, <2>2
<1>3. ~Connected /\ ~OrchExit /\ ~TakeEvent /\ ~HandleInterrupt
  BY <1>1, <1>2 DEF Connected, OrchExit, TakeEvent, HandleInterrupt, Command
<1>4. ~EventStale /\ ~EventAudio /\ ~EventWords /\ ~EventDone
      /\ \A c \in Commands : ~DropCommand(c)
  BY <1>3 DEF EventStale, EventAudio, EventWords, EventDone, DropCommand
<1>5. \/ HandleStart \/ HandlePart \/ HandleText \/ HandleResponseEnd \/ HandleSpeak
      \/ HandleOther \/ HandleEnd
  BY <1>3, <1>4 DEF orchestrator
<1>6. /\ (HandleStart => k = "start") /\ (HandlePart => k = "part")
      /\ (HandleText => k = "text") /\ (HandleResponseEnd => k = "rend")
      /\ (HandleSpeak => k = "speak") /\ (HandleOther => k = "other")
      /\ (HandleEnd => k = "end")
  BY <1>1 DEF HandleStart, HandlePart, HandleText, HandleResponseEnd, HandleSpeak,
     HandleOther, HandleEnd, Command
<1>7. HandlePart \/ HandleText \/ HandleResponseEnd \/ HandleOther \/ HandleEnd
         => currentCtx' = currentCtx
  BY DEF HandlePart, HandleText, HandleResponseEnd, HandleOther, HandleEnd, orchVars
<1> QED
  BY <1>3, <1>5, <1>6, <1>7

\* The neighbours bracket the frames of a response: no frame of a closed response
\* is on its way, unless a new start is before it.
StreamInv ==
    NoInterrupt /\ orch # "exited" /\ ~pendingEnd =>
        /\ Bracketed(Stream)
        /\ Has("rend", currentCtx) => Opens(Stream)
        /\ open => Restarts(Stream)
        /\ open /\ Has("rend", currentCtx) => Starts(Stream)

\* A pending EndFrame stays so until the orchestrator exits.
LEMMA PendingStays == [Next]_vars /\ pendingEnd /\ orch' # "exited" => pendingEnd'
<1> SUFFICES ASSUME [Next]_vars, pendingEnd, orch' # "exited" PROVE pendingEnd'
  OBVIOUS
<1>1. CASE orchestrator
  BY <1>1 DEF orchestrator, Connected, OrchExit, HandleInterrupt, HandleStart,
     HandlePart, HandleText, HandleResponseEnd, HandleSpeak, HandleOther, HandleEnd,
     EventStale, EventAudio, EventWords, EventDone, DropCommand, ForwardEnd, orchVars
<1>2. CASE Around \/ Network \/ UNCHANGED vars
  BY <1>2, AroundFrame, NetworkFrame DEF vars, orchVars
<1> QED
  BY <1>1, <1>2, Steps

\* The stage keeps the order in which the frames were sent.
LEMMA StreamNext ==
    ASSUME CtxInv, OutInv, BudgetInv, QuietInv, StreamInv, [Next]_vars
    PROVE  StreamInv'
<1> SUFFICES ASSUME NoInterrupt', orch' # "exited", ~pendingEnd'
             PROVE  /\ Bracketed(Stream)'
                    /\ Has("rend", currentCtx)' => Opens(Stream)'
                    /\ open' => Restarts(Stream)'
                    /\ open' /\ Has("rend", currentCtx)' => Starts(Stream)'
  BY DEF StreamInv
<1>0. /\ Quiet /\ ~pendingEnd /\ Bracketed(Stream)
      /\ Has("rend", currentCtx) => Opens(Stream)
      /\ open => Restarts(Stream)
      /\ open /\ Has("rend", currentCtx) => Starts(Stream)
  BY BudgetNext, ExitedStays, PendingStays DEF QuietInv, StreamInv
<1>s. PICK s \in Seq(Frames) : s = Stream
  BY <1>0, StreamSteps
<1>p. PICK t : t = Stream'
  OBVIOUS
<1>d. /\ Bracketed(Stream)' <=> Bracketed(t)
      /\ Opens(Stream)' <=> Opens(t)
      /\ Restarts(Stream)' <=> Restarts(t)
      /\ Starts(Stream)' <=> Starts(t)
  BY <1>p DEF Bracketed, Opens, Restarts, Starts
<1>1. CASE Stream' = Stream /\ UNCHANGED <<open, currentCtx>> /\ ~HandleResponseEnd
  BY <1>0, <1>d, <1>p, <1>1, NewHas
<1>2. CASE \E k \in Frames : SendFrame(k) /\ Stream' = Append(Stream, k)
  <2>1. PICK k \in Frames : SendFrame(k) /\ Stream' = Append(Stream, k)
    BY <1>2
  <2>2. /\ UNCHANGED <<out, currentCtx>>
        /\ k \in InTurn => open
        /\ open' => k = "start" \/ (open /\ k # "rend")
    BY <2>1 DEF SendFrame, MaySend, InTurn, orchVars
  <2>3. Has("rend", currentCtx)' <=> Has("rend", currentCtx)
    BY <2>2 DEF Has
  <2>4. t = Append(s, k)
    BY <1>s, <1>p, <2>1
  <2> QED
    BY <1>0, <1>s, <1>d, <2>2, <2>3, <2>4, StreamSent
<1>3. CASE /\ UNCHANGED <<open, out, orchVars>>
           /\ \E m \in DOMAIN Stream : Stream[m] = "up" /\ Without(Stream, m, Stream')
  <2>1. UNCHANGED open /\ (Has("rend", currentCtx)' <=> Has("rend", currentCtx))
    BY <1>3 DEF Has, orchVars
  <2>2. PICK m \in DOMAIN s : s[m] = "up" /\ Without(s, m, t)
    BY <1>3, <1>s, <1>p
  <2> QED
    BY <1>0, <1>s, <1>d, <2>1, <2>2, StreamUp
<1>4. CASE \E k \in Frames : /\ orchestrator /\ Command(k) /\ Stream # <<>>
                              /\ Head(Stream) = k /\ Stream' = Tail(Stream)
  <2>1. PICK k \in Frames : /\ orchestrator /\ Command(k) /\ s # <<>>
                            /\ Head(s) = k /\ t = Tail(s)
    BY <1>4, <1>s, <1>p
  <2>2. open' = open
    BY <2>1, OrchestratorFrame DEF envVars
  <2>3. /\ Bracketed(t)
        /\ open => Restarts(t)
        /\ k = "rend" => Opens(t) /\ (open => Starts(t))
        /\ Has("rend", currentCtx) /\ k # "start" => Opens(t)
        /\ open /\ Has("rend", currentCtx) /\ k # "start" => Starts(t)
    BY <1>0, <1>s, <2>1, StreamTaken
  <2>4. Has("rend", currentCtx)' => k = "rend" \/ (Has("rend", currentCtx) /\ k # "start")
    <3>1. CASE k \in {"start", "speak"}
      <4>1. currentCtx' = lastCtx + 1 /\ ~HandleResponseEnd
        BY <1>0, <2>1, <3>1, Handled DEF HandleStart, HandleSpeak, clearTTSState
      <4> QED
        BY <4>1, NewHas
    <3>2. CASE k \notin {"start", "speak"}
      BY <1>0, <2>1, <3>2, Handled, NewHas
    <3> QED
      BY <3>1, <3>2
  <2> QED
    BY <1>d, <2>2, <2>3, <2>4
<1> QED
  BY <1>0, <1>1, <1>2, <1>3, <1>4, StreamSteps

----------------------------------------------------------------------------
(* The close of a turn.                                                    *)

\* No word of c will come any more.
Settled(c) ==
    /\ c \in cart.finished /\ ~pendingWords
    /\ ~InEvents(Msg("words", c)) /\ ~InReader(Msg("words", c))
    /\ ~OnWire(Msg("words", c))

\* Once finished, a context has no words to send.
LEMMA SettledStays ==
    ASSUME CtxInv, CartInv, FlowInv, [Next]_vars, Settled(currentCtx), NEW c,
           c = currentCtx
    PROVE  Settled(c)'
<1>0. /\ cart.finished \subseteq cart'.finished /\ cart \in CartType /\ FlowType
      /\ c \in cart.finished /\ c \notin cart.words
  BY CartNext DEF Settled, CartInv, FlowInv
<1>w. PICK w : w = Msg("words", c)
  OBVIOUS
<1>1. ~pendingWords /\ ~InEvents(w) /\ ~InReader(w) /\ ~OnWire(w)
  BY <1>w DEF Settled
<1>2. SUFFICES ~pendingWords' /\ ~InEvents(w)' /\ ~InReader(w)' /\ ~OnWire(w)'
  BY <1>0, <1>w DEF Settled
<1>3. CASE UNCHANGED <<pendingWords, ttsEvents, reader, readerEvent, wire>>
  BY <1>1, <1>3 DEF InEvents, InReader, OnWire
<1>4. CASE Around \/ UNCHANGED vars
  BY <1>3, <1>4, AroundFrame DEF orchVars, netVars, vars
<1>5. CASE orchestrator
  <2>1. UNCHANGED <<reader, readerEvent, wire>>
    BY <1>5, OrchestratorFrame
  <2>2. ~InEvents(w)'
    <3>1. CASE ttsEvents # <<>> /\ ttsEvents' = Tail(ttsEvents)
      BY <1>0, <1>1, <3>1, EventTaken DEF InEvents, FlowType
    <3> QED
      BY <1>1, <1>5, <3>1, OrchestratorEvents DEF InEvents
  <2>3. ~EventWords
    <3>1. ASSUME EventWords PROVE Head(ttsEvents) = w /\ InEvents(w)
      <4>1. /\ ttsEvents # <<>> /\ Head(ttsEvents).ctx = c
            /\ Head(ttsEvents).type = "words"
        BY <3>1 DEF EventWords, TakeEvent, isCurrent
      <4>2. /\ Head(ttsEvents) \in Message /\ 1 \in DOMAIN ttsEvents
            /\ ttsEvents[1] = Head(ttsEvents)
        BY <1>0, <4>1, EventTaken DEF FlowType
      <4>3. Head(ttsEvents) = w
        BY <1>w, <4>1, <4>2 DEF Message, Msg
      <4> QED
        BY <4>2, <4>3 DEF InEvents
    <3> QED
      BY <1>1, <3>1
  <2>4. ~pendingWords'
    <3>1. pendingWords' = pendingWords \/ pendingWords' = FALSE
      BY <1>5, <2>3 DEF orchestrator, Connected, OrchExit, HandleInterrupt,
         HandleStart, HandlePart, HandleText, HandleResponseEnd, HandleSpeak,
         HandleOther, HandleEnd, EventStale, EventAudio, EventDone, DropCommand,
         clearTTSState, orchVars
    <3> QED
      BY <1>1, <3>1
  <2> QED
    BY <1>1, <2>1, <2>2, <2>4 DEF InReader, OnWire
<1>6. CASE Network
  <2>0. ~pendingWords'
    BY <1>1, <1>6, NetworkFrame DEF orchVars
  <2>1. CASE Connect \/ ReaderExit
    BY <1>1, <2>0, <2>1 DEF Connect, ReaderExit, InEvents, InReader, OnWire
  <2>2. CASE Read
    <3>1. /\ ttsEvents' = ttsEvents /\ wire # <<>> /\ wire' = Tail(wire)
          /\ reader = "read" /\ wire \in Seq(Message)
          /\ \/ UNCHANGED <<reader, readerEvent>>
             \/ readerEvent' = Head(wire)
      BY <1>0, <2>2 DEF Read, FlowType
    <3>2. Head(wire) # w /\ \A n \in DOMAIN Tail(wire) : Tail(wire)[n] # w
      BY <1>1, <3>1, EventTaken DEF OnWire
    <3> QED
      BY <1>1, <2>0, <3>1, <3>2 DEF InEvents, InReader, OnWire
  <2>3. CASE pushTTSEvent
    <3>1. /\ wire' = wire /\ reader' = "read" /\ readerEvent \in Message
          /\ ttsEvents' = Append(ttsEvents, readerEvent) /\ ttsEvents \in Seq(Message)
          /\ readerEvent # w
      BY <1>0, <1>1, <2>3 DEF pushTTSEvent, FlowType, InReader
    <3>2. ~InEvents(w)'
      BY <1>1, <3>1, EventQueued DEF InEvents
    <3> QED
      BY <1>1, <2>0, <3>1, <3>2 DEF InReader, OnWire
  <2>4. CASE \E d \in Ctx : ServerSpeaks(d) \/ ServerDone(d)
    <3>1. PICK d \in Ctx : ServerSpeaks(d) \/ ServerDone(d)
      BY <2>4
    <3>2. UNCHANGED <<ttsEvents, reader, readerEvent>> /\ wire = <<>>
      BY <3>1 DEF ServerSpeaks, ServerDone
    <3>3. PICK e : /\ wire' = Append(wire, e)
                   /\ e.type = "words" => e.ctx \in cart.words
      BY <3>1 DEF ServerSpeaks, ServerDone, Emit
    <3>4. wire' = <<e>> /\ e # w
      BY <1>0, <1>w, <3>2, <3>3 DEF Msg
    <3> QED
      BY <1>1, <2>0, <3>2, <3>4 DEF InEvents, InReader, OnWire
  <2>5. CASE ConnectionLost
    BY <1>1, <2>0, <2>5 DEF ConnectionLost, InEvents, InReader, OnWire
  <2> QED
    BY <1>6, <2>1, <2>2, <2>3, <2>4, <2>5 DEF Network, readTTSConnectionData, Cartesia
<1> QED
  BY <1>4, <1>5, <1>6, Steps

\* A turn is closed behind its words; text without a debt is settled or closed;
\* an empty turn was closed by its end, and no text is left behind that.
TurnInv ==
    NoInterrupt /\ orch # "exited" =>
        /\ Has("done", currentCtx) /\ currentCtx \in cart.opened =>
              Settled(currentCtx)
        /\ pendingEnd => ~aggregation
        /\ ~pendingEnd =>
              /\ currentCtx \in cart.opened /\ ~textSent =>
                    Settled(currentCtx) \/ Has("rend", currentCtx)
              /\ Has("done", currentCtx) /\ currentCtx \notin cart.opened =>
                    Has("rend", currentCtx)
              /\ Has("rend", currentCtx) => ~aggregation

\* While shutdown is not pending, the frames of a response reach a context that
\* is not closed.
LEMMA NotClosed ==
    ASSUME CtxInv, OutInv, Quiet, StreamInv, NoInterrupt, orch # "exited", ~pendingEnd,
           [Next]_vars, orch' # "exited", NEW k \in InTurn, Command(k), orchestrator
    PROVE  ~Has("rend", currentCtx)
<1>1. /\ commands \in Seq(Frames) /\ commands # <<>> /\ Head(commands) = k
      /\ commands' = Tail(commands) /\ UNCHANGED <<proc, held, inbox>>
  BY DEF Quiet, Command, baseVars
<1>2. PICK s \in Seq(Frames) : s = Stream /\ s # <<>> /\ Head(s) = k
  <2> DEFINE mid == IF proc = "send" THEN <<held>> ELSE <<>>
  <2>0. mid \in Seq(Frames) /\ inbox \in Seq(Frames) /\ Stream = (commands \o mid) \o inbox
    BY DEF Quiet, Stream
  <2> HIDE DEF mid
  <2>1. PICK c \in Seq(Frames), m \in Seq(Frames), i \in Seq(Frames) :
          Stream = (c \o m) \o i /\ c # <<>> /\ Head(c) = k
    BY <1>1, <2>0, Zenon
  <2>2. Head((c \o m) \o i) = Head(c)
    BY <2>1, StreamShrinks, Zenon
  <2>3. (c \o m) \o i # <<>>
    BY <2>1, StreamShrinks, Zenon
  <2> QED
    BY <2>1, <2>2, <2>3, StreamSteps
<1>3. Opens(s) => k \notin InTurn
  BY <1>2, StreamTaken
<1> QED
  BY <1>2, <1>3 DEF StreamInv

\* The handler of LLMResponseEnd announces it.
LEMMA RendPushed ==
    ASSUME CtxInv, OutInv, currentCtx' = currentCtx,
           NEW b \in BOOLEAN,
           out' = (IF b THEN out ELSE Append(out, Pushed("done", currentCtx)))
                    \o <<Pushed("rend", currentCtx)>>
    PROVE  Has("rend", currentCtx)'
<1>1. PICK d \in FrameOut, r \in FrameOut :
        d = Pushed("done", currentCtx) /\ r = Pushed("rend", currentCtx)
  BY FrameTyped, Zenon DEF CtxInv, OutKinds
<1>2. out \in Seq(FrameOut) /\ (out' = out \o <<r>> \/ out' = Append(out, d) \o <<r>>)
  BY <1>1 DEF OutInv
<1>3. out' \in Seq(FrameOut) /\ Len(out') \in DOMAIN out' /\ out'[Len(out')] = r
  BY <1>1, <1>2
<1> QED
  BY <1>1, <1>3 DEF Has

\* Every handler and every event keeps the turn in order.
LEMMA TurnNext ==
    ASSUME CtxInv, OutInv, CartInv, FlowInv, BudgetInv, QuietInv, StreamInv, TurnInv,
           [Next]_vars
    PROVE  TurnInv'
<1> DEFINE Goal ==
        /\ Has("done", currentCtx)' /\ currentCtx' \in cart'.opened =>
              Settled(currentCtx)'
        /\ pendingEnd' => ~aggregation'
        /\ ~pendingEnd' =>
              /\ currentCtx' \in cart'.opened /\ ~textSent' =>
                    Settled(currentCtx)' \/ Has("rend", currentCtx)'
              /\ Has("done", currentCtx)' /\ currentCtx' \notin cart'.opened =>
                    Has("rend", currentCtx)'
              /\ Has("rend", currentCtx)' => ~aggregation'
<1> SUFFICES ASSUME NoInterrupt', orch' # "exited" PROVE Goal
  BY DEF TurnInv
<1>0. /\ Quiet /\ NoInterrupt /\ orch # "exited" /\ ~ctxDone /\ cart \in CartType
      /\ currentCtx \in Nat /\ lastCtx \in Nat /\ currentCtx <= lastCtx
  BY BudgetNext, ExitedStays DEF QuietInv, Quiet, CartInv, CtxInv
<1>i. /\ Has("done", currentCtx) /\ currentCtx \in cart.opened => Settled(currentCtx)
      /\ pendingEnd => ~aggregation
      /\ ~pendingEnd =>
            /\ currentCtx \in cart.opened /\ ~textSent =>
                  Settled(currentCtx) \/ Has("rend", currentCtx)
            /\ Has("done", currentCtx) /\ currentCtx \notin cart.opened =>
                  Has("rend", currentCtx)
            /\ Has("rend", currentCtx) => ~aggregation
  BY <1>0 DEF TurnInv
<1>s. ASSUME currentCtx' = currentCtx, Settled(currentCtx) PROVE Settled(currentCtx)'
  BY <1>s, SettledStays
<1>h. \A k, c : Has(k, c) => Has(k, c)'
  BY HasStays
<1>1. CASE EventDone
  <2>1. /\ currentCtx' = currentCtx /\ UNCHANGED <<cart, reader, readerEvent, wire>>
        /\ UNCHANGED <<aggregation, pendingEnd>> /\ pendingWords' = FALSE
        /\ ttsEvents # <<>> /\ ttsEvents' = Tail(ttsEvents)
    BY <1>1 DEF EventDone, TakeEvent, ForwardEnd
  <2>2. currentCtx \in cart.opened /\ Settled(currentCtx)'
    <3>1. ~InEvents(Msg("words", currentCtx))'
      BY <1>1, <2>1, DoneComesLast, EventTaken DEF InEvents, FlowInv, FlowType
    <3> QED
      BY <1>1, <2>1, <3>1, DoneComesLast DEF Settled, InReader, OnWire, CartInv
  <2>3. Has("rend", currentCtx)' => Has("rend", currentCtx)
    <3>1. ~HandleResponseEnd
      <4>1. Len(commands') = Len(commands)
        BY <1>1 DEF EventDone, TakeEvent
      <4> QED
        BY <1>0, <4>1 DEF HandleResponseEnd, Command, Quiet
    <3> QED
      BY <2>1, <3>1, NewHas
  <2> QED
    BY <1>i, <2>1, <2>2, <2>3
<1>2. CASE HandleResponseEnd
  <2>1. /\ currentCtx' = currentCtx /\ ~pendingEnd /\ ~pendingEnd' /\ Command("rend")
        /\ orchestrator
    BY <1>2 DEF HandleResponseEnd, orchestrator
  <2>2. ~Has("rend", currentCtx)
    BY <1>0, <2>1, NotClosed DEF InTurn
  <2>3. PICK sent \in BOOLEAN, reset \in BOOLEAN :
          /\ Flush(sent, reset)
          /\ out' = (IF textSent \/ (aggregation /\ sent) THEN out
                     ELSE Append(out, Pushed("done", currentCtx)))
                    \o <<Pushed("rend", currentCtx)>>
    BY <1>2 DEF HandleResponseEnd, ResetResult
  <2>4. Has("rend", currentCtx)' /\ ~aggregation'
    BY <1>0, <2>1, <2>3, RendPushed DEF Flush
  <2>5. Has("done", currentCtx)' => Has("done", currentCtx) \/ ~(textSent \/ (aggregation /\ sent))
    <3> SUFFICES ASSUME textSent \/ (aggregation /\ sent), Has("done", currentCtx)'
                 PROVE  Has("done", currentCtx)
      OBVIOUS
    <3>1. out' = out \o <<Pushed("rend", currentCtx)>>
      BY <2>3
    <3> QED
      BY <1>0, <2>1, <3>1, FrameTyped DEF Has, OutInv, Pushed, OutKinds
  <2>6. ASSUME Has("done", currentCtx)', currentCtx' \in cart'.opened
        PROVE  Settled(currentCtx)
    <3>1. CASE Has("done", currentCtx)
      BY <1>i, <2>1, <2>2, <3>1
    <3>2. CASE ~textSent /\ ~(aggregation /\ sent)
      <4>1. currentCtx \in cart.opened
        BY <1>0, <2>1, <2>3, <2>6, <3>2, FlushWrites
      <4> QED
        BY <1>i, <2>1, <2>2, <3>2, <4>1
    <3> QED
      BY <2>5, <2>6, <3>1, <3>2
  <2> QED
    BY <1>s, <2>1, <2>4, <2>6
<1>3. CASE ~EventDone /\ ~HandleResponseEnd
  <2>1. \A c : /\ Has("rend", c)' <=> Has("rend", c)
               /\ Has("done", c)' <=> Has("done", c)
    BY <1>h, <1>3, NewHas
  <2>2. CASE UNCHANGED <<currentCtx, textSent, aggregation, pendingEnd>>
             /\ cart'.opened = cart.opened
    BY <1>i, <1>s, <2>1, <2>2
  <2>3. CASE Around \/ UNCHANGED vars
    BY <2>2, <2>3, AroundFrame DEF orchVars, netVars, vars
  <2>4. CASE Network
    <3>1. cart'.opened = cart.opened
      BY <1>0, <2>4 DEF Network, readTTSConnectionData, Connect, Read, pushTTSEvent,
         ReaderExit, Cartesia, ServerSpeaks, ServerDone, ConnectionLost, CartType
    <3> QED
      BY <2>2, <2>4, <3>1, NetworkFrame DEF orchVars
  <2>5. CASE \/ Connected \/ EventStale \/ EventAudio \/ EventWords \/ HandleOther
             \/ \E k \in Commands : DropCommand(k)
    BY <2>2, <2>5 DEF Connected, EventStale, EventAudio, EventWords, HandleOther,
       DropCommand, TakeEvent, netVars, orchVars
  <2>6. CASE OrchExit \/ HandleInterrupt
    <3>1. commands \in Seq(Frames) /\ "interrupt" \notin Frames
      BY <1>0 DEF Quiet, Frames
    <3> QED
      BY <1>0, <2>6, <3>1 DEF OrchExit, HandleInterrupt, Command
  <2>7. CASE HandlePart
    <3>1. /\ Command("part") /\ orchestrator /\ ~pendingEnd /\ ~pendingEnd'
          /\ UNCHANGED <<currentCtx, textSent, cart>>
      BY <2>7 DEF HandlePart, orchestrator
    <3>2. ~Has("rend", currentCtx)
      BY <1>0, <3>1, NotClosed DEF InTurn
    <3> QED
      BY <1>i, <1>s, <2>1, <3>1, <3>2
  <2>8. CASE HandleText
    <3>1. /\ Command("text") /\ orchestrator /\ ~pendingEnd /\ ~pendingEnd'
          /\ currentCtx' = currentCtx
      BY <2>8 DEF HandleText, orchestrator
    <3>2. ~Has("rend", currentCtx)
      BY <1>0, <3>1, NotClosed DEF InTurn
    <3>3. PICK sent \in BOOLEAN : /\ cart' = AfterText(cart, currentCtx, sent)
                                  /\ textSent' = (textSent \/ sent)
      BY <2>8 DEF HandleText
    <3>4. /\ cart.opened \subseteq cart'.opened
          /\ sent \/ cart' = cart
      BY <1>0, <3>3, TextWrites
    <3> QED
      BY <1>i, <1>s, <2>1, <3>1, <3>2, <3>3, <3>4
  <2>9. CASE HandleStart \/ HandleSpeak
    <3>1. /\ currentCtx' = lastCtx + 1 /\ ~pendingEnd' /\ aggregation' = FALSE
      BY <2>9 DEF HandleStart, HandleSpeak, clearTTSState
    <3>2. ~Has("rend", currentCtx)' /\ ~Has("done", currentCtx)'
      BY <2>1, <3>1, NewHas
    <3>3. lastCtx + 1 \notin cart.opened
      BY <1>0 DEF CartInv
    <3>4. CASE HandleStart
      BY <3>1, <3>2, <3>3, <3>4 DEF HandleStart
    <3>5. CASE HandleSpeak
      <4>1. PICK sent \in BOOLEAN, reset \in ResetResult(lastCtx + 1) :
              /\ textSent' = (sent /\ reset)
              /\ \/ cart' = AfterReset(AfterText(cart, lastCtx + 1, sent), lastCtx + 1)
                 \/ cart' = AfterText(cart, lastCtx + 1, sent)
        BY <3>5 DEF HandleSpeak
      <4>2. PICK t \in CartType : /\ t = AfterText(cart, lastCtx + 1, sent)
                                  /\ t = cart \/ (sent /\ conn)
        BY <1>0, TextWrites
      <4>3. cart'.opened = t.opened
        BY <1>0, <4>1, <4>2, ResetWrites
      <4>4. lastCtx + 1 \in cart'.opened => sent /\ conn
        BY <3>3, <4>2, <4>3
      <4>5. lastCtx + 1 # 0
        BY <1>0
      <4>6. lastCtx + 1 \in cart'.opened => textSent'
        BY <4>1, <4>4, <4>5 DEF ResetResult
      <4> QED
        BY <3>1, <3>2, <4>6
    <3> QED
      BY <2>9, <3>4, <3>5
  <2>10. CASE HandleEnd
    <3>1. /\ currentCtx' = currentCtx /\ textSent' /\ pendingEnd'
      BY <2>10 DEF HandleEnd, ForwardEnd
    <3>2. PICK sent \in BOOLEAN, reset \in BOOLEAN : Flush(sent, reset)
      BY <2>10 DEF HandleEnd, ResetResult
    <3>3. /\ ~aggregation' /\ (~aggregation => cart'.opened = cart.opened)
      BY <1>0, <3>2, FlushWrites DEF Flush
    <3>4. ASSUME Has("done", currentCtx), currentCtx \in cart'.opened
          PROVE  Settled(currentCtx)
      BY <1>i, <3>3, <3>4
    <3> QED
      BY <1>s, <2>1, <3>1, <3>3, <3>4
  <2> QED
    BY <1>3, <2>3, <2>4, <2>5, <2>6, <2>7, <2>8, <2>9, <2>10, Steps DEF orchestrator
<1> QED
  BY <1>1, <1>2, <1>3

\* No text goes to a context that was closed without any.
LEMMA OpenedBeforeDone ==
    ASSUME CtxInv, OutInv, CartInv, BudgetInv, QuietInv, StreamInv, TurnInv, [Next]_vars,
           NoInterrupt', NEW c, Has("done", c), c \in cart'.opened
    PROVE  c \in cart.opened
<1> SUFFICES ASSUME c \notin cart.opened PROVE FALSE
  OBVIOUS
<1>0. /\ Quiet /\ NoInterrupt /\ cart \in CartType
      /\ currentCtx \in Nat /\ lastCtx \in Nat
  BY BudgetNext DEF QuietInv, CartInv, CtxInv
<1>1. CASE Around \/ UNCHANGED vars
  BY <1>1, AroundFrame DEF netVars, vars
<1>2. CASE Network
  BY <1>0, <1>2 DEF Network, readTTSConnectionData, Connect, Read, pushTTSEvent,
     ReaderExit, Cartesia, ServerSpeaks, ServerDone, ConnectionLost, CartType
<1>3. CASE orchestrator
  <2>1. ~Command("interrupt")
    <3>1. commands \in Seq(Frames) /\ "interrupt" \notin Frames
      BY <1>0 DEF Quiet, Frames
    <3> QED
      BY <3>1 DEF Command
  <2>2. c = currentCtx'
    BY <1>3, <2>1, OrchestratorWrites DEF Wrote
  <2>3. CASE HandleStart \/ HandleSpeak
    BY <2>2, <2>3, NewHas DEF HandleStart, HandleSpeak, clearTTSState
  <2>4. CASE HandleText \/ HandleResponseEnd
    <3>1. PICK k \in {"text", "rend"} : Command(k)
      BY <2>4 DEF HandleText, HandleResponseEnd
    <3>2. /\ ~pendingEnd /\ currentCtx' = currentCtx /\ orch = "running"
          /\ orch' = "running"
      BY <2>4 DEF HandleText, HandleResponseEnd, Command
    <3>3. ~Has("rend", currentCtx)
      BY <1>0, <1>3, <3>1, <3>2, NotClosed DEF InTurn
    <3> QED
      BY <1>0, <2>2, <3>2, <3>3 DEF TurnInv
  <2>5. CASE HandleEnd
    <3>1. orch = "running" /\ currentCtx' = currentCtx
      BY <2>5 DEF HandleEnd, Command
    <3>2. ~aggregation
      BY <1>0, <2>2, <3>1 DEF TurnInv
    <3>3. PICK sent \in BOOLEAN, reset \in BOOLEAN : Flush(sent, reset)
      BY <2>5 DEF HandleEnd, ResetResult
    <3> QED
      BY <1>0, <3>2, <3>3, FlushWrites
  <2>6. CASE cart' = cart
    BY <2>6
  <2>7. CASE \/ Connected \/ OrchExit \/ HandleInterrupt \/ HandlePart \/ HandleOther
             \/ EventStale \/ EventAudio \/ EventWords \/ EventDone
             \/ \E k \in Commands : DropCommand(k)
    BY <2>1, <2>6, <2>7 DEF Connected, OrchExit, HandleInterrupt, HandlePart,
       HandleOther, EventStale, EventAudio, EventWords, EventDone, DropCommand,
       TakeEvent, netVars
  <2> QED
    BY <1>3, <2>3, <2>4, <2>5, <2>7 DEF orchestrator
<1> QED
  BY <1>1, <1>2, <1>3, Steps

\* A settled context says nothing more.
LEMMA SettledIsSilent ==
    ASSUME FlowInv, Settled(currentCtx)
    PROVE  ~pendingWords /\ ~EventWords
<1> SUFFICES ASSUME EventWords PROVE FALSE
  BY DEF Settled
<1>1. /\ ttsEvents # <<>> /\ Head(ttsEvents).ctx = currentCtx
      /\ Head(ttsEvents).type = "words" /\ ttsEvents \in Seq(Message)
  BY DEF EventWords, TakeEvent, isCurrent, FlowInv, FlowType
<1>2. /\ Head(ttsEvents) \in Message /\ 1 \in DOMAIN ttsEvents
      /\ ttsEvents[1] = Head(ttsEvents)
  BY <1>1, EventTaken
<1>3. Head(ttsEvents) = Msg("words", currentCtx)
  BY <1>1, <1>2 DEF Message, Msg
<1> QED
  BY <1>2, <1>3 DEF Settled, InEvents

\* A word is pushed only while its turn is not closed.
LEMMA WordsBeforeNext ==
    ASSUME CtxInv, OutInv, CartInv, FlowInv, BudgetInv, QuietInv, StreamInv, TurnInv,
           WordsBeforeDone, [Next]_vars
    PROVE  WordsBeforeDone'
<1> SUFFICES ASSUME NoInterrupt', NEW i \in DOMAIN out', NEW j \in DOMAIN out',
                    out'[i].kind = "done", out'[i].ctx \in cart'.opened,
                    out'[j].kind = "words", out'[j].ctx = out'[i].ctx
             PROVE  j < i
  BY DEF WordsBeforeDone
<1>0. NoInterrupt /\ out \in Seq(FrameOut)
  BY BudgetNext DEF OutInv
<1>1. PICK t \in Seq(FrameOut) : out' = out \o t /\ Pushes(t)
  BY PushSteps
<1>2. CASE i \in DOMAIN out
  <2>1. PICK c \in Nat : c = out[i].ctx /\ out[i] = out'[i] /\ out[i] = Pushed("done", c)
    <3>1. out[i] = out'[i] /\ out[i] \in FrameOut
      BY <1>0, <1>1, <1>2, AfterPush
    <3> QED
      BY <3>1 DEF FrameOut, Pushed
  <2>2. c \in cart.opened /\ Has("done", c)
    BY <1>2, <2>1, OpenedBeforeDone DEF Has
  <2>3. CASE j \in DOMAIN out
    BY <1>0, <1>1, <1>2, <2>1, <2>2, <2>3, AfterPush DEF WordsBeforeDone
  <2>4. CASE j \notin DOMAIN out
    <3>1. PICK n \in DOMAIN t : j = Len(out) + n /\ out'[j] = t[n]
      BY <1>0, <1>1, <2>4, AfterPush
    <3>2. ~(Len(t) = 1 /\ t[1].kind \in {"start", "speak"})
      BY <1>1, <3>1
    <3>3. /\ t[n].ctx = currentCtx /\ orch # "exited"
          /\ EventWords \/ pendingWords
      BY <1>1, <3>1, <3>2 DEF Pushes
    <3>4. Settled(currentCtx)
      BY <1>0, <2>1, <2>2, <3>1, <3>3 DEF TurnInv
    <3> QED
      BY <3>3, <3>4, SettledIsSilent
  <2> QED
    BY <2>3, <2>4
<1>3. CASE i \notin DOMAIN out
  <2>1. PICK m \in DOMAIN t : i = Len(out) + m /\ out'[i] = t[m]
    BY <1>0, <1>1, <1>3, AfterPush
  <2>2. CASE j \in DOMAIN out
    BY <1>0, <1>1, <2>1, <2>2, AfterPush
  <2>3. CASE j \notin DOMAIN out
    <3>1. PICK n \in DOMAIN t : j = Len(out) + n /\ out'[j] = t[n]
      BY <1>0, <1>1, <2>3, AfterPush
    <3>2. ~(Len(t) = 1 /\ t[1].kind \in {"start", "speak"})
      BY <1>1, <3>1
    <3>3. n < m
      BY <1>1, <2>1, <3>1, <3>2 DEF Pushes
    <3> QED
      BY <1>0, <1>1, <2>1, <3>1, <3>3, AfterPush
  <2> QED
    BY <2>2, <2>3
<1> QED
  BY <1>2, <1>3

\* In a call without interrupts every word of a response is announced before its
\* TTSDone.
THEOREM WordsBeforeDoneHolds == Spec => []WordsBeforeDone
<1> DEFINE Inv == SpeechInv /\ StreamInv /\ TurnInv /\ WordsBeforeDone
<1>1. Init => Inv
  <2> SUFFICES ASSUME Init PROVE StreamInv /\ TurnInv /\ WordsBeforeDone
    BY SpeechInit
  <2>1. DOMAIN Stream = {} /\ ~aggregation /\ ~pendingEnd /\ DOMAIN out = {}
    BY DEF Init, Stream
  <2>2. \A k, c : ~Has(k, c)
    BY <2>1 DEF Has
  <2>3. StreamInv
    BY <2>1, <2>2 DEF StreamInv, Bracketed, Opens, Restarts, Starts
  <2>4. TurnInv
    BY <2>1, <2>2 DEF Init, TurnInv
  <2> QED
    BY <2>1, <2>3, <2>4 DEF WordsBeforeDone
<1>2. Inv /\ [Next]_vars => Inv'
  BY SpeechNext, StreamNext, TurnNext, WordsBeforeNext DEF SpeechInv
<1>3. Inv => WordsBeforeDone
  OBVIOUS
<1> QED
  BY <1>1, <1>2, <1>3, PTL DEF Spec

=============================================================================
