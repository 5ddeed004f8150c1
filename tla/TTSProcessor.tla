---------------------------- MODULE TTSProcessor ----------------------------
(***************************************************************************)
(* The text-to-speech stage (voicepipelinecore/tts_processor.go): the      *)
(* processLoop and inputLoop that relay frames as commands, the            *)
(* orchestrator goroutine that owns the synthesis state, and the reader of *)
(* the Cartesia websocket.  Cartesia is external.                          *)
(*                                                                         *)
(* A frame from the LLM stage is its kind: "start" and "rend" bracket a    *)
(* response, "text" completes a sentence and "part" does not, "speak" is a *)
(* prompt, "end" the EndFrame, "other" any frame passed on by the          *)
(* orchestrator, "up" a frame going upstream.  A synthesis context is the  *)
(* number of the response or prompt it belongs to; 0 is the empty id.      *)
(* inbox is inputDataCh followed by procCh of the base processor.          *)
(***************************************************************************)
EXTENDS Naturals, Sequences, FiniteSets, SequencesExt

CONSTANTS
    InboxCap,            \* capacity of inputDataCh and procCh together (200)
    CmdCap, EvCap,       \* capacities of commands and ttsEvents (100 each)
    Kinds,               \* kinds of frames the neighbours send
    MaxFrames, MaxTurns, MaxInterrupts, MaxDrops,   \* bounds on the environment
    NoFrame, NoEvent

ASSUME TTSAssumption ==
    /\ InboxCap \in Nat \ {0} /\ CmdCap \in Nat \ {0} /\ EvCap \in Nat \ {0}
    /\ MaxFrames \in Nat /\ MaxTurns \in Nat
    /\ MaxInterrupts \in Nat /\ MaxDrops \in Nat
    /\ Kinds \subseteq {"start", "text", "part", "rend", "speak", "end",
                        "other", "up"}

VARIABLES
    inbox, sysCount,        \* data frames and interrupts queued at the base
    proc, held, procCancelled,   \* processLoop, its frame, is procCtx done
    straggler,              \* frame an abandoned processLoop still sends
    intPC,                  \* inputLoop inside an interrupt
    ctxDone,                \* t.ctx is cancelled
    commands, ttsEvents,
    orch,                   \* the orchestrator
    currentCtx, activeCtx, lastCtx,
    aggregation, textSent,  \* text not yet sent; cartesiaTextSent
    pendingWords,           \* words waiting for their audio
    pendingEnd, endDone,    \* deferred EndFrame; its done channel is closed
    reader, readerEvent, wire, conn,   \* the websocket and its reader
    cart,                   \* external: what Cartesia knows of each context
    open, left, turnsLeft, interruptsLeft, drops, endSent,   \* the environment
    out                     \* history: what was pushed downstream, with context

baseVars == <<inbox, sysCount, proc, held, procCancelled, straggler, intPC>>
orchVars == <<orch, currentCtx, activeCtx, lastCtx, aggregation, textSent,
              pendingWords, pendingEnd, endDone>>
netVars  == <<reader, readerEvent, wire, conn, cart>>
envVars  == <<open, left, turnsLeft, interruptsLeft, drops, endSent>>
vars     == <<baseVars, ctxDone, commands, ttsEvents, orchVars, netVars,
              envVars, out>>

Ctx == 0..MaxTurns
Frames == Kinds \cup {"end"}
Commands == Frames \cup {"interrupt"}

Init ==
    /\ inbox = <<>> /\ sysCount = 0
    /\ proc = "ready" /\ held = NoFrame /\ procCancelled = FALSE
    /\ straggler = NoFrame /\ intPC = "idle" /\ ctxDone = FALSE
    /\ commands = <<>> /\ ttsEvents = <<>>
    /\ orch = "connecting"
    /\ currentCtx = 0 /\ activeCtx = 0 /\ lastCtx = 0
    /\ aggregation = FALSE /\ textSent = FALSE /\ pendingWords = FALSE
    /\ pendingEnd = FALSE /\ endDone = FALSE
    /\ reader = "connect" /\ readerEvent = NoEvent /\ wire = <<>>
    /\ conn = FALSE
    /\ cart = [audio |-> {}, words |-> {}, opened |-> {}, closed |-> {},
               finished |-> {}]
    /\ open = FALSE /\ left = MaxFrames /\ turnsLeft = MaxTurns
    /\ interruptsLeft = MaxInterrupts /\ drops = MaxDrops /\ endSent = FALSE
    /\ out = <<>>

Pushed(k, c) == [kind |-> k, ctx |-> c]

----------------------------------------------------------------------------
(* The neighbours.  An LLM run that was cancelled by an interrupt, a newer *)
(* run or the EndFrame may still push frames after it; a prompt comes      *)
(* through the LLM stage at any time.  QueueFrame refuses frames once the  *)
(* processor is cancelled.                                                 *)

MaySend(k) ==
    /\ k \in {"speak", "end", "other"} => ~endSent
    /\ k \in {"text", "part", "rend"} => open
    /\ k \in {"start", "speak"} => turnsLeft > 0

SendFrame(k) ==
    /\ left > 0 /\ ~ctxDone
    /\ MaySend(k)
    /\ Len(inbox) < InboxCap
    /\ inbox' = Append(inbox, k)
    /\ left' = left - 1
    /\ turnsLeft' = IF k \in {"start", "speak"} THEN turnsLeft - 1
                    ELSE turnsLeft
    /\ open' = (k = "start" \/ (open /\ k # "rend"))
    /\ endSent' = (endSent \/ k = "end")
    /\ UNCHANGED <<sysCount, proc, held, procCancelled, straggler, intPC,
                   ctxDone, commands, ttsEvents, orchVars, netVars,
                   interruptsLeft, drops, out>>

SendInterrupt ==
    /\ interruptsLeft > 0 /\ ~ctxDone
    /\ sysCount' = sysCount + 1
    /\ interruptsLeft' = interruptsLeft - 1
    /\ UNCHANGED <<inbox, proc, held, procCancelled, straggler, intPC, ctxDone,
                   commands, ttsEvents, orchVars, netVars, open, left,
                   turnsLeft, drops, endSent, out>>

----------------------------------------------------------------------------
(* ProcessFrame for data frames, on the processLoop.                       *)

ProcTake ==
    /\ proc = "ready" /\ ~procCancelled /\ ~ctxDone
    /\ inbox # <<>>
    /\ inbox' = Tail(inbox)
    /\ IF Head(inbox) = "up"
       THEN UNCHANGED <<proc, held>>       \* pushed upstream at once
       ELSE proc' = "send" /\ held' = Head(inbox)
    /\ UNCHANGED <<sysCount, procCancelled, straggler, intPC, ctxDone,
                   commands, ttsEvents, orchVars, netVars, envVars, out>>

ProcSend ==
    /\ proc = "send"
    /\ Len(commands) < CmdCap
    /\ commands' = Append(commands, held)
    /\ held' = NoFrame
    /\ proc' = IF held = "end" THEN "waitEnd" ELSE "ready"
    /\ UNCHANGED <<inbox, sysCount, procCancelled, straggler, intPC, ctxDone,
                   ttsEvents, orchVars, netVars, envVars, out>>

\* The EndFrame handler returns when done is closed or its ctx is cancelled;
\* the base then cancels the processor.
EndReturns ==
    /\ proc = "waitEnd"
    /\ endDone \/ procCancelled \/ ctxDone
    /\ proc' = "exited"
    /\ ctxDone' = TRUE
    /\ UNCHANGED <<inbox, sysCount, held, procCancelled, straggler, intPC,
                   commands, ttsEvents, orchVars, netVars, envVars, out>>

ProcExit ==
    /\ \/ proc = "ready" /\ (procCancelled \/ ctxDone)
       \/ proc = "send" /\ ctxDone
    /\ proc' = "exited"
    /\ held' = NoFrame
    /\ UNCHANGED <<inbox, sysCount, procCancelled, straggler, intPC, ctxDone,
                   commands, ttsEvents, orchVars, netVars, envVars, out>>

\* A processLoop given up by an interrupt gets its frame into commands, or
\* leaves with the processor.
StragglerSends ==
    /\ straggler # NoFrame
    /\ \/ /\ Len(commands) < CmdCap
          /\ commands' = Append(commands, straggler)
          /\ ctxDone' = (ctxDone \/ straggler = "end")
       \/ ctxDone /\ UNCHANGED <<commands, ctxDone>>
    /\ straggler' = NoFrame
    /\ UNCHANGED <<inbox, sysCount, proc, held, procCancelled, intPC,
                   ttsEvents, orchVars, netVars, envVars, out>>

----------------------------------------------------------------------------
(* InterruptFrame, on the inputLoop.                                       *)

IntCancel ==
    /\ intPC = "idle" /\ ~ctxDone
    /\ sysCount > 0
    /\ sysCount' = sysCount - 1
    /\ procCancelled' = TRUE
    /\ intPC' = "wait"
    /\ UNCHANGED <<inbox, proc, held, straggler, ctxDone, commands, ttsEvents,
                   orchVars, netVars, envVars, out>>

\* The wait ends when processLoop has exited or, if it is blocked sending to
\* commands, after procLoopExitTimeout.  The part of inbox that had reached
\* procCh is purged and a new processLoop starts.
IntPurge ==
    /\ intPC = "wait"
    /\ \/ proc = "exited" /\ UNCHANGED straggler
       \/ /\ proc = "send" /\ Len(commands) = CmdCap
          /\ straggler = NoFrame /\ straggler' = held
    /\ \E n \in 0..Len(inbox) :
          inbox' = SelectSeq(SubSeq(inbox, 1, n), LAMBDA f : f = "end")
                     \o SubSeq(inbox, n + 1, Len(inbox))
    /\ proc' = "ready" /\ held' = NoFrame /\ procCancelled' = FALSE
    /\ intPC' = "push"
    /\ UNCHANGED <<sysCount, ctxDone, commands, ttsEvents, orchVars, netVars,
                   envVars, out>>

IntPush ==
    /\ intPC = "push"
    /\ out' = Append(out, Pushed("interrupt", 0))
    /\ intPC' = "command"
    /\ UNCHANGED <<inbox, sysCount, proc, held, procCancelled, straggler,
                   ctxDone, commands, ttsEvents, orchVars, netVars, envVars>>

IntCommand ==
    /\ intPC = "command"
    /\ Len(commands) < CmdCap
    /\ commands' = Append(commands, "interrupt")
    /\ intPC' = "idle"
    /\ UNCHANGED <<inbox, sysCount, proc, held, procCancelled, straggler,
                   ctxDone, ttsEvents, orchVars, netVars, envVars, out>>

InputExit ==
    /\ ctxDone
    /\ intPC \in {"idle", "command"}
    /\ intPC' = "exited"
    /\ UNCHANGED <<inbox, sysCount, proc, held, procCancelled, straggler,
                   ctxDone, commands, ttsEvents, orchVars, netVars, envVars,
                   out>>

----------------------------------------------------------------------------
(* Writes to Cartesia, each a transformation of what Cartesia knows.  A    *)
(* write to a finished or unknown context has no effect there.  A write    *)
(* while the connection is down fails or is lost.                          *)

\* sendTextToTTS; without effect and FALSE if the phonetic filter drops it.
AfterText(s, c, sent) ==
    IF sent /\ conn /\ c # 0 /\ c \notin s.finished \cup s.closed
    THEN [s EXCEPT !.opened = @ \cup {c}, !.audio = @ \cup {c},
                   !.words = @ \cup {c}]
    ELSE s

AfterReset(s, c) ==
    IF conn /\ c \in s.opened \ s.finished
    THEN [s EXCEPT !.closed = @ \cup {c}] ELSE s

AfterCancel(s, c) ==
    IF conn /\ c # 0
    THEN [s EXCEPT !.finished = @ \cup {c}, !.audio = @ \ {c},
                   !.words = @ \ {c}]
    ELSE s

\* ResetTTSContext may report: success, or failure without a connection.
ResetResult(c) == IF c = 0 THEN {FALSE} ELSE IF conn THEN {TRUE} ELSE BOOLEAN

\* Send the aggregated text, if any, and close the context if Cartesia owes a
\* "done" (flushForEnd, and the LLMResponseEnd handler).
Flush(sent, reset) ==
    LET owes == textSent \/ (aggregation /\ sent)
        s    == IF aggregation THEN AfterText(cart, currentCtx, sent) ELSE cart
    IN  /\ textSent' = (owes /\ reset)
        /\ cart' = IF owes /\ reset THEN AfterReset(s, currentCtx) ELSE s
        /\ aggregation' = FALSE

clearTTSState(ctx) ==
    /\ activeCtx' = ctx /\ currentCtx' = ctx
    /\ lastCtx' = IF ctx = 0 THEN lastCtx ELSE ctx
    /\ aggregation' = FALSE
    /\ pendingWords' = FALSE
    /\ ttsEvents' = <<>>         \* drainTTSEvents follows every clear

----------------------------------------------------------------------------
(* The orchestrator.                                                       *)

Connected ==
    /\ orch = "connecting"
    /\ conn
    /\ orch' = "running"
    /\ UNCHANGED <<baseVars, ctxDone, commands, ttsEvents, currentCtx,
                   activeCtx, lastCtx, aggregation, textSent, pendingWords,
                   pendingEnd, endDone, netVars, envVars, out>>

OrchExit ==
    /\ ctxDone /\ orch # "exited"
    /\ orch' = "exited"
    /\ UNCHANGED <<baseVars, ctxDone, commands, ttsEvents, currentCtx,
                   activeCtx, lastCtx, aggregation, textSent, pendingWords,
                   pendingEnd, endDone, netVars, envVars, out>>

Command(k) ==
    /\ orch = "running"
    /\ commands # <<>> /\ Head(commands) = k
    /\ commands' = Tail(commands)
    /\ UNCHANGED <<baseVars, reader, readerEvent, wire, envVars>>

\* Everything but an EndFrame is dropped while shutdown is pending.
DropCommand(k) ==
    /\ Command(k)
    /\ k # "end" /\ pendingEnd
    /\ UNCHANGED <<ctxDone, ttsEvents, orchVars, conn, cart, out>>

HandleInterrupt ==
    /\ Command("interrupt") /\ ~pendingEnd
    /\ cart' = AfterCancel(cart, currentCtx)
    /\ clearTTSState(0)
    /\ textSent' = FALSE
    /\ UNCHANGED <<ctxDone, orch, pendingEnd, endDone, conn, out>>

HandleStart ==
    /\ Command("start") /\ ~pendingEnd
    /\ clearTTSState(lastCtx + 1)
    /\ textSent' = FALSE
    /\ out' = Append(out, Pushed("start", lastCtx + 1))
    /\ UNCHANGED <<ctxDone, orch, pendingEnd, endDone, conn, cart>>

HandlePart ==
    /\ Command("part") /\ ~pendingEnd
    /\ aggregation' = TRUE
    /\ UNCHANGED <<ctxDone, ttsEvents, orch, currentCtx, activeCtx, lastCtx,
                   textSent, pendingWords, pendingEnd, endDone, conn, cart,
                   out>>

HandleText ==
    /\ Command("text") /\ ~pendingEnd
    /\ \E sent \in BOOLEAN :
          /\ cart' = AfterText(cart, currentCtx, sent)
          /\ textSent' = (textSent \/ sent)
    /\ aggregation' = FALSE
    /\ UNCHANGED <<ctxDone, ttsEvents, orch, currentCtx, activeCtx, lastCtx,
                   pendingWords, pendingEnd, endDone, conn, out>>

\* Mutant: every response end closes the turn at once.
ResponseEndCloses ==
    /\ Command("rend") /\ ~pendingEnd
    /\ \E sent \in BOOLEAN, reset \in ResetResult(currentCtx) :
          Flush(sent, reset)
    /\ out' = out \o <<Pushed("done", currentCtx), Pushed("rend", currentCtx)>>
    /\ UNCHANGED <<ctxDone, ttsEvents, orch, currentCtx, activeCtx, lastCtx,
                   pendingWords, pendingEnd, endDone, conn>>

\* An empty turn is closed with a TTSDoneFrame at once.
HandleResponseEnd ==
    /\ Command("rend") /\ ~pendingEnd
    /\ \E sent \in BOOLEAN, reset \in ResetResult(currentCtx) :
          /\ Flush(sent, reset)
          /\ out' = (IF textSent \/ (aggregation /\ sent) THEN out
                     ELSE Append(out, Pushed("done", currentCtx)))
                    \o <<Pushed("rend", currentCtx)>>
    /\ UNCHANGED <<ctxDone, ttsEvents, orch, currentCtx, activeCtx, lastCtx,
                   pendingWords, pendingEnd, endDone, conn>>

HandleSpeak ==
    /\ Command("speak") /\ ~pendingEnd
    /\ clearTTSState(lastCtx + 1)
    /\ \E sent \in BOOLEAN, reset \in ResetResult(lastCtx + 1) :
          /\ textSent' = (sent /\ reset)
          /\ cart' = IF sent /\ reset
                     THEN AfterReset(AfterText(cart, lastCtx + 1, sent),
                                     lastCtx + 1)
                     ELSE AfterText(cart, lastCtx + 1, sent)
    /\ out' = Append(out, Pushed("speak", lastCtx + 1))
    /\ UNCHANGED <<ctxDone, orch, pendingEnd, endDone, conn>>

HandleOther ==
    /\ Command("other") /\ ~pendingEnd
    /\ out' = Append(out, Pushed("other", currentCtx))
    /\ UNCHANGED <<ctxDone, ttsEvents, orchVars, conn, cart>>

\* Push the EndFrame, close its done channel and Stop: the context is
\* cancelled and the websocket closed.
ForwardEnd(before) ==
    /\ out' = before \o <<Pushed("end", currentCtx)>>
    /\ endDone' = TRUE
    /\ ctxDone' = TRUE
    /\ activeCtx' = 0
    /\ conn' = FALSE
    /\ orch' = "exited"

\* Mutant: the EndFrame does not wait for speech in progress.
HandleEndAtOnce ==
    /\ Command("end")
    /\ \E sent \in BOOLEAN, reset \in ResetResult(currentCtx) :
          Flush(sent, reset)
    /\ ForwardEnd(out)
    /\ UNCHANGED <<pendingEnd, ttsEvents, currentCtx, lastCtx, pendingWords>>

\* handleEnd: the EndFrame is forwarded at once, or deferred while Cartesia
\* owes a "done".  There is one EndFrame per call.
HandleEnd ==
    /\ Command("end")
    /\ \E sent \in BOOLEAN, reset \in ResetResult(currentCtx) :
          Flush(sent, reset)
    /\ IF textSent'
       THEN /\ pendingEnd' = TRUE
            /\ UNCHANGED <<out, endDone, ctxDone, activeCtx, conn, orch>>
       ELSE ForwardEnd(out) /\ UNCHANGED pendingEnd
    /\ UNCHANGED <<ttsEvents, currentCtx, lastCtx, pendingWords>>

\* handleTTSEvent; the words may have to wait for their audio.
TakeEvent ==
    /\ orch = "running"
    /\ ttsEvents # <<>>
    /\ ttsEvents' = Tail(ttsEvents)
    /\ UNCHANGED <<baseVars, commands, currentCtx, lastCtx, aggregation,
                   reader, readerEvent, wire, cart, envVars>>

\* Mutant: events of cleared contexts are accepted.
AnyContext(e) == TRUE

isCurrent(e) == currentCtx # 0 /\ e.ctx = currentCtx

EventStale ==
    /\ TakeEvent
    /\ ~isCurrent(Head(ttsEvents))
    /\ UNCHANGED <<ctxDone, orch, activeCtx, textSent, pendingWords,
                   pendingEnd, endDone, conn, out>>

Flushed == IF pendingWords THEN <<Pushed("words", currentCtx)>> ELSE <<>>

EventAudio ==
    /\ TakeEvent
    /\ isCurrent(Head(ttsEvents)) /\ Head(ttsEvents).type = "audio"
    /\ \/ /\ out' = Append(out, Pushed("audio", Head(ttsEvents).ctx))
          /\ UNCHANGED pendingWords
       \/ /\ pendingWords
          /\ out' = Append(out, Pushed("audio", Head(ttsEvents).ctx)) \o Flushed
          /\ pendingWords' = FALSE
    /\ UNCHANGED <<ctxDone, orch, activeCtx, textSent, pendingEnd, endDone,
                   conn>>

EventWords ==
    /\ TakeEvent
    /\ isCurrent(Head(ttsEvents)) /\ Head(ttsEvents).type = "words"
    /\ \/ pendingWords' = TRUE /\ UNCHANGED out
       \/ /\ out' = Append(out, Pushed("words", Head(ttsEvents).ctx))
          /\ pendingWords' = FALSE
    /\ UNCHANGED <<ctxDone, orch, activeCtx, textSent, pendingEnd, endDone,
                   conn>>

\* Mutant: the deferred EndFrame is forgotten.
EventDoneForgetsEnd ==
    /\ TakeEvent
    /\ isCurrent(Head(ttsEvents)) /\ Head(ttsEvents).type = "done"
    /\ textSent' = FALSE
    /\ pendingWords' = FALSE
    /\ out' = out \o Flushed \o <<Pushed("done", currentCtx)>>
    /\ UNCHANGED <<pendingEnd, endDone, ctxDone, activeCtx, conn, orch>>

EventDone ==
    /\ TakeEvent
    /\ isCurrent(Head(ttsEvents)) /\ Head(ttsEvents).type = "done"
    /\ textSent' = FALSE
    /\ pendingWords' = FALSE
    /\ LET pushed == out \o Flushed \o <<Pushed("done", Head(ttsEvents).ctx)>>
       IN  IF pendingEnd
           THEN ForwardEnd(pushed) /\ pendingEnd' = FALSE
           ELSE /\ out' = pushed
                /\ UNCHANGED <<pendingEnd, endDone, ctxDone, activeCtx, conn,
                               orch>>

----------------------------------------------------------------------------
(* The reader of the websocket.                                            *)

Connect ==
    /\ reader = "connect" /\ ~ctxDone
    /\ reader' = "read"
    /\ conn' = TRUE
    /\ UNCHANGED <<baseVars, ctxDone, commands, ttsEvents, orchVars,
                   readerEvent, wire, cart, envVars, out>>

\* A message of a context that is not active is skipped.
Read ==
    /\ reader = "read" /\ ~ctxDone
    /\ wire # <<>>
    /\ wire' = Tail(wire)
    /\ IF activeCtx # 0 /\ Head(wire).ctx = activeCtx
       THEN reader' = "push" /\ readerEvent' = Head(wire)
       ELSE UNCHANGED <<reader, readerEvent>>
    /\ UNCHANGED <<baseVars, ctxDone, commands, ttsEvents, orchVars, conn,
                   cart, envVars, out>>

\* Mutant: an event that finds ttsEvents full is dropped.
PushEventLossy ==
    /\ reader = "push"
    /\ ttsEvents' = IF Len(ttsEvents) < EvCap
                    THEN Append(ttsEvents, readerEvent) ELSE ttsEvents
    /\ reader' = "read" /\ readerEvent' = NoEvent
    /\ UNCHANGED <<baseVars, ctxDone, commands, orchVars, wire, conn, cart,
                   envVars, out>>

pushTTSEvent ==
    /\ reader = "push"
    /\ Len(ttsEvents) < EvCap
    /\ ttsEvents' = Append(ttsEvents, readerEvent)
    /\ reader' = "read" /\ readerEvent' = NoEvent
    /\ UNCHANGED <<baseVars, ctxDone, commands, orchVars, wire, conn, cart,
                   envVars, out>>

ReaderExit ==
    /\ ctxDone /\ reader # "exited"
    /\ reader' = "exited" /\ readerEvent' = NoEvent
    /\ UNCHANGED <<baseVars, ctxDone, commands, ttsEvents, orchVars, wire,
                   conn, cart, envVars, out>>

----------------------------------------------------------------------------
(* Cartesia: audio and words of a context in either order, then "done"     *)
(* once it was closed.  A lost connection loses its contexts.  What it     *)
(* sends once the reader leaves with t.ctx is not observed.                *)

Emit(e) == wire' = Append(wire, e)

ServerSpeaks(c) ==
    /\ conn /\ ~ctxDone /\ wire = <<>>
    /\ \/ /\ c \in cart.audio
          /\ Emit([type |-> "audio", ctx |-> c])
          /\ cart' = [cart EXCEPT !.audio = @ \ {c}]
       \/ /\ c \in cart.words
          /\ Emit([type |-> "words", ctx |-> c])
          /\ cart' = [cart EXCEPT !.words = @ \ {c}]
    /\ UNCHANGED <<baseVars, ctxDone, commands, ttsEvents, orchVars, reader,
                   readerEvent, conn, envVars, out>>

ServerDone(c) ==
    /\ conn /\ ~ctxDone /\ wire = <<>>
    /\ c \in cart.closed \ (cart.audio \cup cart.words \cup cart.finished)
    /\ Emit([type |-> "done", ctx |-> c])
    /\ cart' = [cart EXCEPT !.finished = @ \cup {c}]
    /\ UNCHANGED <<baseVars, ctxDone, commands, ttsEvents, orchVars, reader,
                   readerEvent, conn, envVars, out>>

ConnectionLost ==
    /\ drops > 0 /\ conn /\ ~ctxDone /\ reader = "read"
    /\ drops' = drops - 1
    /\ conn' = FALSE /\ wire' = <<>>
    /\ reader' = "connect"
    /\ cart' = [cart EXCEPT !.finished = @ \cup cart.opened,
                            !.audio = {}, !.words = {}]
    /\ UNCHANGED <<baseVars, ctxDone, commands, ttsEvents, orchVars,
                   readerEvent, open, left, turnsLeft, interruptsLeft, endSent,
                   out>>

----------------------------------------------------------------------------
processLoop == ProcTake \/ ProcSend \/ EndReturns \/ ProcExit

inputLoop == IntCancel \/ IntPurge \/ IntPush \/ IntCommand \/ InputExit

orchestrator ==
    \/ Connected \/ OrchExit \/ HandleInterrupt \/ HandleStart \/ HandlePart
    \/ HandleText \/ HandleResponseEnd \/ HandleSpeak \/ HandleOther
    \/ HandleEnd \/ EventStale \/ EventAudio \/ EventWords \/ EventDone
    \/ \E k \in Commands : DropCommand(k)

readTTSConnectionData == Connect \/ Read \/ pushTTSEvent \/ ReaderExit

Cartesia == \E c \in Ctx : ServerSpeaks(c) \/ ServerDone(c)

Next ==
    \/ \E k \in Frames : SendFrame(k)
    \/ SendInterrupt
    \/ processLoop \/ StragglerSends \/ inputLoop
    \/ orchestrator \/ readTTSConnectionData
    \/ Cartesia \/ ConnectionLost

Spec == Init /\ [][Next]_vars

\* Every goroutine that can run does, and Cartesia answers; nobody has to send
\* a frame, and connections need not fail.
FairSpec ==
    /\ Spec
    /\ WF_vars(processLoop) /\ WF_vars(StragglerSends) /\ WF_vars(inputLoop)
    /\ WF_vars(orchestrator) /\ WF_vars(readTTSConnectionData)
    /\ WF_vars(Cartesia)

----------------------------------------------------------------------------
(* Properties.                                                             *)

\* The connection was not lost, and nobody interrupted, so far.
NoDrop == drops = MaxDrops
NoInterrupt == interruptsLeft = MaxInterrupts

Openings == {i \in DOMAIN out : out[i].kind \in {"start", "speak"}}

\* Audio and word timestamps pushed to playback always belong to the response
\* or prompt announced last: an event of an older context that the reader had
\* already accepted cannot slip past a clear-and-drain.
NoStaleSpeech ==
    \A i \in DOMAIN out, j \in Openings :
        out[i].kind \in {"audio", "words"} /\ j < i => out[i].ctx >= out[j].ctx

\* The EndFrame waits for the speech in progress: if the current context had
\* text, its TTSDone and words precede the EndFrame, and nothing but interrupts
\* follows the EndFrame.
Has(k, c) == \E i \in DOMAIN out : out[i] = Pushed(k, c)
EndAfterSpeech ==
    /\ \A i, j \in DOMAIN out :
          out[i].kind = "end" /\ i < j => out[j].kind = "interrupt"
    /\ NoDrop /\ NoInterrupt /\ Has("end", currentCtx)
              /\ currentCtx \in cart.opened =>
          Has("done", currentCtx) /\ Has("words", currentCtx)

\* In a call without interrupts no word of a response is announced after its
\* TTSDone: playback and the transcript see the whole turn before it closes.
WordsBeforeDone ==
    NoInterrupt => \A i, j \in DOMAIN out :
        /\ out[i].kind = "done" /\ out[i].ctx \in cart.opened
        /\ out[j].kind = "words" /\ out[j].ctx = out[i].ctx
        => j < i

\* An EndFrame that reached the stage is forwarded, so that the call ends,
\* unless the connection was lost.
EndForwarded ==
    endSent ~> (\E i \in DOMAIN out : out[i].kind = "end") \/ ~NoDrop

\* A turn or prompt whose text Cartesia accepted is closed by a TTSDone, unless
\* an interrupt, a newer turn or the end of the call took its place.
TurnCloses ==
    \A c \in Ctx \ {0} :
        (c \in cart.closed /\ currentCtx = c) ~>
            (currentCtx # c \/ Has("done", c) \/ ctxDone \/ ~NoDrop)
=============================================================================
