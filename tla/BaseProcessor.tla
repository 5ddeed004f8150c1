--------------------------- MODULE BaseProcessor ---------------------------
(***************************************************************************)
(* One pipeline processor: the goroutines, channels and cancellation tree  *)
(* that voicepipelinecore/processor.go gives every node of the pipeline.   *)
(*                                                                         *)
(* Senders (the two neighbours and the processor's own helper goroutines)  *)
(* call QueueFrame.  inputLoop moves data frames from inputDataCh to       *)
(* procCh and handles system frames inline; processLoop takes frames from  *)
(* procCh and calls ProcessFrame.  An InterruptFrame makes inputLoop       *)
(* cancel the current processLoop, wait for it, purge procCh of the        *)
(* interruptible frames and start a new processLoop.  Each processLoop is  *)
(* named after the interrupt that created it; the one Start creates is     *)
(* FirstLoop.                                                              *)
(*                                                                         *)
(* ProcessFrame is the embedding processor's code: here it starts, takes   *)
(* arbitrarily long and returns.                                           *)
(***************************************************************************)
EXTENDS Naturals, Sequences, FiniteSets

CONSTANTS
    Frame,        \* the frames sent to this processor during one call
    Kind,         \* Kind[f]: "interrupt", "error", "data", "call" or "end"
    Sender,       \* goroutines that call QueueFrame
    SysCap, DataCap, ProcCap,   \* channel capacities (16, 100, 100)
    FirstLoop,    \* name of the processLoop created by Start
    NoFrame

FrameKinds == {"interrupt", "error", "data", "call", "end"}

Interrupt == {f \in Frame : Kind[f] = "interrupt"}

IsSystem(f) == Kind[f] \in {"interrupt", "error"}

IsInterruptible(f) == Kind[f] = "data"

Loop == Interrupt \cup {FirstLoop}

ASSUME FrameAssumption ==
    /\ Kind \in [Frame -> FrameKinds]
    /\ NoFrame \notin Frame
    /\ FirstLoop \notin Frame

ASSUME CapAssumption ==
    SysCap \in Nat \ {0} /\ DataCap \in Nat \ {0} /\ ProcCap \in Nat \ {0}

VARIABLES
    started, cancelling, ctxDone,  \* b.started, b.cancelling, b.ctx is done
    sysCh, dataCh, procCh,         \* the three channels
    sending,    \* sending[s]: frame of the QueueFrame call s is blocked in
    inPC,       \* where inputLoop is
    hand,       \* the frame inputLoop holds
    keep,       \* frames interruptProcessLoop saved from the purge
    cur,        \* the processLoop whose cancel function is b.procCancel
    cancelled,  \* processLoops whose own procCtx was cancelled
    loop,       \* where each processLoop is
    inFlight,   \* frame each processLoop is running ProcessFrame on
    waiter,     \* the goroutine each interrupt spawns to wait on procWG
    panicked,   \* the Go runtime raised a WaitGroup reuse panic
    timedOut,   \* history: procLoopExitTimeout has fired
    arrived,    \* history: data frames in the order they entered inputDataCh
    begun       \* history: frames in the order ProcessFrame was called on them

queues   == <<sysCh, dataCh, procCh>>
ctxVars  == <<started, cancelling, ctxDone>>
inVars   == <<inPC, hand, keep>>
loopVars == <<loop, inFlight, begun>>
wgVars   == <<waiter, panicked, timedOut>>
vars     == <<queues, ctxVars, sending, inVars, cur, cancelled, loopVars,
              wgVars, arrived>>

LoopState   == {"unborn", "top", "select", "busy", "exited"}
InputState  == {"unstarted", "priority", "fair", "forward", "wait", "drain",
                "pushback", "handle", "exited"}
WaiterState == {"unborn", "spawned", "waiting", "woken", "returned"}

\* Sequences are functions with a finite domain; Elems(s) is what s holds.
Elems(s) == {s[i] : i \in DOMAIN s}

\* procWG's counter is the number of live processLoops.
Live(g) == loop[g] \in {"top", "select", "busy"}

\* procCtx of g is done when it was cancelled or its parent b.ctx is.
ProcCtxDone(g) == g \in cancelled \/ ctxDone

TypeOK ==
    /\ started \in BOOLEAN /\ cancelling \in BOOLEAN /\ ctxDone \in BOOLEAN
    /\ sysCh \in Seq(Frame) /\ dataCh \in Seq(Frame) /\ procCh \in Seq(Frame)
    /\ sending \in [Sender -> Frame \cup {NoFrame}]
    /\ inPC \in InputState
    /\ hand \in Frame \cup {NoFrame}
    /\ keep \in Seq(Frame)
    /\ cur \in Loop
    /\ cancelled \subseteq Loop
    /\ loop \in [Loop -> LoopState]
    /\ inFlight \in [Loop -> Frame \cup {NoFrame}]
    /\ waiter \in [Interrupt -> WaiterState]
    /\ panicked \in BOOLEAN /\ timedOut \in BOOLEAN
    /\ arrived \in Seq(Frame)
    /\ begun \in Seq(Frame)

Init ==
    /\ started = FALSE /\ cancelling = FALSE /\ ctxDone = FALSE
    /\ sysCh = <<>> /\ dataCh = <<>> /\ procCh = <<>>
    /\ sending = [s \in Sender |-> NoFrame]
    /\ inPC = "unstarted" /\ hand = NoFrame /\ keep = <<>>
    /\ cur = FirstLoop
    /\ cancelled = {}
    /\ loop = [g \in Loop |-> "unborn"]
    /\ inFlight = [g \in Loop |-> NoFrame]
    /\ waiter = [i \in Interrupt |-> "unborn"]
    /\ panicked = FALSE /\ timedOut = FALSE
    /\ arrived = <<>> /\ begun = <<>>

----------------------------------------------------------------------------
(* Start and Stop, and the cancellation of the task's context.             *)

Start ==
    /\ ~started
    /\ started' = TRUE
    /\ loop' = [loop EXCEPT ![FirstLoop] = "top"]
    /\ inPC' = "priority"
    /\ UNCHANGED <<queues, cancelling, ctxDone, sending, hand, keep, cur,
                   cancelled, inFlight, begun, wgVars, arrived>>

Stop ==
    /\ ~cancelling
    /\ cancelling' = TRUE
    /\ ctxDone' = TRUE
    /\ UNCHANGED <<started, queues, sending, inVars, cur, cancelled, loopVars,
                   wgVars, arrived>>

\* taskCtx.Ctx, the parent of b.ctx, is cancelled (PipelineTask.Cancel).
TaskCancel ==
    /\ ~ctxDone
    /\ ctxDone' = TRUE
    /\ UNCHANGED <<started, cancelling, queues, sending, inVars, cur,
                   cancelled, loopVars, wgVars, arrived>>

----------------------------------------------------------------------------
(* QueueFrame: the cancelling check, then a select between the channel and *)
(* the receiver's ctx.                                                     *)

\* Each frame instance is queued at most once.
Sent == Elems(arrived) \cup Elems(sysCh) \cup Elems(begun)
          \cup {sending[s] : s \in Sender} \cup {hand}
          \cup {i \in Interrupt : waiter[i] # "unborn"}

QueueFrame(s, f) ==
    /\ sending[s] = NoFrame
    /\ f \notin Sent
    /\ ~cancelling
    /\ sending' = [sending EXCEPT ![s] = f]
    /\ UNCHANGED <<queues, ctxVars, inVars, cur, cancelled, loopVars, wgVars,
                   arrived>>

Deliver(s) ==
    /\ sending[s] # NoFrame
    /\ IF IsSystem(sending[s])
       THEN /\ Len(sysCh) < SysCap
            /\ sysCh' = Append(sysCh, sending[s])
            /\ UNCHANGED <<dataCh, arrived>>
       ELSE /\ Len(dataCh) < DataCap
            /\ dataCh' = Append(dataCh, sending[s])
            /\ arrived' = Append(arrived, sending[s])
            /\ UNCHANGED sysCh
    /\ sending' = [sending EXCEPT ![s] = NoFrame]
    /\ UNCHANGED <<procCh, ctxVars, inVars, cur, cancelled, loopVars, wgVars>>

GiveUp(s) ==
    /\ sending[s] # NoFrame
    /\ ctxDone
    /\ sending' = [sending EXCEPT ![s] = NoFrame]
    /\ UNCHANGED <<queues, ctxVars, inVars, cur, cancelled, loopVars, wgVars,
                   arrived>>

----------------------------------------------------------------------------
(* inputLoop.                                                              *)

InputExit ==
    /\ ctxDone
    /\ inPC \in {"priority", "fair", "forward"}
    /\ inPC' = "exited"
    /\ hand' = NoFrame
    /\ UNCHANGED <<queues, ctxVars, sending, keep, cur, cancelled, loopVars,
                   wgVars, arrived>>

\* A system frame is taken in either pass.  For an InterruptFrame,
\* interruptProcessLoop cancels the current loop and spawns the waiter.
TakeSystem ==
    /\ inPC \in {"priority", "fair"}
    /\ sysCh # <<>>
    /\ hand' = Head(sysCh)
    /\ sysCh' = Tail(sysCh)
    /\ IF hand' \in Interrupt
       THEN /\ cancelled' = cancelled \cup {cur}
            /\ waiter' = [waiter EXCEPT ![hand'] = "spawned"]
            /\ inPC' = "wait"
       ELSE /\ inPC' = "handle"
            /\ UNCHANGED <<cancelled, waiter>>
    /\ UNCHANGED <<dataCh, procCh, ctxVars, sending, keep, cur, loopVars,
                   panicked, timedOut, arrived>>

\* The priority pass finds neither ctx.Done nor a system frame ready.
PriorityDefault ==
    /\ inPC = "priority"
    /\ ~ctxDone /\ sysCh = <<>>
    /\ inPC' = "fair"
    /\ UNCHANGED <<queues, ctxVars, sending, hand, keep, cur, cancelled,
                   loopVars, wgVars, arrived>>

\* The fair pass may take a data frame even if a system frame is ready.
TakeData ==
    /\ inPC = "fair"
    /\ dataCh # <<>>
    /\ hand' = Head(dataCh)
    /\ dataCh' = Tail(dataCh)
    /\ inPC' = "forward"
    /\ UNCHANGED <<sysCh, procCh, ctxVars, sending, keep, cur, cancelled,
                   loopVars, wgVars, arrived>>

\* Mutant: the held frame is forgotten before it is sent.
ForwardAfterReset ==
    /\ inPC = "forward"
    /\ Len(procCh) < ProcCap
    /\ hand' = NoFrame
    /\ procCh' = Append(procCh, hand')
    /\ inPC' = "priority"
    /\ UNCHANGED <<sysCh, dataCh, ctxVars, sending, keep, cur, cancelled,
                   loopVars, wgVars, arrived>>

Forward ==
    /\ inPC = "forward"
    /\ Len(procCh) < ProcCap
    /\ procCh' = Append(procCh, hand)
    /\ hand' = NoFrame
    /\ inPC' = "priority"
    /\ UNCHANGED <<sysCh, dataCh, ctxVars, sending, keep, cur, cancelled,
                   loopVars, wgVars, arrived>>

----------------------------------------------------------------------------
(* interruptProcessLoop, after the cancel: the bounded wait, the purge,    *)
(* the new processLoop and the push-back of the frames that were kept.     *)

\* Mutant: the purge starts without waiting for the cancelled loop.
WaitSkipped ==
    /\ inPC = "wait"
    /\ inPC' = "drain"
    /\ UNCHANGED <<queues, ctxVars, sending, hand, keep, cur, cancelled,
                   loopVars, wgVars, arrived>>

WaitDone ==
    /\ inPC = "wait"
    /\ waiter[hand] = "returned"
    /\ inPC' = "drain"
    /\ UNCHANGED <<queues, ctxVars, sending, hand, keep, cur, cancelled,
                   loopVars, wgVars, arrived>>

\* procLoopExitTimeout fires: every live loop is still in its handler.
WaitTimeout ==
    /\ inPC = "wait"
    /\ \E g \in Loop : Live(g)
    /\ \A g \in Loop : Live(g) => loop[g] = "busy"
    /\ inPC' = "drain"
    /\ timedOut' = TRUE
    /\ UNCHANGED <<queues, ctxVars, sending, hand, keep, cur, cancelled,
                   loopVars, waiter, panicked, arrived>>

\* Mutants: the purge keeps no frame, or every frame.
DrainOneWith(kept) ==
    /\ inPC = "drain"
    /\ procCh # <<>>
    /\ keep' = kept
    /\ procCh' = Tail(procCh)
    /\ UNCHANGED <<sysCh, dataCh, ctxVars, sending, inPC, hand, cur, cancelled,
                   loopVars, wgVars, arrived>>
DrainDropsAll == DrainOneWith(keep)
DrainKeepsAll == DrainOneWith(Append(keep, Head(procCh)))

DrainOne ==
    /\ inPC = "drain"
    /\ procCh # <<>>
    /\ keep' = IF IsInterruptible(Head(procCh)) THEN keep
               ELSE Append(keep, Head(procCh))
    /\ procCh' = Tail(procCh)
    /\ UNCHANGED <<sysCh, dataCh, ctxVars, sending, inPC, hand, cur, cancelled,
                   loopVars, wgVars, arrived>>

\* The drain finds procCh empty; startProcessLoop spawns the new loop.
StartProcessLoop ==
    /\ inPC = "drain"
    /\ procCh = <<>>
    /\ cur' = hand
    /\ loop' = [loop EXCEPT ![hand] = "top"]
    /\ inPC' = "pushback"
    /\ UNCHANGED <<queues, ctxVars, sending, hand, keep, cancelled, inFlight,
                   begun, wgVars, arrived>>

\* Mutants: the kept frames are pushed back last first, or not consumed.
PushBackWith(f, rest) ==
    /\ inPC = "pushback"
    /\ keep # <<>>
    /\ Len(procCh) < ProcCap
    /\ procCh' = Append(procCh, f)
    /\ keep' = rest
    /\ UNCHANGED <<sysCh, dataCh, ctxVars, sending, inPC, hand, cur, cancelled,
                   loopVars, wgVars, arrived>>
PushBackReversed ==
    PushBackWith(keep[Len(keep)], SubSeq(keep, 1, Len(keep) - 1))
PushBackRepeats == PushBackWith(Head(keep), keep)

PushBack ==
    /\ inPC = "pushback"
    /\ keep # <<>>
    /\ Len(procCh) < ProcCap
    /\ procCh' = Append(procCh, Head(keep))
    /\ keep' = Tail(keep)
    /\ UNCHANGED <<sysCh, dataCh, ctxVars, sending, inPC, hand, cur, cancelled,
                   loopVars, wgVars, arrived>>

PushBackDone ==
    /\ inPC = "pushback"
    /\ keep = <<>> \/ ctxDone
    /\ keep' = <<>>
    /\ inPC' = "handle"
    /\ UNCHANGED <<queues, ctxVars, sending, hand, cur, cancelled, loopVars,
                   wgVars, arrived>>

\* handleSystem calls ProcessFrame(b.ctx, ...) inline and the loop continues.
HandleSystem ==
    /\ inPC = "handle"
    /\ begun' = Append(begun, hand)
    /\ hand' = NoFrame
    /\ inPC' = "priority"
    /\ UNCHANGED <<queues, ctxVars, sending, keep, cur, cancelled, loop,
                   inFlight, wgVars, arrived>>

----------------------------------------------------------------------------
(* processLoop g.                                                          *)

LoopTop(g) ==
    /\ loop[g] = "top"
    /\ ~ProcCtxDone(g)
    /\ loop' = [loop EXCEPT ![g] = "select"]
    /\ UNCHANGED <<queues, ctxVars, sending, inVars, cur, cancelled, inFlight,
                   begun, wgVars, arrived>>

\* The second select: it may take a frame although ctx was cancelled meanwhile.
LoopTake(g) ==
    /\ loop[g] = "select"
    /\ procCh # <<>>
    /\ loop' = [loop EXCEPT ![g] = "busy"]
    /\ inFlight' = [inFlight EXCEPT ![g] = Head(procCh)]
    /\ begun' = Append(begun, Head(procCh))
    /\ procCh' = Tail(procCh)
    /\ UNCHANGED <<sysCh, dataCh, ctxVars, sending, inVars, cur, cancelled,
                   wgVars, arrived>>

\* Mutant: a processLoop exits without procWG.Done().
DoneForgotten(g) == UNCHANGED waiter

\* When the last live loop exits, procWG wakes the goroutines waiting on it.
WakeWaiters(g) ==
    waiter' = IF \E h \in Loop \ {g} : Live(h) THEN waiter
              ELSE [i \in Interrupt |-> IF waiter[i] = "waiting" THEN "woken"
                                        ELSE waiter[i]]

LoopExit(g) ==
    /\ loop[g] \in {"top", "select"}
    /\ ProcCtxDone(g)
    /\ loop' = [loop EXCEPT ![g] = "exited"]
    /\ WakeWaiters(g)
    /\ UNCHANGED <<queues, ctxVars, sending, inVars, cur, cancelled, inFlight,
                   begun, panicked, timedOut, arrived>>

LoopReturn(g) ==
    /\ loop[g] = "busy"
    /\ Kind[inFlight[g]] # "end"
    /\ loop' = [loop EXCEPT ![g] = "top"]
    /\ inFlight' = [inFlight EXCEPT ![g] = NoFrame]
    /\ UNCHANGED <<queues, ctxVars, sending, inVars, cur, cancelled, begun,
                   wgVars, arrived>>

\* Mutant: the loop goes on after the EndFrame and nothing is cancelled.
LoopContinuesAfterEnd(g) ==
    /\ loop[g] = "busy"
    /\ Kind[inFlight[g]] = "end"
    /\ loop' = [loop EXCEPT ![g] = "top"]
    /\ inFlight' = [inFlight EXCEPT ![g] = NoFrame]
    /\ UNCHANGED <<queues, ctxVars, sending, inVars, cur, cancelled, begun,
                   wgVars, arrived>>

\* After the EndFrame handler the base cancels the whole processor.
LoopReturnEnd(g) ==
    /\ loop[g] = "busy"
    /\ Kind[inFlight[g]] = "end"
    /\ cancelling' = TRUE
    /\ ctxDone' = TRUE
    /\ loop' = [loop EXCEPT ![g] = "exited"]
    /\ inFlight' = [inFlight EXCEPT ![g] = NoFrame]
    /\ WakeWaiters(g)
    /\ UNCHANGED <<started, queues, sending, inVars, cur, cancelled, begun,
                   panicked, timedOut, arrived>>

----------------------------------------------------------------------------
(* The goroutine interrupt i spawns: procWG.Wait(), close(done).           *)

WaiterWait(i) ==
    /\ waiter[i] = "spawned"
    /\ waiter' = [waiter EXCEPT ![i] =
                    IF \E g \in Loop : Live(g) THEN "waiting" ELSE "returned"]
    /\ UNCHANGED <<queues, ctxVars, sending, inVars, cur, cancelled, loopVars,
                   panicked, timedOut, arrived>>

\* sync.WaitGroup.Wait re-reads its state when woken and panics if it was
\* reused, that is, if the counter or the number of waiters is not zero.
WaiterReturn(i) ==
    /\ waiter[i] = "woken"
    /\ waiter' = [waiter EXCEPT ![i] = "returned"]
    /\ panicked' = \/ \E g \in Loop : Live(g)
                   \/ \E j \in Interrupt : waiter[j] = "waiting"
    /\ UNCHANGED <<queues, ctxVars, sending, inVars, cur, cancelled, loopVars,
                   timedOut, arrived>>

----------------------------------------------------------------------------
InputLoop ==
    \/ InputExit \/ TakeSystem \/ PriorityDefault \/ TakeData \/ Forward
    \/ WaitDone \/ WaitTimeout \/ DrainOne \/ StartProcessLoop
    \/ PushBack \/ PushBackDone \/ HandleSystem

ProcessLoop(g) ==
    LoopTop(g) \/ LoopTake(g) \/ LoopExit(g) \/ LoopReturn(g)
      \/ LoopReturnEnd(g)

Next ==
    /\ ~panicked
    /\ \/ Start \/ Stop \/ TaskCancel
       \/ \E s \in Sender, f \in Frame : QueueFrame(s, f)
       \/ \E s \in Sender : Deliver(s) \/ GiveUp(s)
       \/ InputLoop
       \/ \E g \in Loop : ProcessLoop(g)
       \/ \E i \in Interrupt : WaiterWait(i) \/ WaiterReturn(i)

Spec == Init /\ [][Next]_vars

\* Goroutines that can run do run, a blocked sender whose channel has room
\* delivers, and handlers return.  Nothing makes a neighbour send, the task
\* call Stop, or Start be called.
FairSpec ==
    /\ Spec
    /\ WF_vars(~panicked /\ InputLoop)
    /\ \A g \in Loop : WF_vars(~panicked /\ ProcessLoop(g))
    /\ \A i \in Interrupt :
          WF_vars(~panicked /\ (WaiterWait(i) \/ WaiterReturn(i)))
    /\ \A s \in Sender : WF_vars(~panicked /\ (Deliver(s) \/ GiveUp(s)))

----------------------------------------------------------------------------
(* Properties.                                                             *)

\* A data frame that must survive interrupts (EndFrame, FunctionCall*) and was
\* accepted by QueueFrame is still held or has reached ProcessFrame, whatever
\* interrupts intervened; only the processor's own cancellation drops it.
Held == Elems(dataCh) \cup Elems(procCh) \cup Elems(keep) \cup {hand}

NonInterruptibleSurvives ==
    ctxDone \/ \A f \in Elems(arrived) :
                  ~IsInterruptible(f) => f \in Held \cup Elems(begun)

\* As long as procLoopExitTimeout has not fired, ProcessFrame is never run by
\* two processLoops of one processor at a time, and the WaitGroup reuse panic
\* cannot happen: the cancel-and-recreate protocol serialises handlers.
SerialHandlers ==
    ~timedOut =>   /\ \A g, h \in Loop : Live(g) /\ Live(h) => g = h
                   /\ ~panicked

\* When the InterruptFrame handler is about to run, procCh holds no frame the
\* interrupt should have purged, and a loop that outlived the interrupt is one
\* whose handler ignored the cancellation.
InterruptPurges ==
    inPC \in {"pushback", "handle"} /\ hand \in Interrupt =>
        /\ \A f \in Elems(procCh) \cup Elems(keep) : ~IsInterruptible(f)
        /\ ~timedOut => \A g \in Loop : loop[g] = "busy" =>
                                          ~IsInterruptible(inFlight[g])

\* Data frames reach ProcessFrame in the order they entered inputDataCh, each at
\* most once, across any number of purges and push-backs.
Position(f) == CHOOSE n \in DOMAIN arrived : arrived[n] = f
FIFO ==
    \A i, j \in DOMAIN begun :
        i < j /\ ~IsSystem(begun[i]) /\ ~IsSystem(begun[j])
          => Position(begun[i]) < Position(begun[j])

\* Data frames as their senders see them.  An interrupt reaches what is in procCh
\* or was kept from it: kept frames are ahead of procCh while it is drained and
\* behind it while they are pushed back.  A frame inputLoop holds is out of reach.
DataFrames(s) == {f \in Elems(s) : ~IsSystem(f)}
Reached == IF inPC = "pushback" THEN procCh \o keep ELSE keep \o procCh
Unreached == IF inPC = "forward" THEN <<hand>> \o dataCh ELSE dataCh

Box == INSTANCE Mailbox WITH
    Message <- {f \in Frame : ~IsSystem(f)},
    Durable <- {f \in Frame : ~IsSystem(f) /\ ~IsInterruptible(f)},
    accepted <- Elems(arrived), waiting <- Unreached, admitted <- Reached,
    handled <- DataFrames(begun), interrupted <- hand \in Interrupt,
    closed <- ctxDone

\* For the senders of data frames a processor is a mailbox: frames are handled
\* in order and once, an interrupt takes the interruptible frames in its reach
\* and no others, and only the end of the processor loses anything else,
\* however purge, push-back, bounded wait and processLoops interleave.
ImplementsMailbox == Box!Spec

\* The push-back of kept frames never blocks: they all came out of procCh.
PushBackFits == inPC = "pushback" => Len(procCh) + Len(keep) <= ProcCap

\* No data frame's handler starts after the EndFrame's, unless an interrupt
\* gave up waiting for the EndFrame's handler.
EndIsLast ==
    ~timedOut => \A i, j \in DOMAIN begun :
                    i < j /\ Kind[begun[i]] = "end" => IsSystem(begun[j])

\* An accepted EndFrame makes every goroutine of the processor exit, unless
\* the process dies of a WaitGroup panic.
Exited == inPC = "exited" /\ \A g \in Loop : ~Live(g)
EndTerminates ==
    (started /\ \E f \in Elems(arrived) : Kind[f] = "end") ~> Exited \/ panicked

\* An InterruptFrame accepted by a running processor is handled (again unless
\* the process dies first).
InterruptHandled ==
    \A i \in Interrupt :
        started /\ i \in Elems(sysCh)
          ~> i \in Elems(begun) \/ ctxDone \/ panicked
=============================================================================
