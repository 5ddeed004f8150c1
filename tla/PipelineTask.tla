---------------------------- MODULE PipelineTask ----------------------------
(***************************************************************************)
(* The life of one call's PipelineTask: assembly by the bot, concurrent    *)
(* requests to end the call, the EndFrame's way down the processor chain   *)
(* (source = 0, ..., sink = N), and the cleanup that the sink triggers     *)
(* (voicepipelinecore/pipeline.go, pipeline_edges.go).  Composed with the  *)
(* call-event dispatcher of CallEvents, which cleanup closes and drains.   *)
(*                                                                         *)
(* A processor in Stuck has a handler that does not return when its        *)
(* context is cancelled.                                                   *)
(***************************************************************************)
EXTENDS CallEvents

CONSTANTS
    N,            \* index of the sink
    Caller,       \* goroutines that call PipelineTask.End, once each
    RoomCaller,   \* those that are room-transport callbacks
    ReasonOf,     \* ReasonOf[c]: the reason c passes to End
    Stuck,
    NoReason

Processor == 0..N

ASSUME TaskAssumption ==
    /\ N \in Nat \ {0}
    /\ RoomCaller \subseteq Caller
    /\ \A c \in Caller : ReasonOf[c] # NoReason
    /\ Stuck \subseteq Processor
    /\ Producer \subseteq Processor

VARIABLES
    build,          \* progress of BuildTask and Start
    room,           \* the bot is connected to the room
    crashed,        \* End dereferenced a nil Source
    endRequested, cleanupStarted, endReason,
    taskDone,       \* TaskCtx.Ctx is cancelled
    callPC,         \* where each caller is inside End
    frames,         \* PipelineSourceProcessor.frames
    inbox,          \* inbox[k]: reason of the EndFrame queued at processor k
    up,             \* processors whose ctx is not done
    live,           \* processors with goroutines that have not exited
    cleanup,        \* progress of runCleanup
    endFrame,       \* reason of the EndFrame that reached the sink
    endedWith,      \* history: reasons passed to OnCallEnded
    cleanedUp       \* history: OnCleanup has run

endVars   == <<endRequested, cleanupStarted, endReason, callPC>>
chainVars == <<frames, inbox, up, live>>
cleanVars == <<cleanup, endFrame, endedWith, cleanedUp>>
taskVars  == <<build, room, crashed, taskDone, endVars, chainVars, cleanVars>>
vars      == <<taskVars, evVars>>

Reasons == {ReasonOf[c] : c \in Caller}

CleanupState == {"none", "begin", "stop", "disconnect", "drain", "waitDrain",
                 "wait", "ended", "cancel", "onCleanup", "done"}

TypeOK ==
    /\ EvTypeOK
    /\ build \in {"assembling", "wired", "started", "aborting", "aborted"}
    /\ room \in BOOLEAN /\ crashed \in BOOLEAN /\ taskDone \in BOOLEAN
    /\ endRequested \in BOOLEAN /\ cleanupStarted \in BOOLEAN
    /\ endReason \in Reasons \cup {NoReason}
    /\ callPC \in [Caller -> {"idle", "claim", "recheck", "queue", "returned"}]
    /\ frames \in Seq(Reasons)
    /\ inbox \in [Processor -> Reasons \cup {NoReason}]
    /\ up \subseteq Processor /\ live \subseteq Processor
    /\ cleanup \in CleanupState
    /\ endFrame \in Reasons \cup {NoReason}
    /\ endedWith \in Seq(Reasons)
    /\ cleanedUp \in BOOLEAN

Init ==
    /\ EvInit
    /\ build = "assembling" /\ room = TRUE
    /\ crashed = FALSE /\ taskDone = FALSE
    /\ endRequested = FALSE /\ cleanupStarted = FALSE /\ endReason = NoReason
    /\ callPC = [c \in Caller |-> "idle"]
    /\ frames = <<>>
    /\ inbox = [k \in Processor |-> NoReason]
    /\ up = Processor /\ live = {}
    /\ cleanup = "none" /\ endFrame = NoReason
    /\ endedWith = <<>> /\ cleanedUp = FALSE

----------------------------------------------------------------------------
(* BuildTask has joined the room and goes on to build the processors.      *)

SetPipeline ==
    /\ build = "assembling"
    /\ build' = "wired"
    /\ UNCHANGED <<room, crashed, taskDone, endVars, chainVars, cleanVars,
                   evVars>>

StartTask ==
    /\ build = "wired"
    /\ build' = "started"
    /\ live' = Processor
    /\ UNCHANGED <<room, crashed, taskDone, endVars, frames, inbox, up,
                   cleanVars, evVars>>

\* Building the LLM client failed after the join: Abort closes and drains the
\* dispatcher, then cancels the task context.
Abort ==
    /\ build = "assembling"
    /\ build' = "aborting"
    /\ StopQueue
    /\ UNCHANGED <<room, crashed, taskDone, endVars, chainVars, cleanVars>>

AbortCancel ==
    /\ build = "aborting"
    /\ evDone
    /\ build' = "aborted"
    /\ taskDone' = TRUE
    /\ UNCHANGED <<room, crashed, endVars, chainVars, cleanVars, evVars>>

----------------------------------------------------------------------------
(* PipelineTask.End, called concurrently.                                  *)

\* Room callbacks run as soon as the bot has joined, processors once started.
MayCall(c) == IF c \in RoomCaller THEN room ELSE live # {}

EndIgnored == cleanupStarted \/ taskDone

\* Mutant: the reason is never stored.
EndReasonLost(r) == UNCHANGED endReason

setEndReason(r) == endReason' = IF endReason = NoReason THEN r ELSE endReason

\* Mutant: the reason is stored before the request is claimed.
EndCheckStoresReason(c) ==
    /\ callPC[c] = "idle"
    /\ MayCall(c)
    /\ callPC' = [callPC EXCEPT ![c] = IF EndIgnored THEN "returned"
                                       ELSE "claim"]
    /\ IF EndIgnored THEN UNCHANGED endReason ELSE setEndReason(ReasonOf[c])
    /\ UNCHANGED <<build, room, crashed, taskDone, endRequested, cleanupStarted,
                   chainVars, cleanVars, evVars>>

EndCheck(c) ==
    /\ callPC[c] = "idle"
    /\ MayCall(c)
    /\ callPC' = [callPC EXCEPT ![c] = IF EndIgnored THEN "returned"
                                       ELSE "claim"]
    /\ UNCHANGED <<build, room, crashed, taskDone, endRequested, cleanupStarted,
                   endReason, chainVars, cleanVars, evVars>>

EndClaim(c) ==
    /\ callPC[c] = "claim"
    /\ IF endRequested
       THEN /\ callPC' = [callPC EXCEPT ![c] = "returned"]
            /\ UNCHANGED endRequested
       ELSE /\ callPC' = [callPC EXCEPT ![c] = "recheck"]
            /\ endRequested' = TRUE
    /\ UNCHANGED <<build, room, crashed, taskDone, cleanupStarted, endReason,
                   chainVars, cleanVars, evVars>>

EndRecheck(c) ==
    /\ callPC[c] = "recheck"
    /\ IF EndIgnored
       THEN /\ callPC' = [callPC EXCEPT ![c] = "returned"]
            /\ UNCHANGED endReason
       ELSE /\ callPC' = [callPC EXCEPT ![c] = "queue"]
            /\ setEndReason(ReasonOf[c])
    /\ UNCHANGED <<build, room, crashed, taskDone, endRequested, cleanupStarted,
                   chainVars, cleanVars, evVars>>

\* t.Source.Queue(NewEndFrame(reason)); t.Source is nil until SetPipeline.
EndQueue(c) ==
    /\ callPC[c] = "queue"
    /\ callPC' = [callPC EXCEPT ![c] = "returned"]
    /\ IF build \in {"assembling", "aborting", "aborted"}
       THEN crashed' = TRUE /\ UNCHANGED frames
       ELSE frames' = Append(frames, ReasonOf[c]) /\ UNCHANGED crashed
    /\ UNCHANGED <<build, room, taskDone, endRequested, cleanupStarted,
                   endReason, inbox, up, live, cleanVars, evVars>>

----------------------------------------------------------------------------
(* The EndFrame in the chain.                                              *)

\* QueueFrame at processor k drops the frame once k is cancelling.
Deliver(k, r) == IF k \in up THEN [inbox EXCEPT ![k] = r] ELSE inbox

\* drainExternalFrames pushes the EndFrame and cancels the source.
SourceDrain ==
    /\ 0 \in live /\ 0 \in up
    /\ frames # <<>>
    /\ frames' = Tail(frames)
    /\ inbox' = Deliver(1, Head(frames))
    /\ up' = up \ {0}
    /\ UNCHANGED <<build, room, crashed, taskDone, endVars, live, cleanVars,
                   evVars>>

\* Processor k handles the EndFrame, forwards it, and is cancelled by its base.
ForwardEnd(k) ==
    /\ k \in 1..(N - 1)
    /\ k \in live /\ k \in up
    /\ inbox[k] # NoReason
    /\ inbox' = [Deliver(k + 1, inbox[k]) EXCEPT ![k] = NoReason]
    /\ up' = up \ {k}
    /\ UNCHANGED <<build, room, crashed, taskDone, endVars, frames, live,
                   cleanVars, evVars>>

\* The sink calls CompleteEnd, which starts runCleanup on a new goroutine once.
SinkEnd ==
    /\ N \in live /\ N \in up
    /\ inbox[N] # NoReason
    /\ inbox' = [inbox EXCEPT ![N] = NoReason]
    /\ IF cleanup = "none"
       THEN cleanup' = "begin" /\ endFrame' = inbox[N]
       ELSE UNCHANGED <<cleanup, endFrame>>
    /\ up' = up \ {N}
    /\ UNCHANGED <<build, room, crashed, taskDone, endVars, frames, live,
                   endedWith, cleanedUp, evVars>>

\* Every goroutine of a processor whose ctx is done exits, unless stuck.
ProcessorExits(k) ==
    /\ k \in live \ Stuck
    /\ k \notin up \/ taskDone
    /\ live' = live \ {k}
    /\ UNCHANGED <<build, room, crashed, taskDone, endVars, frames, inbox, up,
                   cleanVars, evVars>>

----------------------------------------------------------------------------
(* runCleanup, on its own goroutine.                                       *)

CleanupBegin ==
    /\ cleanup = "begin"
    /\ endRequested' = TRUE
    /\ cleanupStarted' = TRUE
    /\ setEndReason(endFrame)
    /\ cleanup' = "stop"
    /\ UNCHANGED <<build, room, crashed, taskDone, callPC, chainVars,
                   endFrame, endedWith, cleanedUp, evVars>>

PipelineStop ==
    /\ cleanup = "stop"
    /\ up' = {}
    /\ cleanup' = "disconnect"
    /\ UNCHANGED <<build, room, crashed, taskDone, endVars, frames, inbox,
                   live, endFrame, endedWith, cleanedUp, evVars>>

Disconnect ==
    /\ cleanup = "disconnect"
    /\ room' = FALSE
    /\ cleanup' = "drain"
    /\ UNCHANGED <<build, crashed, taskDone, endVars, chainVars, endFrame,
                   endedWith, cleanedUp, evVars>>

CleanupStopQueue ==
    /\ cleanup = "drain"
    /\ StopQueue
    /\ cleanup' = "waitDrain"
    /\ UNCHANGED <<build, room, crashed, taskDone, endVars, chainVars, endFrame,
                   endedWith, cleanedUp>>

\* Mutant: cleanup does not wait for the dispatcher.
CleanupNotDrained ==
    /\ cleanup = "waitDrain"
    /\ cleanup' = "wait"
    /\ UNCHANGED <<build, room, crashed, taskDone, endVars, chainVars, endFrame,
                   endedWith, cleanedUp, evVars>>

CleanupDrained ==
    /\ cleanup = "waitDrain"
    /\ evDone
    /\ cleanup' = "wait"
    /\ UNCHANGED <<build, room, crashed, taskDone, endVars, chainVars, endFrame,
                   endedWith, cleanedUp, evVars>>

\* t.wg.Wait(), or the 10 second bound when only stuck processors are left.
CleanupWaited ==
    /\ cleanup = "wait"
    /\ live \subseteq Stuck
    /\ cleanup' = "ended"
    /\ UNCHANGED <<build, room, crashed, taskDone, endVars, chainVars, endFrame,
                   endedWith, cleanedUp, evVars>>

CallEnded ==
    /\ cleanup = "ended"
    /\ endedWith' = Append(endedWith, endReason)
    /\ cleanup' = "cancel"
    /\ UNCHANGED <<build, room, crashed, taskDone, endVars, chainVars, endFrame,
                   cleanedUp, evVars>>

CleanupCancel ==
    /\ cleanup = "cancel"
    /\ taskDone' = TRUE
    /\ cleanup' = "onCleanup"
    /\ UNCHANGED <<build, room, crashed, endVars, chainVars, endFrame,
                   endedWith, cleanedUp, evVars>>

OnCleanup ==
    /\ cleanup = "onCleanup"
    /\ cleanedUp' = TRUE
    /\ cleanup' = "done"
    /\ UNCHANGED <<build, room, crashed, taskDone, endVars, chainVars, endFrame,
                   endedWith, evVars>>

runCleanup ==
    \/ CleanupBegin \/ PipelineStop \/ Disconnect \/ CleanupStopQueue
    \/ CleanupDrained \/ CleanupWaited \/ CallEnded \/ CleanupCancel
    \/ OnCleanup

----------------------------------------------------------------------------
(* The dispatcher, and processors firing events while their goroutines run.*)

FireEvent(p, e) == p \in live /\ Fire(p, e) /\ UNCHANGED taskVars

SendEvent(p) == Dispatch(p) /\ UNCHANGED taskVars

DispatcherRuns == DispatcherStep /\ UNCHANGED taskVars

Assemble == SetPipeline \/ StartTask \/ AbortCancel

End(c) == EndCheck(c) \/ EndClaim(c) \/ EndRecheck(c) \/ EndQueue(c)

ChainStep ==
    \/ SourceDrain \/ SinkEnd
    \/ \E k \in Processor : ForwardEnd(k) \/ ProcessorExits(k)

Next ==
    /\ ~crashed
    /\ \/ Assemble \/ Abort
       \/ \E c \in Caller : End(c)
       \/ ChainStep
       \/ runCleanup
       \/ \E p \in Producer : SendEvent(p) \/ \E e \in Event : FireEvent(p, e)
       \/ DispatcherRuns

Spec == Init /\ [][Next]_vars

----------------------------------------------------------------------------
(* Properties.                                                             *)

\* OnCallEnded is the last callback of the call: every accepted call event has
\* run to completion before it, and none runs afterwards.
CallEndedIsLast ==
    endedWith # <<>> => evDone /\ running = NoEvent /\ ran = accepted

\* A participant leaving while the bot is still assembling the pipeline must
\* not crash the process: End queues the EndFrame at an existing source.
NoNilSource == ~crashed
=============================================================================
