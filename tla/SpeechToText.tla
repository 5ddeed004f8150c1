---------------------------- MODULE SpeechToText ----------------------------
(***************************************************************************)
(* STTProcessor (voicepipelinecore/stt_processor.go): the reader goroutine *)
(* that dials, reads and redials the Soniox websocket, the writer, and the *)
(* handler that passes audio on through a bounded channel.  A look at the  *)
(* context is one step with the call that follows or precedes it.          *)
(***************************************************************************)
EXTENDS Naturals

CONSTANTS
    SttAttempts,   \* len(sttConnectRetryDelays) + 1
    AudioCap       \* capacity of audioFrames (100)

ASSUME SttAssumption == SttAttempts \in Nat \ {0} /\ AudioCap \in Nat \ {0}

VARIABLES
    reader,      \* where runReader is
    dials,       \* attempt of the current connect
    ws,          \* websocketConn: "none", "open", or "broken" (closed or lost)
    connected,   \* the channel that lets the writer start is closed
    audio,       \* frames in audioFrames
    blocked,     \* the handler waits for room in audioFrames
    stopping,    \* progress of Stop: 0 not called, 3 returned
    sttDone      \* s.ctx is cancelled

sttVars == <<reader, dials, ws, connected, audio, blocked, stopping, sttDone>>

SttInit ==
    /\ reader = "off" /\ dials = 1 /\ ws = "none" /\ connected = FALSE
    /\ audio = 0 /\ blocked = FALSE /\ stopping = 0 /\ sttDone = FALSE

StartReader ==
    /\ reader' = "dialing"
    /\ UNCHANGED <<dials, ws, connected, audio, blocked, stopping, sttDone>>

\* A step of the reader, which a cancelled context ends.
Continue(next) == reader' = IF sttDone THEN "done" ELSE next

----------------------------------------------------------------------------
(* connect                                                                 *)

DialSucceeds ==
    /\ reader = "dialing"
    /\ ws' = "open" /\ connected' = TRUE
    /\ Continue("reading")
    /\ dials' = 1
    /\ UNCHANGED <<audio, blocked, stopping, sttDone>>

DialFails ==
    /\ reader = "dialing" /\ dials < SttAttempts
    /\ reader' = "backoff"
    /\ UNCHANGED <<dials, ws, connected, audio, blocked, stopping, sttDone>>

RetryDelay ==
    /\ reader = "backoff"
    /\ Continue("dialing")
    /\ dials' = dials + 1
    /\ UNCHANGED <<ws, connected, audio, blocked, stopping, sttDone>>

\* The last attempt fails: a fatal error that ends the task.
handleConnectExhausted ==
    /\ reader = "dialing" /\ dials = SttAttempts
    /\ Continue("exhausted")
    /\ dials' = 1
    /\ UNCHANGED <<ws, connected, audio, blocked, stopping, sttDone>>

----------------------------------------------------------------------------
(* read                                                                    *)

\* A message arrives: its tokens go downstream as transcript frames.
ReadMessage ==
    /\ reader = "reading" /\ ws = "open"
    /\ Continue("reading")
    /\ UNCHANGED <<dials, ws, connected, audio, blocked, stopping, sttDone>>

ReadError ==
    /\ reader = "reading" /\ ws = "broken"
    /\ Continue("dialing")
    /\ UNCHANGED <<dials, ws, connected, audio, blocked, stopping, sttDone>>

ConnectionDrops ==
    /\ reader = "reading" /\ ws = "open" /\ ws' = "broken"
    /\ UNCHANGED <<reader, dials, connected, audio, blocked, stopping, sttDone>>

readerStep == DialSucceeds \/ DialFails \/ RetryDelay \/ ReadError

----------------------------------------------------------------------------
(* Audio                                                                   *)

\* The handler of an AudioFrame: send on audioFrames, or wait.  Once the writer
\* runs, a frame does not stay there.
AudioFrame ==
    /\ ~blocked /\ ~sttDone /\ ~connected
    /\ IF audio < AudioCap THEN audio' = audio + 1 /\ UNCHANGED blocked
       ELSE blocked' = TRUE /\ UNCHANGED audio
    /\ UNCHANGED <<reader, dials, ws, connected, stopping, sttDone>>

\* runWriter takes the frames that waited for the connection, and the handler
\* that waits for room goes on; a failed write only loses the frame.
WriteAudio ==
    /\ connected /\ ~sttDone /\ audio > 0
    /\ audio' = IF blocked THEN audio ELSE audio - 1
    /\ blocked' = FALSE
    /\ UNCHANGED <<reader, dials, ws, connected, stopping, sttDone>>

----------------------------------------------------------------------------
(* Stop                                                                    *)

\* The handler of the EndFrame forwards it, then calls Stop.
SttEndFrame ==
    /\ ~blocked /\ stopping = 0
    /\ stopping' = 1
    /\ UNCHANGED <<reader, dials, ws, connected, audio, blocked, sttDone>>

\* The writer returns: what is left in audioFrames is lost.
cancelCtx == sttDone' = TRUE /\ audio' = 0 /\ UNCHANGED ws
closeConn ==
    /\ ws' = IF ws = "open" THEN "broken" ELSE ws
    /\ UNCHANGED <<audio, sttDone>>

\* Mutant: the websocket is closed before the context is cancelled.
StopClosesFirst ==
    /\ stopping \in {1, 2}
    /\ IF stopping = 1 THEN closeConn ELSE cancelCtx
    /\ stopping' = stopping + 1
    /\ UNCHANGED <<reader, dials, connected, blocked>>

Stop ==
    /\ stopping \in {1, 2}
    /\ IF stopping = 1 THEN cancelCtx ELSE closeConn
    /\ stopping' = stopping + 1
    /\ UNCHANGED <<reader, dials, connected, blocked>>

\* The reader never connected, so nobody takes audio out of the full channel.
Deaf == reader = "exhausted" /\ ~connected /\ blocked /\ ~sttDone
=============================================================================
