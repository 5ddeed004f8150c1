----------------------------- MODULE CallEdges ------------------------------
(***************************************************************************)
(* One call from the request to join its room to the end of its task: the  *)
(* room, speech to text, the timers, and the path of the EndFrame through  *)
(* them.  The stages between talk time and the sink (LLM, TTS, playback)   *)
(* are the subject of Conversation and TTSProcessor; here they are a bot   *)
(* that is asked, speaks, calls tools, or says nothing.                    *)
(***************************************************************************)
EXTENDS Rooms, SpeechToText, CallTimers

CONSTANTS Calls   \* the kinds of call and the transports they use

ASSUME CallsAssumption ==
    Calls \subseteq {"sales", "followup"} \X {"daily", "livekit"}

VARIABLES
    kind,    \* "sales", or "followup": a call without a talk-time budget
    bot,     \* "quiet", "asked", "busy" (speaking or in a tool), "more" (busy
             \* and asked again)
    endAt    \* where the EndFrame is: "none", a stage, "cleanup" or "over"

edgeVars == <<roomVars, sttVars, timerVars, kind, bot, endAt>>

EdgesInit ==
    /\ RoomInit /\ SttInit /\ TimerInit
    /\ \E c \in Calls : kind = c[1] /\ transport = c[2]
    /\ bot = "quiet" /\ endAt = "none"

Started == reader # "off"
Live == endAt \in {"none", "stt"}   \* it has not reached idle and talk time

\* PipelineTask.End: the first request queues the EndFrame at the source.
EndTask == endAt' = IF endAt = "none" THEN "stt" ELSE endAt

\* Something for the bot to say.
Ask == bot' = IF bot \in {"quiet", "asked"} THEN "asked" ELSE "more"

----------------------------------------------------------------------------
(* Assembly.                                                               *)

Room(action) ==
    /\ action
    /\ UNCHANGED <<sttVars, timerVars, kind, bot, endAt>>

JoinRoom == Room(JoinStep)
RoomChanges == Room(RoomEvent)
UserSeen == Room(markUserJoined)
BridgeGone == Room(BridgeLeaves)

\* The LLM client cannot be built: Abort cancels the task and leaves the room
\* as it is.
BuildFails ==
    /\ join = "joined" /\ ~Started /\ endAt = "none"
    /\ endAt' = "aborted"
    /\ UNCHANGED <<roomVars, sttVars, timerVars, kind, bot>>

StartPipeline ==
    /\ join = "joined" /\ ~Started /\ endAt = "none"
    /\ StartReader
    /\ UNCHANGED <<roomVars, timerVars, kind, bot, endAt>>

----------------------------------------------------------------------------
(* Frames.                                                                 *)

\* The aggregator's LLMMessagesFrame passes talk time and reaches the LLM.
LLMMessagesFrame ==
    /\ IF kind = "sales" THEN armOnFirstSpeech ELSE UNCHANGED talk
    /\ Ask

\* The LLMMessagesAppendFrame that a room queued when the user joined.
Greeting ==
    /\ Started /\ Live /\ ~blocked /\ queued > 0
    /\ queued' = queued - 1
    /\ LLMMessagesFrame
    /\ UNCHANGED <<transport, join, attempt, result, conn, stray, greeted,
                   user, sttVars, idleVars, kind, endAt>>

\* The user's track: PushPCM, and the frame reaches the STT handler.  Frames
\* that come after the EndFrame do not matter.
PushPCM ==
    /\ Started /\ user = "here" /\ conn = "inRoom" /\ endAt = "none"
    /\ AudioFrame
    /\ UNCHANGED <<roomVars, timerVars, kind, bot, endAt>>

Stt(action) ==
    /\ action
    /\ UNCHANGED <<roomVars, timerVars, kind, bot, endAt>>

SttStep == Stt(readerStep \/ ConnectionDrops \/ WriteAudio \/ Stop)

\* A message of transcripts; with the end of a turn the aggregator asks the
\* LLM.
UserSpeaks ==
    /\ user # "away" /\ conn = "inRoom" /\ Live
    /\ ReadMessage
    /\ TranscriptFrame
    /\ LLMMessagesFrame \/ UNCHANGED <<talk, bot>>
    /\ UNCHANGED <<roomVars, kind, endAt>>

SttExhausted ==
    /\ handleConnectExhausted
    /\ IF sttDone THEN UNCHANGED endAt ELSE EndTask
    /\ UNCHANGED <<roomVars, timerVars, kind, bot>>

UserHangsUp ==
    /\ Started
    /\ UserLeaves
    /\ EndTask
    /\ UNCHANGED <<sttVars, timerVars, kind, bot>>

----------------------------------------------------------------------------
(* The bot (external), and what UserIdle sees of it.                       *)

BotFrame(handler) == IF Live THEN handler ELSE UNCHANGED timerVars

BotStarts ==
    /\ bot = "asked" /\ bot' = "busy"
    /\ BotFrame(BotBusyFrame)
    /\ UNCHANGED <<roomVars, sttVars, kind, endAt>>

BotStops ==
    /\ bot \in {"busy", "more"}
    /\ bot' = IF bot = "busy" THEN "quiet" ELSE "asked"
    /\ BotFrame(BotFreeFrame)
    /\ UNCHANGED <<roomVars, sttVars, kind, endAt>>

\* The model or the voice fails: what was asked is never said.
BotSilent ==
    /\ bot = "asked" /\ bot' = "quiet"
    /\ UNCHANGED <<roomVars, sttVars, timerVars, kind, endAt>>

\* The end_call tool of a follow-up call.
EndCallTool ==
    /\ kind = "followup" /\ bot \in {"busy", "more"} /\ endAt = "none"
    /\ EndTask
    /\ UNCHANGED <<roomVars, sttVars, timerVars, kind, bot>>

----------------------------------------------------------------------------
(* Timers.                                                                 *)

Clock(action) == action /\ UNCHANGED <<roomVars, sttVars, kind>>

\* Talk time drops the prompt once its budget is spent.
IdlePrompt ==
    /\ Clock(SpeakPrompt)
    /\ IF Live /\ talk # "ending" THEN Ask ELSE UNCHANGED bot
    /\ IF prompt = "final" THEN EndTask ELSE UNCHANGED endAt

IdleGoroutine ==
    /\ Clock(IdleTimerFires \/ CountPrompt \/ WatchdogReset)
    /\ UNCHANGED <<bot, endAt>>

InactivityEnds ==
    /\ Started
    /\ Clock(WatchdogFires)
    /\ EndTask
    /\ UNCHANGED bot

\* Interrupt, closing prompt, end.
TalkTimeEnds == Clock(TalkTimeExceeded) /\ EndTask /\ Ask

----------------------------------------------------------------------------
(* The EndFrame.                                                           *)

\* STT forwards it and stops; idle and talk time see it next.
EndAtEdges ==
    /\ endAt = "stt" /\ endAt' = "rest"
    /\ SttEndFrame
    /\ TimersEndFrame
    /\ UNCHANGED <<roomVars, kind, bot>>

\* The remaining stages finish what they are at; then the sink.
EndAtSink ==
    /\ endAt = "rest" /\ bot = "quiet" /\ endAt' = "cleanup"
    /\ UNCHANGED <<roomVars, sttVars, timerVars, kind, bot>>

Cleanup ==
    /\ endAt = "cleanup"
    /\ Room(Disconnect)

\* The wait for the goroutines is bounded, so nothing more can hold it.
TaskOver ==
    /\ endAt = "cleanup" /\ join = "left"
    /\ endAt' = "over"
    /\ UNCHANGED <<roomVars, sttVars, timerVars, kind, bot>>

----------------------------------------------------------------------------
(* Fair are the program's goroutines, where they do not wait for anybody;  *)
(* the bot, which finishes or fails; the bridge, which exits or is killed; *)
(* and the timers: an armed one expires, the watchdog's only if activity   *)
(* does not keep restarting it.                                            *)

Ended == endAt \in {"over", "aborted"} \/ join = "failed"

BotStep == BotStarts \/ BotStops \/ BotSilent
EndStep == EndAtEdges \/ EndAtSink \/ Cleanup \/ TaskOver
Rest == (Ended \/ Deaf) /\ UNCHANGED edgeVars

EdgesNext ==
    \/ JoinRoom \/ RoomChanges \/ UserSeen \/ BridgeGone
    \/ BuildFails \/ StartPipeline
    \/ Greeting \/ PushPCM \/ SttStep \/ UserSpeaks \/ SttExhausted
    \/ UserHangsUp \/ BotStep \/ EndCallTool
    \/ IdlePrompt \/ IdleGoroutine \/ InactivityEnds \/ TalkTimeEnds
    \/ EndStep \/ Rest

EdgesSpec == EdgesInit /\ [][EdgesNext]_edgeVars

EdgesFairSpec ==
    /\ EdgesSpec
    /\ WF_edgeVars(JoinRoom \/ BridgeGone \/ StartPipeline \/ BuildFails)
    /\ WF_edgeVars(UserSeen \/ Greeting)
    /\ WF_edgeVars(Stt(readerStep) \/ SttExhausted)
    /\ WF_edgeVars(Stt(WriteAudio)) /\ WF_edgeVars(Stt(Stop))
    /\ WF_edgeVars(BotStep) /\ WF_edgeVars(IdlePrompt \/ IdleGoroutine)
    /\ WF_edgeVars(~resetCh /\ InactivityEnds) /\ WF_edgeVars(TalkTimeEnds)
    /\ WF_edgeVars(EndStep)

----------------------------------------------------------------------------
\* However the user, the room, speech to text and the bot behave, the call
\* ends: by the user, the prompts, the watchdog, the budget or an error.  A
\* follow-up call has no budget, so there a user who never stops talking is
\* the exception; the other one is an STT stage that waits for ever (Deaf,
\* see BrokenEndpointReleases).
CallEnds ==
    \/ <>(Ended \/ Deaf)
    \/ kind = "followup" /\ []<><<UserSpeaks>>_edgeVars

\* Once Stop has begun, the reader returns, wherever it is: in a read, in a
\* dial or between two attempts (stt_processor.go, "Order matters").
ReaderExits == stopping > 0 ~> reader \in {"done", "exhausted"}

\* A call that could not reach speech to text gives its worker slot back
\* (stt_processor.go, the comment on connect).
BrokenEndpointReleases == reader = "exhausted" ~> Ended
=============================================================================
