-------------------------- MODULE CallEdgesProofs ---------------------------
(***************************************************************************)
(* Proofs, for any number of join attempts, idle prompts and dials, of the *)
(* safety of the parts of a call around the bot: the room and the clocks.  *)
(***************************************************************************)
EXTENDS CallEdges, TLAPS

USE RoomAssumption, TimerAssumption

----------------------------------------------------------------------------
(* The room.                                                               *)

\* An attempt starts without a connection and ends without one, unless it is
\* the one that is used.
RoomInv ==
    /\ stray = 0
    /\ join \in {"start", "backoff", "failed", "left"} => conn = "none"

\* Whatever a step of the call does to the room is a step of the room.
LEMMA RoomSteps ==
    ASSUME [EdgesNext]_edgeVars
    PROVE  \/ JoinStep \/ RoomEvent \/ markUserJoined \/ BridgeLeaves
           \/ UserLeaves \/ Disconnect
           \/ UNCHANGED <<join, conn, stray>>
<1>1. CASE JoinRoom \/ RoomChanges \/ UserSeen \/ BridgeGone
  BY <1>1 DEF JoinRoom, RoomChanges, UserSeen, BridgeGone, Room
<1>2. CASE UserHangsUp
  BY <1>2 DEF UserHangsUp
<1>3. CASE Cleanup
  BY <1>3 DEF Cleanup, Room
<1>4. CASE Greeting
  BY <1>4 DEF Greeting
<1>5. CASE UNCHANGED roomVars
  BY <1>5 DEF roomVars
<1>6. \/ JoinRoom \/ RoomChanges \/ UserSeen \/ BridgeGone \/ UserHangsUp
      \/ Cleanup \/ Greeting \/ UNCHANGED roomVars
  BY DEF EdgesNext, edgeVars, BuildFails, StartPipeline, PushPCM, SttStep, Stt,
         UserSpeaks, SttExhausted, BotStep, BotStarts, BotStops, BotSilent,
         EndCallTool, IdlePrompt, IdleGoroutine, InactivityEnds, TalkTimeEnds,
         Clock, EndStep, EndAtEdges, EndAtSink, TaskOver, Rest
<1> QED
  BY <1>1, <1>2, <1>3, <1>4, <1>5, <1>6

\* Every way an attempt can fail closes the connection it made.
LEMMA RoomNext == RoomInv /\ [EdgesNext]_edgeVars => RoomInv'
<1> SUFFICES ASSUME RoomInv, [EdgesNext]_edgeVars PROVE RoomInv'
  OBVIOUS
<1> USE DEF RoomInv
<1>1. CASE JoinStep
  <2>1. CASE Retry
    BY <2>1 DEF Retry
  <2>2. CASE startDailyRoomAttempt \/ ConnectToRoom
    BY <2>2 DEF startDailyRoomAttempt, ConnectToRoom, AttemptFails
  <2>3. CASE JoinReturns \/ JoinFails \/ PublishTrack
    BY <2>3 DEF JoinReturns, JoinFails, PublishTrack, Joined
  <2>4. CASE DailyDisconnected \/ PublishFails
    BY <2>4 DEF DailyDisconnected, PublishFails, AttemptFails
  <2> QED
    BY <1>1, <2>1, <2>2, <2>3, <2>4 DEF JoinStep
<1>2. CASE RoomEvent \/ BridgeLeaves
  BY <1>2 DEF RoomEvent, BridgeJoined, BridgeError, BridgeExits, UserArrives,
              BridgeLeaves
<1>3. CASE markUserJoined \/ UserLeaves
  BY <1>3 DEF markUserJoined, UserLeaves
<1>4. CASE Disconnect
  BY <1>4 DEF Disconnect
<1>5. CASE UNCHANGED <<join, conn, stray>>
  BY <1>5
<1> QED
  BY <1>1, <1>2, <1>3, <1>4, <1>5, RoomSteps

\* The bot is in its room at most once, and a call that could not join or has
\* left leaves no bridge process or SDK connection behind, for any number of
\* attempts of JoinDailyRoom and JoinLiveKitRoom.
THEOREM SingleConnection == EdgesSpec => []OneConnection
<1>1. EdgesInit => RoomInv
  BY DEF EdgesInit, RoomInit, RoomInv
<1>2. RoomInv => OneConnection
  BY DEF RoomInv, OneConnection
<1> QED
  BY <1>1, <1>2, RoomNext, PTL DEF EdgesSpec

----------------------------------------------------------------------------
(* The idle prompts.                                                       *)

\* Every prompt that was counted followed an expired wait, except one whose
\* timer had expired when the user spoke.
PromptInv ==
    /\ idlePromptCount \in Nat
    /\ waits \in 0..(maxIdlePrompts - 1)
    /\ prompt = "fired" => waits >= idlePromptCount \/ waits = maxIdlePrompts - 1
    /\ waits + 1 >= idlePromptCount \/ waits = maxIdlePrompts - 1

promptVars == <<prompt, idlePromptCount, waits>>

\* Only the idle timer's goroutine and a transcript touch the count.
LEMMA PromptSteps ==
    ASSUME [EdgesNext]_edgeVars
    PROVE  IdleTimerFires \/ CountPrompt \/ SpeakPrompt \/ TranscriptFrame
             \/ UNCHANGED promptVars
<1> USE DEF promptVars
<1>1. CASE IdlePrompt \/ IdleGoroutine
  BY <1>1 DEF IdlePrompt, IdleGoroutine, Clock, WatchdogReset
<1>2. CASE UserSpeaks
  BY <1>2 DEF UserSpeaks
<1>3. CASE InactivityEnds \/ TalkTimeEnds
  BY <1>3 DEF InactivityEnds, TalkTimeEnds, Clock, WatchdogFires,
              TalkTimeExceeded, idleVars
<1>4. CASE BotStep
  BY <1>4 DEF BotStep, BotStarts, BotStops, BotSilent, BotFrame, BotBusyFrame,
              BotFreeFrame, timerVars, idleVars
<1>5. CASE EndStep
  BY <1>5 DEF EndStep, EndAtEdges, TimersEndFrame, EndAtSink, Cleanup, Room,
              TaskOver, timerVars, idleVars
<1>6. CASE JoinRoom \/ RoomChanges \/ UserSeen \/ BridgeGone
  BY <1>6 DEF JoinRoom, RoomChanges, UserSeen, BridgeGone, Room, timerVars,
              idleVars
<1>7. CASE \/ BuildFails \/ StartPipeline \/ Greeting \/ PushPCM \/ SttStep
           \/ SttExhausted \/ UserHangsUp \/ EndCallTool \/ Rest
           \/ UNCHANGED edgeVars
  BY <1>7 DEF BuildFails, StartPipeline, Greeting, PushPCM, SttStep, Stt,
     SttExhausted, UserHangsUp, EndCallTool, Rest, edgeVars, timerVars, idleVars
<1> QED
  BY <1>1, <1>2, <1>3, <1>4, <1>5, <1>6, <1>7 DEF EdgesNext

\* Every expired wait is counted before the prompt it leads to.
LEMMA PromptNext == PromptInv /\ [EdgesNext]_edgeVars => PromptInv'
<1> SUFFICES ASSUME PromptInv, [EdgesNext]_edgeVars PROVE PromptInv'
  OBVIOUS
<1> USE DEF PromptInv
<1>1. CASE IdleTimerFires
  BY <1>1 DEF IdleTimerFires
<1>2. CASE CountPrompt
  <2>1. prompt' # "fired"
    BY <1>2 DEF CountPrompt
  <2> QED
    BY <1>2, <2>1 DEF CountPrompt
<1>3. CASE SpeakPrompt
  BY <1>3 DEF SpeakPrompt
<1>4. CASE TranscriptFrame
  BY <1>4 DEF TranscriptFrame
<1>5. CASE UNCHANGED promptVars
  BY <1>5 DEF promptVars
<1> QED
  BY <1>1, <1>2, <1>3, <1>4, <1>5, PromptSteps

\* The final prompt, which ends the call, is reached only after all the waits
\* but one passed without a word of the user, however the timer's goroutine
\* races ProcessFrame (user_idle_processor.go).
THEOREM SilenceBeforeEnd == EdgesSpec => PromptsNeedSilence
<1>1. EdgesInit => PromptInv
  BY DEF EdgesInit, TimerInit, PromptInv
<1>2. PromptInv /\ [EdgesNext]_edgeVars =>
          [prompt' = "final" /\ prompt # "final" =>
               waits >= maxIdlePrompts - 1]_<<prompt, waits>>
  <2> SUFFICES ASSUME PromptInv, [EdgesNext]_edgeVars,
                      prompt' = "final", prompt # "final"
               PROVE  waits >= maxIdlePrompts - 1
    OBVIOUS
  <2>1. CountPrompt
    BY PromptSteps DEF IdleTimerFires, SpeakPrompt, TranscriptFrame, promptVars
  <2>2. prompt = "fired" /\ idlePromptCount + 1 = maxIdlePrompts
    BY <2>1 DEF CountPrompt
  <2> QED
    BY <2>2 DEF PromptInv
<1> QED
  BY <1>1, <1>2, PromptNext, PTL DEF EdgesSpec, PromptsNeedSilence
=============================================================================
