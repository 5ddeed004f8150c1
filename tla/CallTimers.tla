----------------------------- MODULE CallTimers -----------------------------
(***************************************************************************)
(* The three clocks that end a quiet or a long call: the idle prompts and  *)
(* the inactivity watchdog of UserIdleProcessor, and the budget of         *)
(* TalkTimeMonitoringProcessor.  A timer that is armed may expire at any   *)
(* time, so the goroutine it starts meets the frames in every order.       *)
(***************************************************************************)
EXTENDS Naturals

CONSTANTS maxIdlePrompts   \* 7

ASSUME TimerAssumption == maxIdlePrompts \in Nat \ {0}

VARIABLES
    idleTimer,         \* idleTimer is running
    prompt,            \* where the goroutine of an expired idle timer is
    idlePromptCount,
    watchdog,          \* runCancelWatchdog: its timer is running
    resetCh,           \* cancelResetCh holds a token
    talk,              \* runTimer: "waiting", "running", "ending" or "gone"
    waits              \* idle timers that expired since the last transcript, up
                       \* to the number the property asks for

idleVars == <<idleTimer, prompt, idlePromptCount, watchdog, resetCh, waits>>
timerVars == <<idleVars, talk>>

TimerInit ==
    /\ idleTimer = FALSE /\ prompt = "none" /\ idlePromptCount = 0
    /\ watchdog = TRUE /\ resetCh = FALSE
    /\ talk = "waiting"
    /\ waits = 0

----------------------------------------------------------------------------
(* UserIdleProcessor: its frames.                                          *)

\* A send that does not wait; the watchdog may have returned.
markActivity == resetCh' = watchdog

cancelIdleTimer == idleTimer' = FALSE

startIdleTimer == idleTimer' = (idlePromptCount < maxIdlePrompts)

\* Mutant: the user's words do not restart the count of prompts.
TranscriptKeepsCount ==
    /\ markActivity /\ cancelIdleTimer
    /\ waits' = 0
    /\ UNCHANGED <<prompt, idlePromptCount, watchdog>>

TranscriptFrame ==
    /\ markActivity /\ cancelIdleTimer
    /\ idlePromptCount' = 0
    /\ waits' = 0
    /\ UNCHANGED <<prompt, watchdog>>

\* BotStartedSpeakingFrame and FunctionCallInProgressFrame.
BotBusyFrame ==
    /\ markActivity /\ cancelIdleTimer
    /\ UNCHANGED <<prompt, idlePromptCount, watchdog, waits, talk>>

\* BotStoppedSpeakingFrame and FunctionCallResultFrame.
BotFreeFrame ==
    /\ markActivity /\ startIdleTimer
    /\ UNCHANGED <<prompt, idlePromptCount, watchdog, waits, talk>>

----------------------------------------------------------------------------
(* UserIdleProcessor: its goroutines.                                      *)

\* Stopping a timer that has expired does not stop the goroutine it started.
\* That goroutine runs long before the next timer can expire.
IdleTimerFires ==
    /\ idleTimer /\ prompt = "none"
    /\ idleTimer' = FALSE
    /\ prompt' = "fired"
    /\ waits' = IF waits < maxIdlePrompts - 1 THEN waits + 1 ELSE waits
    /\ UNCHANGED <<idlePromptCount, watchdog, resetCh, talk>>

CountPrompt ==
    /\ prompt = "fired"
    /\ idlePromptCount' = idlePromptCount + 1
    /\ prompt' = CASE idlePromptCount' > maxIdlePrompts -> "none"
                   [] idlePromptCount' = maxIdlePrompts -> "final"
                   [] OTHER -> "speak"
    /\ UNCHANGED <<idleTimer, watchdog, resetCh, waits, talk>>

\* The TTSSpeakFrame; after the final one the goroutine ends the task.
SpeakPrompt ==
    /\ prompt \in {"speak", "final"}
    /\ prompt' = "none"
    /\ UNCHANGED <<idleTimer, idlePromptCount, watchdog, resetCh, waits, talk>>

\* Mutant: the timer is stopped for an activity and not started again.
WatchdogStopped ==
    /\ watchdog /\ resetCh
    /\ resetCh' = FALSE /\ watchdog' = FALSE
    /\ UNCHANGED <<idleTimer, prompt, idlePromptCount, waits, talk>>

\* An activity restarts the timer.
WatchdogReset ==
    /\ watchdog /\ resetCh
    /\ resetCh' = FALSE
    /\ UNCHANGED <<idleTimer, prompt, idlePromptCount, watchdog, waits, talk>>

\* A select: the timer may win against an activity that is already there.
WatchdogFires ==
    /\ watchdog
    /\ watchdog' = FALSE /\ resetCh' = FALSE
    /\ UNCHANGED <<idleTimer, prompt, idlePromptCount, waits, talk>>

----------------------------------------------------------------------------
(* TalkTimeMonitoringProcessor.                                            *)

\* LLMMessagesFrame: startUserOnce.
armOnFirstSpeech == talk' = IF talk = "waiting" THEN "running" ELSE talk

TalkTimeExceeded ==
    /\ talk = "running" /\ talk' = "ending"
    /\ UNCHANGED idleVars

----------------------------------------------------------------------------
\* The EndFrame passes both processors: the idle timer is cancelled, and the
\* base cancels their contexts, which the watchdog and the budget wait for.
TimersEndFrame ==
    /\ cancelIdleTimer
    /\ watchdog' = FALSE /\ resetCh' = FALSE
    /\ talk' = "gone"
    /\ UNCHANGED <<prompt, idlePromptCount, waits>>

----------------------------------------------------------------------------
\* The final prompt, which ends the call, is reached only after all the waits
\* but one passed without a word of the user.  A timer that expired just
\* before the user spoke still counts; the transcript takes the count back to
\* zero.  This is the timer's goroutine racing ProcessFrame in
\* user_idle_processor.go.
PromptsNeedSilence ==
    [][prompt' = "final" /\ prompt # "final" =>
           waits >= maxIdlePrompts - 1]_<<prompt, waits>>
=============================================================================
