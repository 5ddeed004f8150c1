------------------------------ MODULE Playback ------------------------------
(***************************************************************************)
(* PlaybackSinkProcessor's runPlayback goroutine                           *)
(* (voicepipelinecore/playback_sink_processor.go): handleQueueFrame on the *)
(* frames from TTS, and the 20 ms tick that plays one audio frame and      *)
(* reports words, done, started and stopped upstream in time with it.      *)
(* playbackQueue includes the frames that are still in queueCh, so that a  *)
(* tick may end before any frame that runPlayback had not yet moved.       *)
(***************************************************************************)
EXTENDS ConversationLinks

VARIABLES interrupted, playbackStarted, playbackQueue

pbVars == <<interrupted, playbackStarted, playbackQueue>>

PBInit == interrupted = FALSE /\ playbackStarted = FALSE /\ playbackQueue = <<>>

\* AudioFrame, WordTimestampFrame, TTSDoneFrame.
QueueFrames(s) ==
    /\ playbackQueue' = IF interrupted THEN playbackQueue ELSE playbackQueue \o s
    /\ UNCHANGED <<interrupted, playbackStarted>>

\* LLMResponseStartFrame.
ResponseStart ==
    /\ interrupted' = FALSE /\ playbackStarted' = FALSE
    /\ playbackQueue' = <<>>

\* InterruptFrame; no frame queued here survives it.
InterruptPlayback ==
    /\ interrupted' = TRUE
    /\ playbackQueue' = <<>>
    /\ UNCHANGED playbackStarted

\* What playing a frame sends upstream.
Report(f) ==
    CASE f.kind = "words" -> <<f>>
      [] f.kind = "done"  -> <<f, [kind |-> "stopped"]>>
      [] f.kind = "audio" -> IF playbackStarted THEN <<>>
                             ELSE <<[kind |-> "started"]>>

\* One iteration of tick's loop; the push it makes is seen before the next one.
tick ==
    /\ playbackQueue # <<>>
    /\ up' = up \o Report(Head(playbackQueue))
    /\ playbackStarted' = (playbackStarted \/ Head(playbackQueue).kind = "audio")
    /\ playbackQueue' = Tail(playbackQueue)
    /\ UNCHANGED <<interrupted, llmIn, sent, llmSys, ttsIn, ttsSys, requests, overtaken>>
=============================================================================
