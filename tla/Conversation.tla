---------------------------- MODULE Conversation ----------------------------
(***************************************************************************)
(* A conversation: ContextAggregator, LLMProcessor and Playback around a   *)
(* TTS stage that is reduced to what TTSProcessor promises its neighbours: *)
(* the text of the current context becomes audio and words, in order, and  *)
(* a closed context ends with a TTSDone.  Frames reach Playback when they  *)
(* are pushed; the EndFrame is the subject of TTSProcessor and             *)
(* PipelineTask and does not occur.                                        *)
(***************************************************************************)
EXTENDS ContextAggregator, LLMProcessor, Playback

VARIABLES
    ttsCtx,     \* the run the current context belongs to, or 0
    ttsText,    \* runs whose text Cartesia has not spoken yet
    ttsOwed,    \* cartesiaTextSent
    ttsClosed   \* ResetTTSContext was sent for this context

ttsVars == <<ttsCtx, ttsText, ttsOwed, ttsClosed>>
vars    == <<links, caVars, llmVars, pbVars, ttsVars>>

TTSInit == ttsCtx = 0 /\ ttsText = {} /\ ttsOwed = FALSE /\ ttsClosed = FALSE

Init == LinksInit /\ CAInit /\ LLMInit /\ PBInit /\ TTSInit

----------------------------------------------------------------------------
(* The TTS stage.                                                          *)

clearTTSState(ctx) ==
    /\ ttsCtx' = ctx /\ ttsText' = {}
    /\ ttsOwed' = FALSE /\ ttsClosed' = FALSE

TakeTTS(kind) ==
    /\ ttsIn # <<>> /\ Head(ttsIn).kind = kind
    /\ ttsIn' = Tail(ttsIn)
    /\ UNCHANGED <<caVars, llmVars, llmIn, sent, llmSys, ttsSys, up, requests>>

\* A frame arrives before the interrupt that was sent before it, or in the
\* context of a later run than its own.
NoteStale ==
    overtaken' = \/ overtaken
                 \/ Head(ttsIn).late /\ ttsSys > 0
                 \/ Head(ttsIn).run < ttsCtx

SpeakStart ==
    /\ TakeTTS("start") /\ NoteStale
    /\ clearTTSState(Head(ttsIn).run)
    /\ ResponseStart

\* Text for no context, or for a closed one, is lost at Cartesia.
SpeakText ==
    /\ TakeTTS("text") /\ NoteStale
    /\ ttsText' = IF ttsCtx # 0 /\ ~ttsClosed THEN ttsText \cup {Head(ttsIn).run}
                  ELSE ttsText
    /\ ttsOwed' = TRUE
    /\ UNCHANGED <<ttsCtx, ttsClosed, pbVars>>

\* An empty turn is closed at once, any other when Cartesia is done.
SpeakEnd ==
    /\ TakeTTS("rend") /\ NoteStale
    /\ IF ttsOwed
       THEN /\ ttsClosed' = (ttsCtx # 0)
            /\ ttsOwed' = (ttsCtx # 0)
            /\ UNCHANGED pbVars
       ELSE /\ QueueFrames(<<[kind |-> "done", run |-> ttsCtx]>>)
            /\ UNCHANGED <<ttsClosed, ttsOwed>>
    /\ UNCHANGED <<ttsCtx, ttsText>>

SpeakInterrupt ==
    /\ TakeTTS("interrupt")
    /\ clearTTSState(0)
    /\ UNCHANGED <<pbVars, overtaken>>

\* Audio, and the words that were timed to it.
SpeakAudio ==
    /\ \E r \in ttsText :
          /\ ttsText' = ttsText \ {r}
          /\ QueueFrames(<<[kind |-> "audio"], [kind |-> "words", run |-> r]>>)
    /\ UNCHANGED <<ttsCtx, ttsOwed, ttsClosed, caVars, llmVars, links>>

SpeakDone ==
    /\ ttsClosed /\ ttsOwed /\ ttsText = {}
    /\ ttsOwed' = FALSE
    /\ QueueFrames(<<[kind |-> "done", run |-> ttsCtx]>>)
    /\ UNCHANGED <<ttsCtx, ttsText, ttsClosed, caVars, llmVars, links>>

\* InterruptFrame: the first i frames are already commands and stay before the
\* interrupt command, those up to j are purged; Playback is interrupted first.
InterruptTTS ==
    /\ ttsSys > 0
    /\ ttsSys' = ttsSys - 1
    /\ \E i \in 0..Len(ttsIn) : \E j \in i..Len(ttsIn) :
          /\ ttsIn' = SubSeq(ttsIn, 1, i) \o <<[kind |-> "interrupt"]>>
                        \o SubSeq(ttsIn, j + 1, Len(ttsIn))
          /\ overtaken' = \/ overtaken
                          \/ \E n \in 1..j : /\ ttsIn[n].kind # "interrupt"
                                             /\ ttsIn[n].late
          /\ \A n \in (i + 1)..j : ttsIn[n].kind # "interrupt"
          /\ \A n \in 1..Len(ttsIn) : ttsIn[n].kind = "interrupt" => n <= i
    /\ InterruptPlayback
    /\ PurgeUp
    /\ UNCHANGED <<ttsVars, caVars, llmVars, llmIn, sent, llmSys, requests>>

TTSStep ==
    \/ SpeakStart \/ SpeakText \/ SpeakEnd \/ SpeakInterrupt \/ SpeakAudio
    \/ SpeakDone \/ InterruptTTS

----------------------------------------------------------------------------
User == UserStep /\ UNCHANGED <<llmVars, pbVars, ttsVars>>
Aggregator == UpStep /\ UNCHANGED <<llmVars, pbVars, ttsVars>>
LLM == LLMStep /\ UNCHANGED <<caVars, pbVars, ttsVars>>
Play == tick /\ UNCHANGED <<caVars, llmVars, ttsVars>>

Pipeline == Aggregator \/ LLM \/ TTSStep \/ Play

Next == User \/ Pipeline

Spec == Init /\ [][Next]_vars

\* The stages, the runs and the tool handlers do not all stop while one of them
\* has something to do; the user need not speak.  Only finitely many of their
\* steps fit into the bounds, so each of them gets its turn.
FairSpec == Spec /\ WF_vars(Pipeline)

----------------------------------------------------------------------------
(* Properties.                                                             *)

\* When a tool result makes the aggregator ask the model again, every call of
\* that response is in the history with its result, whatever the order the
\* handlers return in and whatever interrupts purge: the model never sees its own
\* call IN_PROGRESS because of the rerun, and no result comes before its call
\* (executeToolCalls, applyFunctionCallResult).
RequestHasResults ==
    up # <<>> /\ Head(up).kind = "result" =>
        /\ toolMessage[Head(up).call] = "IN_PROGRESS"
        /\ Head(up).runLLM =>
              \A c \in CallsOf(Head(up).call[1]) \ {Head(up).call} :
                  toolMessage[c] = "result"

\* At most one response that nobody cancelled is being generated or is running
\* its tools, across user turns, tool-driven runs and interrupts (cancelLLM).
OneLiveRun ==
    Cardinality({r \in Run : run[r] \notin {"none", "done"} /\ r \notin cancelled})
      <= 1

Times(r, s) == Cardinality({i \in DOMAIN s : s[i] = r})

\* What the bot said is committed to the history at most once, across barge-in,
\* the regular end of a turn and word frames that come late (commitSpokenText).
WordsOnce ==
    \A r \in Run :
        Cardinality({i \in DOMAIN committed : Times(r, committed[i]) > 0})
          + Times(r, spokenWords) <= 1

\* The last request the aggregator made is closed by the TTSDone of its response or
\* cut off by the user, even when the stream fails or an interrupt races with it:
\* the caller is not left in silence (runLLM, TTSDoneFrame, tick).  The one way out
\* is a frame that was taken or purged out of its turn.
TurnClosed == awaiting # 0 ~> (awaiting = 0 \/ overtaken)
=============================================================================
