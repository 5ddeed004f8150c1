------------------------- MODULE ConversationLinks -------------------------
(***************************************************************************)
(* The links between ContextAggregator, LLMProcessor, TTSProcessor and     *)
(* PlaybackSinkProcessor: the frames in the processors' channels, merged   *)
(* into one queue per link and direction.  What an interrupt may do to a   *)
(* queue (purge the part that had reached a procCh, spare frames that are  *)
(* not interruptible) is what BaseProcessor shows.                         *)
(***************************************************************************)
EXTENDS Naturals, Sequences, FiniteSets

CONSTANTS
    MaxRequests,    \* bound: turns and responses with tool calls
    MaxCalls        \* bound: tool calls in one response

ASSUME LinksAssumption ==
    /\ MaxRequests \in Nat \ {0} /\ MaxCalls \in Nat

\* A request, the runLLM goroutine that serves it and the response are one run.
Run  == 1..MaxRequests
Call == Run \X (1..MaxCalls)

VARIABLES
    llmIn,      \* LLMMessagesFrames on their way to the LLM stage
    sent,       \* number of LLMMessagesFrames sent
    llmSys,     \* InterruptFrames on their way to it
    ttsIn,      \* LLM output at the TTS stage
    ttsSys,
    up,         \* frames on their way up to ContextAggregator
    requests,   \* those sent and those that tool calls may still lead to
    overtaken   \* history: a frame was taken or purged out of its turn

links == <<llmIn, sent, llmSys, ttsIn, ttsSys, up, requests, overtaken>>

\* Frames are records: what goes up has kind "started", "stopped", "words",
\* "done", "call" or "result"; what goes to TTS "start", "text", "rend" or
\* "interrupt".  late: of a run that is not cancelled, sent while an interrupt
\* was waiting at the receiver.

LinksInit ==
    /\ llmIn = <<>> /\ sent = 0 /\ llmSys = 0 /\ ttsIn = <<>> /\ ttsSys = 0
    /\ up = <<>> /\ requests = 0 /\ overtaken = FALSE

PushMessages ==
    /\ sent' = sent + 1
    /\ llmIn' = Append(llmIn, [run |-> sent + 1, late |-> llmSys > 0])

\* Frames of the LLM stage pass the ones from Playback that have not got there
\* yet.
PushFromLLM(s) ==
    \E i \in 0..Len(up) :
        /\ \A n \in (i + 1)..Len(up) : up[n].kind \notin {"call", "result"}
        /\ up' = SubSeq(up, 1, i) \o s \o SubSeq(up, i + 1, Len(up))

PushTTS(k, r, wanted) ==
    ttsIn' = Append(ttsIn, [kind |-> k, run |-> r,
                            late |-> wanted /\ ttsSys > 0])

\* The subsequence of s at the positions in N.
Kept(s, N) ==
    [k \in 1..Cardinality(N) |->
       s[CHOOSE n \in N : Cardinality({m \in N : m <= n}) = k]]

\* The frames between i and j were in the procCh of the interrupted stage; those of
\* tool calls survive.
PurgeUp ==
    \E i \in 0..Len(up) : \E j \in i..Len(up) :
        up' = Kept(up, {n \in DOMAIN up :
                          \/ n <= i \/ n > j
                          \/ up[n].kind \in {"call", "result"}})
=============================================================================
