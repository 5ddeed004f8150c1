------------------------- MODULE ContextAggregator -------------------------
(***************************************************************************)
(* Turn taking and the conversation history                                *)
(* (voicepipelinecore/context_aggregator.go).  The processor has no        *)
(* goroutine of its own and no interrupt reaches it: each action is one    *)
(* ProcessFrame call.  Transcripts come from the user, the other frames    *)
(* from up.                                                                *)
(*                                                                         *)
(* currentTranscript is whether there is final text.  interimTranscript is *)
(* not kept: it is only compared with minBargeInWords in the step that     *)
(* extends it, and any interim transcript may reach that length.  The      *)
(* words of a response travel in one WordTimestampFrame, named by its run. *)
(***************************************************************************)
EXTENDS ConversationLinks

VARIABLES
    committed,      \* assistant messages: the runs whose words they hold
    toolMessage,    \* tool messages, each with its assistant message
    currentTranscript, spokenWords, interruptSent, botSpeaking,
    awaiting        \* history: the last request, until its turn is closed, or 0

messages == <<committed, toolMessage>>
caVars == <<messages, currentTranscript, spokenWords, interruptSent, botSpeaking,
            awaiting>>

CAInit ==
    /\ committed = <<>>
    /\ toolMessage = [c \in Call |-> "none"]
    /\ currentTranscript = FALSE
    /\ spokenWords = <<>>
    /\ interruptSent = FALSE /\ botSpeaking = FALSE
    /\ awaiting = 0

requestLLM == PushMessages /\ awaiting' = sent'

\* Mutant: the committed words stay in the aggregator.
CommitKeepsWords ==
    /\ committed' = IF spokenWords = <<>> THEN committed
                    ELSE Append(committed, spokenWords)
    /\ UNCHANGED spokenWords

commitSpokenText ==
    /\ committed' = IF spokenWords = <<>> THEN committed
                    ELSE Append(committed, spokenWords)
    /\ spokenWords' = <<>>

----------------------------------------------------------------------------
(* Frames from above: the greeting and the user's transcripts.             *)

\* LLMMessagesAppendFrame with RunLLM, pushed when the user joins; the initial
\* context is not empty.
AppendAndRun ==
    /\ requests = 0
    /\ requests' = 1
    /\ requestLLM
    /\ UNCHANGED <<messages, currentTranscript, spokenWords, interruptSent,
                   botSpeaking, llmSys, ttsIn, ttsSys, up, overtaken>>

\* A non-final transcript with minBargeInWords interrupts the speaking bot;
\* any other only extends interimTranscript.
BargeIn ==
    /\ botSpeaking /\ ~interruptSent
    /\ llmSys' = llmSys + 1
    /\ interruptSent' = TRUE
    /\ botSpeaking' = FALSE
    /\ commitSpokenText
    /\ awaiting' = 0
    /\ UNCHANGED <<toolMessage, currentTranscript, llmIn, sent, ttsIn, ttsSys, up,
                   requests, overtaken>>

Final ==
    /\ currentTranscript' = TRUE
    /\ UNCHANGED <<messages, spokenWords, interruptSent, botSpeaking,
                   awaiting, links>>

submitUserMessage ==
    /\ requests < MaxRequests
    /\ requests' = requests + 1
    /\ interruptSent' = FALSE
    /\ spokenWords' = <<>>
    /\ requestLLM

\* The final "<end>" token: a turn, or a back-channel while the bot speaks.
EndToken ==
    /\ currentTranscript' = FALSE
    /\ IF currentTranscript /\ ~(botSpeaking /\ ~interruptSent)
       THEN submitUserMessage
       ELSE UNCHANGED <<interruptSent, spokenWords, awaiting, llmIn, sent,
                        requests>>
    /\ UNCHANGED <<messages, botSpeaking, llmSys, ttsIn, ttsSys, up, overtaken>>

----------------------------------------------------------------------------
(* Frames from below.                                                      *)

TakeUp(kind) ==
    /\ up # <<>> /\ Head(up).kind = kind
    /\ up' = Tail(up)
    /\ UNCHANGED <<llmSys, ttsIn, ttsSys, requests, overtaken>>

\* FunctionCallInProgressFrame.
addFunctionCallInProgress ==
    /\ TakeUp("call")
    /\ toolMessage' = [toolMessage EXCEPT ![Head(up).call] = "IN_PROGRESS"]
    /\ UNCHANGED <<committed, currentTranscript, spokenWords, interruptSent,
                   botSpeaking, awaiting, llmIn, sent>>

\* FunctionCallResultFrame: the tool message is completed in place.
applyFunctionCallResult ==
    /\ TakeUp("result")
    /\ toolMessage' = [toolMessage EXCEPT ![Head(up).call] = "result"]
    /\ IF Head(up).runLLM THEN requestLLM
       ELSE UNCHANGED <<llmIn, sent, awaiting>>
    /\ UNCHANGED <<committed, currentTranscript, spokenWords, interruptSent,
                   botSpeaking>>

WordTimestamp ==
    /\ TakeUp("words")
    /\ spokenWords' = Append(spokenWords, Head(up).run)
    /\ UNCHANGED <<messages, currentTranscript, interruptSent, botSpeaking,
                   awaiting, llmIn, sent>>

\* TTSDoneFrame: the turn is over, and with it the user's back-channel.
TTSDone ==
    /\ TakeUp("done")
    /\ commitSpokenText
    /\ botSpeaking' = FALSE
    /\ currentTranscript' = (currentTranscript /\ interruptSent)
    /\ awaiting' = IF Head(up).run = awaiting THEN 0 ELSE awaiting
    /\ UNCHANGED <<toolMessage, interruptSent, llmIn, sent>>

BotStartedSpeaking ==
    /\ TakeUp("started")
    /\ botSpeaking' = TRUE
    /\ UNCHANGED <<messages, currentTranscript, spokenWords, interruptSent,
                   awaiting, llmIn, sent>>

BotStoppedSpeaking ==
    /\ TakeUp("stopped")
    /\ botSpeaking' = FALSE
    /\ UNCHANGED <<messages, currentTranscript, spokenWords, interruptSent,
                   awaiting, llmIn, sent>>

UserStep == AppendAndRun \/ BargeIn \/ Final \/ EndToken

UpStep ==
    \/ addFunctionCallInProgress \/ applyFunctionCallResult \/ WordTimestamp
    \/ TTSDone \/ BotStartedSpeaking \/ BotStoppedSpeaking
=============================================================================
