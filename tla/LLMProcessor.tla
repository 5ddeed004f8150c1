---------------------------- MODULE LLMProcessor ----------------------------
(***************************************************************************)
(* The LLM stage (voicepipelinecore/llm_processor.go): each                *)
(* LLMMessagesFrame spawns a runLLM goroutine and cancels the one before   *)
(* it; a finished response with tool calls goes on in executeToolCalls,    *)
(* which announces the calls upstream, runs the handlers in parallel and   *)
(* sends their results up as they come.                                    *)
(***************************************************************************)
EXTENDS ConversationLinks

VARIABLES
    run,        \* run[r]: where runLLM and executeToolCalls of r are
    cancelled,  \* runs whose ctx is cancelled
    stored,     \* the run whose cancel function is p.cancelLLM, or 0
    calls,      \* calls[r]: number of tool calls in the response of r
    tool,       \* tool[c]: state of each tool call
    runNext     \* runs whose runNextLLM is true

llmVars == <<run, cancelled, stored, calls, tool, runNext>>

LLMInit ==
    /\ run = [r \in Run |-> "none"]
    /\ cancelled = {} /\ stored = 0
    /\ calls = [r \in Run |-> 0]
    /\ tool = [c \in Call |-> "none"]
    /\ runNext = {}

----------------------------------------------------------------------------
(* ProcessFrame.                                                           *)

\* Mutant: the run in flight is not cancelled.
TakeMessagesKeepsRun ==
    /\ llmIn # <<>>
    /\ llmIn' = Tail(llmIn)
    /\ stored' = Head(llmIn).run
    /\ run' = [run EXCEPT ![Head(llmIn).run] = "start"]
    /\ UNCHANGED <<cancelled, calls, tool, runNext, sent, llmSys, ttsIn, ttsSys, up,
                   requests, overtaken>>

\* LLMMessagesFrame.
TakeMessages ==
    /\ llmIn # <<>>
    /\ llmIn' = Tail(llmIn)
    /\ cancelled' = cancelled \cup ({stored} \ {0})
    /\ stored' = Head(llmIn).run
    /\ run' = [run EXCEPT ![Head(llmIn).run] = "start"]
    /\ overtaken' = (overtaken \/ (llmSys > 0 /\ Head(llmIn).late))
    /\ UNCHANGED <<calls, tool, runNext, sent, llmSys, ttsIn, ttsSys, up, requests>>

\* InterruptFrame: the base cancels procCtx, the parent of every run's ctx, and
\* purges procCh (the first n frames), of which processLoop may still take the
\* first; then cancelInFlight, and the frame goes on to TTS.
Interrupt ==
    /\ llmSys > 0
    /\ llmSys' = llmSys - 1
    /\ ttsSys' = ttsSys + 1
    /\ \E n \in 0..Len(llmIn) :
          /\ llmIn' = SubSeq(llmIn, n + 1, Len(llmIn))
          /\ overtaken' = (overtaken \/ \E i \in 1..n : llmIn[i].late)
          /\ \/ UNCHANGED run
             \/ n > 0 /\ run' = [run EXCEPT ![Head(llmIn).run] = "start"]
    /\ stored' = 0
    /\ cancelled' = {r \in Run : run'[r] # "none"}
    /\ PurgeUp
    /\ UNCHANGED <<calls, tool, runNext, sent, ttsIn, requests>>

----------------------------------------------------------------------------
(* runLLM.  Frames are pushed whether or not ctx is cancelled; only the    *)
(* end of the stream is followed by a check.                               *)

RunPush(r, from, to, kind) ==
    /\ run[r] = from
    /\ run' = [run EXCEPT ![r] = to]
    /\ PushTTS(kind, r, r \notin cancelled)

\* A stream opened with a cancelled ctx delivers no token.
RunStart(r) ==
    /\ RunPush(r, "start", IF r \in cancelled THEN "streamed" ELSE "stream",
               "start")
    /\ UNCHANGED <<cancelled, stored, calls, tool, runNext, llmIn, sent, llmSys,
                   ttsSys, up, requests, overtaken>>

RunToken(r) ==
    /\ RunPush(r, "stream", "streamed", "text")
    /\ UNCHANGED <<cancelled, stored, calls, tool, runNext, llmIn, sent, llmSys,
                   ttsSys, up, requests, overtaken>>

\* Mutant: a failed stream ends the goroutine without a terminal frame.
RunCheckDropsErrors(r) ==
    /\ run[r] \in {"stream", "streamed"}
    /\ \/ run' = [run EXCEPT ![r] = "done"]
       \/ r \notin cancelled /\ run' = [run EXCEPT ![r] = "rend"]
    /\ UNCHANGED <<cancelled, stored, calls, tool, runNext, links>>

\* Stream returned: ctx.Err() decides whether terminal frames follow.
RunCheck(r) ==
    /\ run[r] \in {"stream", "streamed"}
    /\ run' = [run EXCEPT ![r] = IF r \in cancelled THEN "done" ELSE "rend"]
    /\ UNCHANGED <<cancelled, stored, calls, tool, runNext, links>>

\* LLMResponseEndFrame, after an error or a complete response; the latter may
\* contain tool calls.
RunEnd(r) ==
    /\ \E n \in 0..MaxCalls :
          /\ requests' = IF n = 0 THEN requests ELSE requests + 1
          /\ requests' <= MaxRequests
          /\ calls' = [calls EXCEPT ![r] = n]
          /\ RunPush(r, "rend", IF n = 0 THEN "done" ELSE "tools", "rend")
    /\ UNCHANGED <<cancelled, stored, tool, runNext, llmIn, sent, llmSys, ttsSys,
                   up, overtaken>>

runLLM(r) == RunStart(r) \/ RunToken(r) \/ RunCheck(r) \/ RunEnd(r)

----------------------------------------------------------------------------
(* executeToolCalls, on its own goroutine, and the handlers.               *)

CallsOf(r) == {c \in Call : c[1] = r /\ c[2] <= calls[r]}

\* The FunctionCallInProgressFrames.  Handlers start in between, but no result
\* is sent before the last of them.
ToolAnnounce(r) ==
    /\ run[r] = "tools"
    /\ \A c \in CallsOf(r) : tool[c] = "none"
    /\ tool' = [c \in Call |-> IF c \in CallsOf(r) THEN "running" ELSE tool[c]]
    /\ PushFromLLM([n \in 1..calls[r] |-> [kind |-> "call", call |-> <<r, n>>]])
    /\ UNCHANGED <<run, cancelled, stored, calls, runNext, llmIn, sent, llmSys,
                   ttsIn, ttsSys, requests, overtaken>>

\* result.runLLM may set runNextLLM, for good.
AskAgain(r) == runNext' \in {runNext, runNext \cup {r}}

\* Mutant: the model is asked again as soon as one result wants it.
ToolCollectEager(r) ==
    /\ run[r] = "tools"
    /\ \E c \in CallsOf(r) :
          /\ tool[c] = "running"
          /\ tool' = [tool EXCEPT ![c] = "sent"]
          /\ AskAgain(r)
          /\ PushFromLLM(<<[kind |-> "result", call |-> c,
                             runLLM |-> r \in runNext']>>)
          /\ run' = IF \A d \in CallsOf(r) : tool'[d] = "sent"
                    THEN [run EXCEPT ![r] = "done"] ELSE run
    /\ UNCHANGED <<cancelled, stored, calls, llmIn, sent, llmSys, ttsIn, ttsSys,
                   requests, overtaken>>

\* A handler returns, times out or fails (executeOneToolCall) and the collecting
\* loop sends its result; the last one carries RunLLM if any handler asked for it.
ToolCollect(r) ==
    /\ run[r] = "tools"
    /\ \E c \in CallsOf(r) :
          /\ tool[c] = "running"
          /\ tool' = [tool EXCEPT ![c] = "sent"]
          /\ AskAgain(r)
          /\ LET last == \A d \in CallsOf(r) : tool'[d] = "sent"
             IN  /\ PushFromLLM(<<[kind |-> "result", call |-> c,
                                    runLLM |-> last /\ r \in runNext']>>)
                 /\ run' = IF last THEN [run EXCEPT ![r] = "done"] ELSE run
    /\ UNCHANGED <<cancelled, stored, calls, llmIn, sent, llmSys, ttsIn, ttsSys,
                   requests, overtaken>>

executeToolCalls(r) == ToolAnnounce(r) \/ ToolCollect(r)

LLMStep ==
    \/ TakeMessages \/ Interrupt
    \/ \E r \in Run : runLLM(r) \/ executeToolCalls(r)
=============================================================================
