------------------------- MODULE ConversationProofs -------------------------
(***************************************************************************)
(* Proofs, for any number of requests and tool calls, of the safety of a   *)
(* conversation: the LLM stage never has two responses alive, a request    *)
(* that reruns it carries the results of all its tool calls, and what a    *)
(* response says reaches the history at most once, whatever the user, the  *)
(* streams and the handlers do and whichever frames interrupts purge.      *)
(***************************************************************************)
EXTENDS Conversation, FiniteSetTheorems, TLAPS

RunState == {"none", "start", "stream", "streamed", "rend", "tools", "done"}

Alive(r) == run[r] \notin {"none", "done"} /\ r \notin cancelled

\* cancelLLM belongs to the only response that may still be alive.
LiveInv ==
    /\ run \in [Run -> RunState]
    /\ \A r \in Run : Alive(r) => r = stored

\* A run goes on only from a state in which it was alive or is cancelled: what a
\* goroutine of runLLM or executeToolCalls does keeps LiveInv.
LEMMA LiveRunStep ==
    ASSUME LiveInv, NEW r \in Run, NEW s \in RunState,
           run[r] \notin {"none", "done"},
           run' = [run EXCEPT ![r] = s],
           UNCHANGED <<cancelled, stored>>
    PROVE  LiveInv'
<1>1. run' \in [Run -> RunState]
  BY DEF LiveInv
<1>2. ASSUME NEW q \in Run, Alive(q)' PROVE q = stored'
  <2>1. Alive(q)
    BY <1>2 DEF LiveInv, Alive
  <2> QED BY <2>1 DEF LiveInv
<1> QED BY <1>1, <1>2 DEF LiveInv

\* The steps that leave the runs and their contexts alone keep LiveInv.
LEMMA LiveFrame ==
    LiveInv /\ UNCHANGED <<run, cancelled, stored>> => LiveInv'
BY DEF LiveInv, Alive

\* A new LLMMessagesFrame cancels the run in flight before it stores its own cancel
\* function (ProcessFrame).
LEMMA LiveTakeMessages == LiveInv /\ TakeMessages => LiveInv'
<1> SUFFICES ASSUME LiveInv, TakeMessages PROVE LiveInv'
  OBVIOUS
<1> DEFINE m == Head(llmIn).run
<1>1. /\ cancelled' = cancelled \cup ({stored} \ {0})
      /\ stored' = m
      /\ run' = [run EXCEPT ![m] = "start"]
  BY DEF TakeMessages
<1> HIDE DEF m
<1>2. run' \in [Run -> RunState]
  BY <1>1 DEF LiveInv, RunState
<1>3. ASSUME NEW q \in Run, Alive(q)', q # m PROVE FALSE
  <2>1. Alive(q)
    BY <1>1, <1>3 DEF LiveInv, Alive
  <2>2. q = stored /\ q # 0
    BY <2>1, LinksAssumption DEF LiveInv, Run
  <2> QED BY <1>1, <1>3, <2>2 DEF Alive
<1> QED BY <1>1, <1>2, <1>3 DEF LiveInv

\* An InterruptFrame cancels procCtx, the parent of every run's context.
LEMMA LiveInterrupt == LiveInv /\ Interrupt => LiveInv'
<1> SUFFICES ASSUME LiveInv, Interrupt PROVE LiveInv'
  OBVIOUS
<1> DEFINE m == Head(llmIn).run
<1>1. cancelled' = {r \in Run : run'[r] # "none"}
  BY DEF Interrupt
<1>2. run' = run \/ run' = [run EXCEPT ![m] = "start"]
  BY DEF Interrupt
<1> HIDE DEF m
<1>3. run' \in [Run -> RunState]
  BY <1>2 DEF LiveInv, RunState
<1>4. \A r \in Run : ~Alive(r)'
  BY <1>1 DEF Alive
<1> QED BY <1>3, <1>4 DEF LiveInv

\* A runLLM goroutine, from its LLMResponseStartFrame to its LLMResponseEndFrame.
LEMMA LiveRunLLM ==
    ASSUME LiveInv, NEW r \in Run, runLLM(r)
    PROVE  LiveInv'
<1>1. CASE RunStart(r)
  <2> DEFINE s == IF r \in cancelled THEN "streamed" ELSE "stream"
  <2>1. /\ run[r] = "start" /\ run' = [run EXCEPT ![r] = s]
        /\ UNCHANGED <<cancelled, stored>>
    BY <1>1 DEF RunStart, RunPush
  <2>2. s \in RunState
    BY DEF RunState
  <2> HIDE DEF s
  <2> QED BY <2>1, <2>2, LiveRunStep
<1>2. CASE RunToken(r)
  <2>1. /\ run[r] = "stream" /\ run' = [run EXCEPT ![r] = "streamed"]
        /\ UNCHANGED <<cancelled, stored>>
    BY <1>2 DEF RunToken, RunPush
  <2>2. "streamed" \in RunState
    BY DEF RunState
  <2> QED BY <2>1, <2>2, LiveRunStep
<1>3. CASE RunCheck(r)
  <2> DEFINE s == IF r \in cancelled THEN "done" ELSE "rend"
  <2>1. /\ run[r] \in {"stream", "streamed"} /\ run' = [run EXCEPT ![r] = s]
        /\ UNCHANGED <<cancelled, stored>>
    BY <1>3 DEF RunCheck
  <2>2. s \in RunState
    BY DEF RunState
  <2> HIDE DEF s
  <2> QED BY <2>1, <2>2, LiveRunStep
<1>4. CASE RunEnd(r)
  <2>1. PICK s \in RunState : run[r] = "rend" /\ run' = [run EXCEPT ![r] = s]
    BY <1>4 DEF RunEnd, RunPush, RunState
  <2>2. UNCHANGED <<cancelled, stored>>
    BY <1>4 DEF RunEnd
  <2> QED BY <2>1, <2>2, LiveRunStep
<1> QED BY <1>1, <1>2, <1>3, <1>4 DEF runLLM

\* The tool calls of a response, from the announcement to the last result.
LEMMA LiveToolCalls ==
    ASSUME LiveInv, NEW r \in Run, executeToolCalls(r)
    PROVE  LiveInv'
<1>1. CASE ToolAnnounce(r)
  BY <1>1, LiveFrame DEF ToolAnnounce
<1>2. CASE ToolCollect(r)
  <2>1. run[r] = "tools" /\ UNCHANGED <<cancelled, stored>>
    BY <1>2 DEF ToolCollect
  <2>2. run' = run \/ run' = [run EXCEPT ![r] = "done"]
    BY <1>2 DEF ToolCollect
  <2>3. "done" \in RunState
    BY DEF RunState
  <2> QED BY <2>1, <2>2, <2>3, LiveFrame, LiveRunStep
<1> QED BY <1>1, <1>2 DEF executeToolCalls

\* Initially no request was made and nothing is being generated.
LEMMA LiveInit == Init => LiveInv
BY DEF Init, LLMInit, LiveInv, Alive, RunState

\* The user, the aggregator, TTS and Playback do not touch runs or their contexts;
\* every step of the LLM stage keeps LiveInv.
LEMMA LiveNext == LiveInv /\ [Next]_vars => LiveInv'
<1> SUFFICES ASSUME LiveInv, [Next]_vars PROVE LiveInv'
  OBVIOUS
<1>1. CASE LLM
  <2>1. CASE TakeMessages \/ Interrupt
    BY <2>1, LiveTakeMessages, LiveInterrupt
  <2>2. CASE \E r \in Run : runLLM(r) \/ executeToolCalls(r)
    BY <2>2, LiveRunLLM, LiveToolCalls
  <2> QED BY <1>1, <2>1, <2>2 DEF LLM, LLMStep
<1>2. CASE User \/ Aggregator \/ Play
  BY <1>2, LiveFrame DEF User, Aggregator, Play, llmVars
<1>3. CASE TTSStep
  <2>1. UNCHANGED llmVars
    BY <1>3 DEF TTSStep, SpeakStart, SpeakText, SpeakEnd, SpeakInterrupt,
                SpeakAudio, SpeakDone, InterruptTTS, TakeTTS
  <2> QED BY <2>1, LiveFrame DEF llmVars
<1>4. CASE UNCHANGED vars
  BY <1>4, LiveFrame DEF vars, llmVars
<1> QED BY <1>1, <1>2, <1>3, <1>4 DEF Next, Pipeline

\* At most one response that nobody cancelled is being generated or is running its
\* tools, across user turns, tool-driven runs and interrupts, for any number of
\* them (LLMProcessor.ProcessFrame, runLLM, executeToolCalls).
THEOREM SingleResponse == Spec => []OneLiveRun
<1>1. LiveInv => OneLiveRun
  <2> SUFFICES ASSUME LiveInv PROVE OneLiveRun
    OBVIOUS
  <2> DEFINE live == {r \in Run : run[r] \notin {"none", "done"}
                                    /\ r \notin cancelled}
  <2>1. live \subseteq {stored}
    BY DEF LiveInv, Alive
  <2>2. IsFiniteSet({stored}) /\ Cardinality({stored}) = 1
    BY FS_Singleton
  <2>3. Cardinality(live) <= Cardinality({stored})
    BY <2>1, <2>2, FS_Subset
  <2> HIDE DEF live
  <2>4. Cardinality(live) <= 1
    BY <2>2, <2>3
  <2> QED BY <2>4 DEF OneLiveRun, live
<1> QED BY <1>1, LiveInit, LiveNext, PTL DEF Spec

----------------------------------------------------------------------------
(* Queues.                                                                 *)

Elems(s) == {s[i] : i \in DOMAIN s}

\* In the sequence s, some f comes before some g.
Before(s, f, g) ==
    \E m, n \in DOMAIN s : m < n /\ s[m] = f /\ s[n] = g

\* t is what remains of s at positions taken in order.
Embedded(t, s, N) ==
    \E f \in [DOMAIN t -> N] :
        /\ \A i, j \in DOMAIN t : i < j => f[i] < f[j]
        /\ \A n \in N : \E k \in DOMAIN t : f[k] = n
        /\ \A k \in DOMAIN t : t[k] = s[f[k]]

\* A purge keeps the frames it does not drop, each once and in order.
LEMMA KeptInOrder ==
    ASSUME NEW S, NEW s \in Seq(S), NEW N \in SUBSET DOMAIN s
    PROVE  Kept(s, N) \in Seq(S) /\ Embedded(Kept(s, N), s, N)
<1> DEFINE C == Cardinality(N)
           below(n) == {m \in N : m <= n}
           rank == [n \in N |-> Cardinality(below(n))]
           at == [k \in 1..C |-> CHOOSE n \in N : Cardinality(below(n)) = k]
<1>1. DOMAIN s = 1..Len(s) /\ Len(s) \in Nat
  OBVIOUS
<1>2. IsFiniteSet(N) /\ C \in Nat
  <2>1. IsFiniteSet(1..Len(s))
    BY <1>1, FS_Interval
  <2> QED BY <1>1, <2>1, FS_Subset, FS_CardinalityType
<1>3. \A n \in N : n \in Nat
  BY <1>1
<1>4. ASSUME NEW n \in N PROVE rank[n] \in 1..C
  <2>1. below(n) \in SUBSET N /\ n \in below(n)
    BY <1>3
  <2>2. IsFiniteSet(below(n)) /\ Cardinality(below(n)) <= C
    BY <1>2, <2>1, FS_Subset
  <2>3. Cardinality(below(n)) \in Nat /\ Cardinality(below(n)) # 0
    BY <2>1, <2>2, FS_CardinalityType, FS_EmptySet
  <2> QED BY <1>2, <2>2, <2>3
<1>5. ASSUME NEW n \in N, NEW m \in N, n < m PROVE rank[n] < rank[m]
  <2>1. below(n) \in SUBSET below(m) /\ below(m) # below(n)
    BY <1>3, <1>5
  <2>2. IsFiniteSet(below(m))
    BY <1>2, FS_Subset
  <2>3. /\ Cardinality(below(n)) <= Cardinality(below(m))
        /\ Cardinality(below(n)) # Cardinality(below(m))
    BY <2>1, <2>2, FS_Subset
  <2>4. rank[n] \in Nat /\ rank[m] \in Nat
    BY <1>2, <1>4
  <2> QED BY <2>3, <2>4
<1>6. ASSUME NEW n \in N, NEW m \in N, rank[n] = rank[m] PROVE n = m
  <2> HIDE DEF rank
  <2>1. n \in Nat /\ m \in Nat /\ rank[n] \in Nat
    BY <1>2, <1>3, <1>4
  <2>2. ~(n < m) /\ ~(m < n)
    BY <1>5, <1>6, <2>1
  <2> QED BY <2>1, <2>2
<1>7. ASSUME NEW k \in 1..C PROVE \E n \in N : rank[n] = k
  <2> SUFFICES ASSUME \A n \in N : rank[n] # k PROVE FALSE
    OBVIOUS
  <2> DEFINE T == (1..C) \ {k}
  <2>1. IsFiniteSet(1..C) /\ Cardinality(1..C) = C
    BY <1>2, FS_Interval
  <2>2. IsFiniteSet(T) /\ Cardinality(T) = C - 1
    BY <2>1, FS_RemoveElement
  <2>3. rank \in [N -> T]
    BY <1>4
  <2>4. \E n, m \in N : n # m /\ rank[n] = rank[m]
    <3>1. Cardinality(T) < Cardinality(N)
      BY <1>2, <2>2
    <3> HIDE DEF T, rank
    <3> QED BY <1>2, <2>2, <2>3, <3>1, FS_PigeonHole
  <2> QED BY <1>6, <2>4
<1>8. at \in [1..C -> N] /\ \A k \in 1..C : rank[at[k]] = k
  BY <1>7
<1>9. ASSUME NEW i \in 1..C, NEW j \in 1..C, i < j PROVE at[i] < at[j]
  <2>1. at[i] \in N /\ at[j] \in N /\ rank[at[i]] = i /\ rank[at[j]] = j
    BY <1>8
  <2> HIDE DEF at, rank
  <2>2. at[i] \in Nat /\ at[j] \in Nat
    BY <1>3, <2>1
  <2>3. at[j] < at[i] => j < i
    BY <1>5, <2>1
  <2>4. at[j] # at[i]
    BY <1>2, <1>9, <2>1
  <2> QED BY <1>2, <1>9, <2>2, <2>3, <2>4
<1>10. ASSUME NEW n \in N PROVE \E k \in 1..C : at[k] = n
  <2>1. rank[n] \in 1..C
    BY <1>4
  <2>2. at[rank[n]] \in N /\ rank[at[rank[n]]] = rank[n]
    BY <1>8, <2>1
  <2>3. at[rank[n]] = n
    BY <1>6, <2>2
  <2> QED BY <2>1, <2>3
<1>11. Kept(s, N) = [k \in 1..C |-> s[at[k]]]
  BY DEF Kept
<1> HIDE DEF at, rank
<1>12. Kept(s, N) \in [1..C -> S]
  BY <1>1, <1>8, <1>11
<1>13. Kept(s, N) \in Seq(S)
  BY <1>2, <1>12
<1>14. /\ DOMAIN Kept(s, N) = 1..C
       /\ \A k \in 1..C : Kept(s, N)[k] = s[at[k]]
  BY <1>11
<1>15. Embedded(Kept(s, N), s, N)
  <2> DEFINE t == Kept(s, N)
  <2>1. /\ DOMAIN t = 1..C
        /\ \A i, j \in 1..C : i < j => at[i] < at[j]
        /\ \A n \in N : \E k \in 1..C : at[k] = n
        /\ \A k \in 1..C : t[k] = s[at[k]]
    BY <1>9, <1>10, <1>14
  <2> HIDE DEF t
  <2>2. Embedded(t, s, N)
    <3>1. /\ at \in [DOMAIN t -> N]
          /\ \A i, j \in DOMAIN t : i < j => at[i] < at[j]
          /\ \A n \in N : \E k \in DOMAIN t : at[k] = n
          /\ \A k \in DOMAIN t : t[k] = s[at[k]]
      BY <1>8, <2>1
    <3> QED BY <3>1, Zenon DEF Embedded
  <2> QED BY <2>2 DEF t
<1> QED BY <1>13, <1>15

----------------------------------------------------------------------------
(* Types.                                                                  *)

Message   == [run : Nat, late : BOOLEAN]
Speech    == [kind : {"start", "text", "rend"}, run : Run, late : BOOLEAN]
               \cup [kind : {"interrupt"}]
PlayFrame == [kind : {"audio"}] \cup [kind : {"words"}, run : Run]
               \cup [kind : {"done"}, run : Run \cup {0}]
ToolFrame == [kind : {"call"}, call : Call]
               \cup [kind : {"result"}, call : Call, runLLM : BOOLEAN]
UpFrame   == ToolFrame \cup [kind : {"words"}, run : Run]
               \cup [kind : {"done"}, run : Run \cup {0}]
               \cup [kind : {"started", "stopped"}]

\* What the queues hold, and the state that frames are made from.
LinkType ==
    /\ llmIn \in Seq(Message) /\ sent \in Nat
    /\ ttsIn \in Seq(Speech)
    /\ up \in Seq(UpFrame)
    /\ playbackQueue \in Seq(PlayFrame)
    /\ ttsCtx \in Run \cup {0} /\ ttsText \subseteq Run

StateType ==
    /\ committed \in Seq(Seq(Run)) /\ spokenWords \in Seq(Run)
    /\ toolMessage \in [Call -> {"none", "IN_PROGRESS", "result"}]
    /\ tool \in [Call -> {"none", "running", "sent"}]
    /\ calls \in [Run -> 0..MaxCalls]

\* Frames of the LLM stage are put somewhere in the queue of frames going up, and an
\* interrupt drops some of that queue: both leave a queue of such frames.
LEMMA UpType ==
    ASSUME up \in Seq(UpFrame)
    PROVE  /\ PurgeUp => up' \in Seq(UpFrame)
           /\ \A s \in Seq(UpFrame) : PushFromLLM(s) => up' \in Seq(UpFrame)
<1>1. ASSUME PurgeUp PROVE up' \in Seq(UpFrame)
  <2>0. PICK i \in 0..Len(up) : \E j \in i..Len(up) :
           up' = Kept(up, {n \in DOMAIN up : \/ n <= i \/ n > j
                                             \/ up[n].kind \in {"call", "result"}})
    BY <1>1 DEF PurgeUp
  <2>1. PICK j \in i..Len(up) :
           up' = Kept(up, {n \in DOMAIN up : \/ n <= i \/ n > j
                                             \/ up[n].kind \in {"call", "result"}})
    BY <2>0
  <2> DEFINE N == {n \in DOMAIN up : \/ n <= i \/ n > j
                                     \/ up[n].kind \in {"call", "result"}}
  <2>2. N \in SUBSET DOMAIN up
    OBVIOUS
  <2> HIDE DEF N
  <2> QED BY <2>1, <2>2, KeptInOrder DEF N
<1>2. ASSUME NEW s \in Seq(UpFrame), PushFromLLM(s) PROVE up' \in Seq(UpFrame)
  <2>1. PICK i \in 0..Len(up) :
           up' = SubSeq(up, 1, i) \o s \o SubSeq(up, i + 1, Len(up))
    BY <1>2 DEF PushFromLLM
  <2>2. SubSeq(up, 1, i) \in Seq(UpFrame) /\ SubSeq(up, i + 1, Len(up)) \in Seq(UpFrame)
    OBVIOUS
  <2> QED BY <2>1, <2>2
<1> QED BY <1>1, <1>2

\* What playing a frame reports goes up (tick).
LEMMA ReportType ==
    ASSUME NEW f \in PlayFrame
    PROVE  /\ Report(f) \in Seq(UpFrame)
           /\ \A i \in DOMAIN Report(f) : Report(f)[i].kind \notin {"call", "result"}
           /\ f.kind # "words" =>
                \A i \in DOMAIN Report(f) : Report(f)[i].kind # "words"
<1>0. /\ [kind |-> "started"] \in UpFrame /\ [kind |-> "stopped"] \in UpFrame
      /\ [kind |-> "started"].kind = "started" /\ [kind |-> "stopped"].kind = "stopped"
  BY DEF UpFrame
<1>1. PICK a \in UpFrame, z \in UpFrame :
         /\ a = [kind |-> "started"] /\ a.kind = "started"
         /\ z = [kind |-> "stopped"] /\ z.kind = "stopped"
  BY <1>0
<1>2. CASE f.kind = "audio"
  <2>1. Report(f) = <<>> \/ Report(f) = <<a>>
    BY <1>1, <1>2 DEF Report
  <2>2. CASE Report(f) = <<>>
    BY <2>2
  <2>3. CASE Report(f) = <<a>>
    BY <1>1, <2>3
  <2> QED BY <2>1, <2>2, <2>3
<1>3. CASE f.kind = "words"
  <2>1. Report(f) = <<f>> /\ f \in UpFrame
    BY <1>3 DEF Report, PlayFrame, UpFrame
  <2> QED BY <1>3, <2>1
<1>4. CASE f.kind = "done"
  <2>1. Report(f) = <<f, z>> /\ f \in UpFrame
    BY <1>1, <1>4 DEF Report, PlayFrame, UpFrame
  <2> QED BY <1>1, <1>4, <2>1
<1> QED BY <1>2, <1>3, <1>4 DEF PlayFrame

\* The user's turns and the aggregator keep the types (ContextAggregator.ProcessFrame).
LEMMA LinkAggregator ==
    LinkType /\ StateType /\ (User \/ Aggregator) => LinkType' /\ StateType'
<1> SUFFICES ASSUME LinkType, StateType, User \/ Aggregator
             PROVE  LinkType' /\ StateType'
  OBVIOUS
<1> USE DEF LinkType, StateType, User, Aggregator, UserStep, UpStep, llmVars, pbVars,
            ttsVars, messages
<1>1. ASSUME PushMessages PROVE llmIn' \in Seq(Message) /\ sent' \in Nat
  BY <1>1 DEF PushMessages, Message
<1>2. ASSUME commitSpokenText PROVE committed' \in Seq(Seq(Run)) /\ spokenWords' \in Seq(Run)
  BY <1>2 DEF commitSpokenText
<1>3. CASE AppendAndRun \/ EndToken
  <2>1. \/ PushMessages /\ spokenWords' \in Seq(Run)
        \/ UNCHANGED <<llmIn, sent, spokenWords>>
    <3>1. CASE AppendAndRun
      BY <3>1 DEF AppendAndRun, requestLLM
    <3>2. CASE EndToken
      <4>1. CASE currentTranscript /\ ~(botSpeaking /\ ~interruptSent)
        <5>1. submitUserMessage
          BY <3>2, <4>1 DEF EndToken
        <5>2. <<>> \in Seq(Run)
          OBVIOUS
        <5> QED BY <5>1, <5>2 DEF submitUserMessage, requestLLM
      <4>2. CASE ~(currentTranscript /\ ~(botSpeaking /\ ~interruptSent))
        BY <3>2, <4>2 DEF EndToken
      <4> QED BY <4>1, <4>2
    <3> QED BY <1>3, <3>1, <3>2
  <2>2. UNCHANGED <<committed, toolMessage, tool, calls, ttsIn, up, playbackQueue,
                    ttsCtx, ttsText>>
    BY <1>3 DEF AppendAndRun, EndToken
  <2> QED BY <1>1, <2>1, <2>2
<1>4. CASE BargeIn
  BY <1>2, <1>4 DEF BargeIn
<1>5. CASE Final
  BY <1>5 DEF Final, links
<1>6. ASSUME NEW k, TakeUp(k) PROVE up' \in Seq(UpFrame) /\ ttsIn' = ttsIn
                                    /\ Head(up) \in UpFrame /\ Head(up).kind = k
  BY <1>6 DEF TakeUp
<1>7. CASE addFunctionCallInProgress \/ applyFunctionCallResult
  BY <1>1, <1>6, <1>7 DEF addFunctionCallInProgress, applyFunctionCallResult,
                          requestLLM
<1>8. CASE WordTimestamp
  <2>1. Head(up).run \in Run
    <3>1. PICK h \in UpFrame : h = Head(up) /\ h.kind = "words"
      BY <1>6, <1>8 DEF WordTimestamp
    <3> QED BY <3>1 DEF UpFrame, ToolFrame
  <2> QED BY <1>6, <1>8, <2>1 DEF WordTimestamp
<1>9. CASE TTSDone
  BY <1>2, <1>6, <1>9 DEF TTSDone
<1>10. CASE BotStartedSpeaking \/ BotStoppedSpeaking
  BY <1>6, <1>10 DEF BotStartedSpeaking, BotStoppedSpeaking
<1> QED BY <1>3, <1>4, <1>5, <1>7, <1>8, <1>9, <1>10

\* What the LLM stage pushes to TTS (runLLM).
LEMMA PushType ==
    ASSUME ttsIn \in Seq(Speech), NEW k \in {"start", "text", "rend"}, NEW r \in Run,
           NEW w \in BOOLEAN, PushTTS(k, r, w)
    PROVE  ttsIn' \in Seq(Speech)
<1> DEFINE l == w /\ ttsSys > 0
<1>1. l \in BOOLEAN
  OBVIOUS
<1>2. ttsIn' = Append(ttsIn, [kind |-> k, run |-> r, late |-> l])
  BY DEF PushTTS
<1> HIDE DEF l
<1>3. [kind |-> k, run |-> r, late |-> l] \in Speech
  BY <1>1 DEF Speech
<1>4. PICK f \in Speech : f = [kind |-> k, run |-> r, late |-> l]
  BY <1>3
<1> QED BY <1>2, <1>4

\* The LLM stage keeps the types (llm_processor.go, tool_calls.go).
LEMMA LinkLLM ==
    LinkType /\ StateType /\ LLM => LinkType' /\ StateType'
<1> SUFFICES ASSUME LinkType, StateType, LLM PROVE LinkType' /\ StateType'
  OBVIOUS
<1> USE DEF LinkType, StateType, caVars, messages, pbVars, ttsVars
<1>0. UNCHANGED <<committed, spokenWords, toolMessage, playbackQueue, ttsCtx, ttsText>>
  BY DEF LLM
<1>1. CASE TakeMessages
  BY <1>0, <1>1 DEF TakeMessages
<1>2. CASE Interrupt
  <2>1. /\ UNCHANGED <<calls, tool, sent, ttsIn>> /\ PurgeUp
        /\ \E n \in 0..Len(llmIn) : llmIn' = SubSeq(llmIn, n + 1, Len(llmIn))
    BY <1>2 DEF Interrupt
  <2>2. llmIn' \in Seq(Message)
    BY <2>1
  <2> QED BY <1>0, <2>1, <2>2, UpType
<1>3. ASSUME NEW r \in Run, runLLM(r) PROVE LinkType' /\ StateType'
  <2>1. (r \notin cancelled) \in BOOLEAN
    OBVIOUS
  <2>2. CASE RunStart(r)
    <3>1. PushTTS("start", r, r \notin cancelled)
      BY <2>2 DEF RunStart, RunPush
    <3>2. ttsIn' \in Seq(Speech)
      BY <2>1, <3>1, PushType
    <3> QED BY <1>0, <2>2, <3>2 DEF RunStart
  <2>3. CASE RunToken(r)
    <3>1. PushTTS("text", r, r \notin cancelled)
      BY <2>3 DEF RunToken, RunPush
    <3>2. ttsIn' \in Seq(Speech)
      BY <2>1, <3>1, PushType
    <3> QED BY <1>0, <2>3, <3>2 DEF RunToken
  <2>4. CASE RunCheck(r)
    BY <1>0, <2>4 DEF RunCheck, links
  <2>5. CASE RunEnd(r)
    <3>1. /\ PushTTS("rend", r, r \notin cancelled)
          /\ \E n \in 0..MaxCalls : calls' = [calls EXCEPT ![r] = n]
      BY <2>5 DEF RunEnd, RunPush
    <3>2. ttsIn' \in Seq(Speech)
      BY <2>1, <3>1, PushType
    <3>3. calls' \in [Run -> 0..MaxCalls]
      BY <3>1
    <3> QED BY <1>0, <2>5, <3>2, <3>3 DEF RunEnd
  <2> QED BY <1>3, <2>2, <2>3, <2>4, <2>5 DEF runLLM
<1>4. ASSUME NEW r \in Run, ToolAnnounce(r) PROVE LinkType' /\ StateType'
  <2> DEFINE s == [n \in 1..calls[r] |-> [kind |-> "call", call |-> <<r, n>>]]
  <2>1. calls[r] \in Nat /\ calls[r] <= MaxCalls
    BY LinksAssumption
  <2>2. ASSUME NEW n \in 1..calls[r]
        PROVE  [kind |-> "call", call |-> <<r, n>>] \in UpFrame
    <3>1. <<r, n>> \in Call
      BY <2>1, LinksAssumption DEF Call
    <3> QED BY <3>1 DEF UpFrame, ToolFrame
  <2>3. s \in Seq(UpFrame)
    <3>1. s \in [1..calls[r] -> UpFrame]
      BY <2>2
    <3> HIDE DEF s
    <3>2. PICK n \in Nat : n = calls[r]
      BY <2>1
    <3>3. s \in [1..n -> UpFrame]
      BY <3>1, <3>2
    <3> QED BY <3>3
  <2>4. PushFromLLM(s)
    BY <1>4 DEF ToolAnnounce
  <2> HIDE DEF s
  <2>5. up' \in Seq(UpFrame)
    BY <2>3, <2>4, UpType
  <2> QED BY <1>0, <1>4, <2>5 DEF ToolAnnounce
<1>5. ASSUME NEW r \in Run, ToolCollect(r) PROVE LinkType' /\ StateType'
  <2>1. PICK c \in CallsOf(r) :
           /\ tool' = [tool EXCEPT ![c] = "sent"]
           /\ \E b \in BOOLEAN :
                 PushFromLLM(<<[kind |-> "result", call |-> c, runLLM |-> b]>>)
    BY <1>5 DEF ToolCollect
  <2>2. PICK b \in BOOLEAN :
           PushFromLLM(<<[kind |-> "result", call |-> c, runLLM |-> b]>>)
    BY <2>1
  <2>3. [kind |-> "result", call |-> c, runLLM |-> b] \in UpFrame
    BY DEF CallsOf, UpFrame, ToolFrame
  <2>4. up' \in Seq(UpFrame)
    <3>1. PICK f \in UpFrame : f = [kind |-> "result", call |-> c, runLLM |-> b]
      BY <2>3
    <3>2. PushFromLLM(<<f>>)
      BY <2>2, <3>1, Zenon
    <3>3. <<f>> \in Seq(UpFrame)
      OBVIOUS
    <3> QED BY <3>2, <3>3, UpType
  <2> QED BY <1>0, <1>5, <2>1, <2>4 DEF ToolCollect
<1> QED BY <1>1, <1>2, <1>3, <1>4, <1>5 DEF LLM, LLMStep, executeToolCalls

\* So do the TTS stage and the playback goroutine.
LEMMA LinkSpeech ==
    LinkType /\ StateType /\ (TTSStep \/ Play) => LinkType' /\ StateType'
<1> SUFFICES ASSUME LinkType, StateType, TTSStep \/ Play
             PROVE  LinkType' /\ StateType'
  OBVIOUS
<1> USE DEF LinkType
<1>1. ASSUME NEW s \in Seq(PlayFrame), QueueFrames(s)
      PROVE  playbackQueue' \in Seq(PlayFrame)
  BY <1>1 DEF QueueFrames
<1>2. ASSUME NEW k, TakeTTS(k)
      PROVE  /\ UNCHANGED <<llmIn, sent, up>> /\ StateType'
             /\ ttsIn' \in Seq(Speech) /\ Head(ttsIn) \in Speech
             /\ Head(ttsIn).kind = k
  BY <1>2 DEF TakeTTS, StateType, caVars, messages, llmVars
<1>3. \A f \in Speech : f.kind # "interrupt" => f.run \in Run
  BY DEF Speech
<1>4. \A r \in Run \cup {0} : [kind |-> "done", run |-> r] \in PlayFrame
  BY DEF PlayFrame
<1>5. CASE SpeakStart
  BY <1>2, <1>3, <1>5 DEF SpeakStart, clearTTSState, ResponseStart
<1>6. CASE SpeakText
  BY <1>2, <1>3, <1>6 DEF SpeakText, pbVars
<1>7. CASE SpeakEnd
  <2>1. playbackQueue' \in Seq(PlayFrame)
    <3>1. CASE ttsOwed
      BY <1>7, <3>1 DEF SpeakEnd, pbVars
    <3>2. CASE ~ttsOwed
      <4>1. PICK f \in PlayFrame : f = [kind |-> "done", run |-> ttsCtx]
        BY <1>4
      <4>2. QueueFrames(<<[kind |-> "done", run |-> ttsCtx]>>)
        BY <1>7, <3>2 DEF SpeakEnd
      <4>3. QueueFrames(<<f>>)
        BY <4>1, <4>2, Zenon
      <4>4. <<f>> \in Seq(PlayFrame)
        OBVIOUS
      <4> QED BY <1>1, <4>3, <4>4
    <3> QED BY <3>1, <3>2
  <2> QED BY <1>2, <1>7, <2>1 DEF SpeakEnd
<1>8. CASE SpeakInterrupt
  BY <1>2, <1>8 DEF SpeakInterrupt, clearTTSState, pbVars
<1>9. CASE SpeakAudio
  <2>1. PICK r \in ttsText :
          /\ ttsText' = ttsText \ {r}
          /\ QueueFrames(<<[kind |-> "audio"], [kind |-> "words", run |-> r]>>)
    BY <1>9 DEF SpeakAudio
  <2>2. PICK a \in PlayFrame, w \in PlayFrame :
           a = [kind |-> "audio"] /\ w = [kind |-> "words", run |-> r]
    BY DEF PlayFrame
  <2>3. playbackQueue' \in Seq(PlayFrame)
    <3>1. QueueFrames(<<a, w>>)
      BY <2>1, <2>2, Zenon
    <3>2. <<a, w>> \in Seq(PlayFrame)
      OBVIOUS
    <3> QED BY <1>1, <3>1, <3>2
  <2> QED BY <1>9, <2>1, <2>3
          DEF SpeakAudio, StateType, links, caVars, messages, llmVars
<1>10. CASE SpeakDone
  <2>1. PICK f \in PlayFrame : f = [kind |-> "done", run |-> ttsCtx]
    BY <1>4
  <2>2. playbackQueue' \in Seq(PlayFrame)
    <3>1. QueueFrames(<<[kind |-> "done", run |-> ttsCtx]>>)
      BY <1>10 DEF SpeakDone
    <3>2. QueueFrames(<<f>>)
      BY <2>1, <3>1, Zenon
    <3>3. <<f>> \in Seq(PlayFrame)
      OBVIOUS
    <3> QED BY <1>1, <3>2, <3>3
  <2> QED BY <1>10, <2>2 DEF SpeakDone, StateType, links, caVars, messages, llmVars
<1>11. CASE InterruptTTS
  <2>1. PICK i \in 0..Len(ttsIn) : \E j \in i..Len(ttsIn) :
          ttsIn' = SubSeq(ttsIn, 1, i) \o <<[kind |-> "interrupt"]>>
                     \o SubSeq(ttsIn, j + 1, Len(ttsIn))
    BY <1>11 DEF InterruptTTS
  <2>2. PICK j \in i..Len(ttsIn) :
          ttsIn' = SubSeq(ttsIn, 1, i) \o <<[kind |-> "interrupt"]>>
                     \o SubSeq(ttsIn, j + 1, Len(ttsIn))
    BY <2>1
  <2>3. PICK f \in Speech : f = [kind |-> "interrupt"]
    BY DEF Speech
  <2>4. /\ SubSeq(ttsIn, 1, i) \in Seq(Speech) /\ <<f>> \in Seq(Speech)
        /\ SubSeq(ttsIn, j + 1, Len(ttsIn)) \in Seq(Speech)
    OBVIOUS
  <2>5. ttsIn' \in Seq(Speech)
    BY <2>2, <2>3, <2>4
  <2>6. playbackQueue' = <<>> /\ PurgeUp /\ UNCHANGED <<llmIn, sent, ttsCtx, ttsText>>
    BY <1>11 DEF InterruptTTS, InterruptPlayback, ttsVars
  <2>7. StateType'
    BY <1>11 DEF InterruptTTS, StateType, caVars, messages, llmVars
  <2> QED BY <2>5, <2>6, <2>7, UpType
<1>12. CASE Play
  <2>1. PICK f \in PlayFrame : f = Head(playbackQueue)
    BY <1>12 DEF Play, tick
  <2>2. /\ playbackQueue # <<>> /\ playbackQueue' = Tail(playbackQueue)
        /\ up' = up \o Report(f)
        /\ UNCHANGED <<llmIn, sent, ttsIn, ttsCtx, ttsText>>
    BY <1>12, <2>1 DEF Play, tick, ttsVars
  <2>3. StateType'
    BY <1>12 DEF Play, tick, StateType, caVars, messages, llmVars
  <2> QED BY <2>2, <2>3, ReportType
<1> QED BY <1>5, <1>6, <1>7, <1>8, <1>9, <1>10, <1>11, <1>12 DEF TTSStep

\* The queues and the histories start empty, and every step keeps their types.
LEMMA LinkNext ==
    /\ Init => LinkType /\ StateType
    /\ LinkType /\ StateType /\ [Next]_vars => LinkType' /\ StateType'
<1>1. Init => LinkType /\ StateType
  <2> SUFFICES ASSUME Init PROVE LinkType /\ StateType
    OBVIOUS
  <2>1. /\ <<>> \in Seq(Message) /\ <<>> \in Seq(Speech) /\ <<>> \in Seq(UpFrame)
        /\ <<>> \in Seq(PlayFrame) /\ <<>> \in Seq(Run) /\ <<>> \in Seq(Seq(Run))
    OBVIOUS
  <2> QED
    BY <2>1, LinksAssumption DEF Init, LinksInit, CAInit, LLMInit, PBInit, TTSInit,
                                LinkType, StateType
<1>2. ASSUME LinkType, StateType, UNCHANGED vars PROVE LinkType' /\ StateType'
  BY <1>2 DEF LinkType, StateType, vars, links, caVars, messages, llmVars, pbVars,
              ttsVars
<1> QED
  BY <1>1, <1>2, LinkAggregator, LinkLLM, LinkSpeech DEF Next, Pipeline

----------------------------------------------------------------------------
(* Runs are taken once.                                                    *)

\* Requests reach the LLM stage in the order they were made, each once, so that a
\* run that is started was never started before.
FreshInv ==
    /\ \A r \in Run : run[r] # "none" => r <= sent
    /\ \A i \in DOMAIN llmIn :
          /\ llmIn[i].run <= sent
          /\ \A r \in Run : run[r] # "none" => r < llmIn[i].run
    /\ \A i, j \in DOMAIN llmIn : i < j => llmIn[i].run < llmIn[j].run

\* A run that goes on from one step to the next was started before.
LEMMA FreshFrame ==
    ASSUME FreshInv, UNCHANGED <<llmIn, sent>>,
           \A r \in Run : run'[r] # "none" => run[r] # "none"
    PROVE  FreshInv'
BY DEF FreshInv

\* A request is numbered after those before it (runLLMFromContext).
LEMMA FreshPush ==
    ASSUME LinkType, FreshInv, PushMessages, run' = run
    PROVE  FreshInv'
<1>1. PICK m \in Message :
         llmIn' = Append(llmIn, m) /\ m.run = sent + 1 /\ sent' = sent + 1
  <2>1. [run |-> sent + 1, late |-> llmSys > 0] \in Message
    BY DEF Message, LinkType
  <2>2. PICK m \in Message : m = [run |-> sent + 1, late |-> llmSys > 0]
    BY <2>1
  <2> QED BY <2>2 DEF PushMessages
<1>2. /\ llmIn \in Seq(Message) /\ Len(llmIn) \in Nat /\ sent \in Nat
      /\ DOMAIN llmIn = 1..Len(llmIn) /\ DOMAIN llmIn' = 1..(Len(llmIn) + 1)
      /\ \A i \in 1..Len(llmIn) : llmIn'[i] = llmIn[i] /\ llmIn[i].run \in Nat
      /\ llmIn'[Len(llmIn) + 1] = m
  <2>1. llmIn \in Seq(Message) /\ sent \in Nat
    BY DEF LinkType
  <2>2. /\ Len(llmIn) \in Nat /\ DOMAIN llmIn = 1..Len(llmIn)
        /\ DOMAIN llmIn' = 1..(Len(llmIn) + 1)
        /\ \A i \in 1..Len(llmIn) : llmIn'[i] = llmIn[i] /\ llmIn[i] \in Message
        /\ llmIn'[Len(llmIn) + 1] = m
    BY <1>1, <2>1
  <2>3. \A f \in Message : f.run \in Nat
    BY DEF Message
  <2> QED BY <2>1, <2>2, <2>3
<1>3. \A i \in 1..(Len(llmIn) + 1) : i \in 1..Len(llmIn) \/ i = Len(llmIn) + 1
  BY <1>2
<1>4. \A r \in Run : r \in Nat
  BY LinksAssumption DEF Run
<1>5. \A r \in Run : run'[r] # "none" => r <= sent'
  BY <1>1, <1>2, <1>4 DEF FreshInv
<1>6. ASSUME NEW i \in DOMAIN llmIn'
      PROVE  /\ llmIn'[i].run <= sent'
             /\ \A r \in Run : run'[r] # "none" => r < llmIn'[i].run
  <2>1. CASE i \in 1..Len(llmIn)
    BY <1>1, <1>2, <2>1 DEF FreshInv
  <2>2. CASE i = Len(llmIn) + 1
    BY <1>1, <1>2, <1>4, <2>2 DEF FreshInv
  <2> QED BY <1>2, <1>3, <1>6, <2>1, <2>2
<1>7. ASSUME NEW i \in DOMAIN llmIn', NEW j \in DOMAIN llmIn', i < j
      PROVE  llmIn'[i].run < llmIn'[j].run
  <2>1. i \in 1..Len(llmIn) /\ (j \in 1..Len(llmIn) \/ j = Len(llmIn) + 1)
    BY <1>2, <1>7
  <2>2. llmIn[i].run <= sent /\ llmIn[i].run \in Nat
    BY <1>2, <2>1 DEF FreshInv
  <2> QED BY <1>1, <1>2, <1>7, <2>1, <2>2 DEF FreshInv
<1> QED BY <1>5, <1>6, <1>7 DEF FreshInv

\* The first n requests leave the queue, one of them, or none, to be served.
LEMMA FreshTake ==
    ASSUME LinkType, LiveInv, FreshInv, sent' = sent, NEW n \in 0..Len(llmIn),
           llmIn' = SubSeq(llmIn, n + 1, Len(llmIn)),
           \/ run' = run
           \/ n > 0 /\ run' = [run EXCEPT ![Head(llmIn).run] = "start"]
    PROVE  /\ FreshInv'
           /\ \A r \in Run : run[r] # "none" => run'[r] = run[r]
<1> DEFINE L == Len(llmIn)
<1>1. /\ llmIn \in Seq(Message) /\ L \in Nat /\ sent \in Nat
      /\ DOMAIN llmIn = 1..L
      /\ DOMAIN llmIn' = 1..(L - n)
      /\ \A i \in 1..(L - n) : llmIn'[i] = llmIn[i + n]
  BY DEF LinkType
<1>2. \A i \in 1..L : llmIn[i].run \in Nat
  <2>1. \A i \in 1..L : llmIn[i] \in Message
    BY <1>1
  <2>2. \A f \in Message : f.run \in Nat
    BY DEF Message
  <2> QED BY <2>1, <2>2
<1>3. \A r \in Run : r \in Nat
  BY LinksAssumption DEF Run
<1>4. \A i \in 1..(L - n) : i + n \in 1..L
  BY <1>1
<1>5. CASE run' = run
  <2> HIDE DEF L
  <2>1. \A i, j \in 1..(L - n) : i < j => i + n < j + n
    BY <1>1
  <2>2. ASSUME NEW i \in 1..(L - n)
        PROVE  /\ llmIn'[i].run <= sent
               /\ \A r \in Run : run[r] # "none" => r < llmIn'[i].run
    BY <1>1, <1>4, Zenon DEF FreshInv
  <2>3. ASSUME NEW i \in 1..(L - n), NEW j \in 1..(L - n), i < j
        PROVE  llmIn'[i].run < llmIn'[j].run
    <3>1. i + n < j + n /\ i + n \in 1..L /\ j + n \in 1..L
      BY <1>4, <2>1, <2>3
    <3>2. llmIn[i + n].run < llmIn[j + n].run
      BY <1>1, <3>1, Zenon DEF FreshInv
    <3> QED BY <1>1, <3>2
  <2> QED BY <1>1, <1>5, <2>2, <2>3 DEF FreshInv
<1>6. CASE n > 0 /\ run' = [run EXCEPT ![Head(llmIn).run] = "start"]
  <2> DEFINE m == Head(llmIn).run
  <2>1. m = llmIn[1].run /\ 1 \in 1..L /\ m \in Nat
    BY <1>1, <1>2, <1>6
  <2>2. m <= sent /\ \A r \in Run : run[r] # "none" => r < m
    BY <1>1, <2>1 DEF FreshInv
  <2>3. \A i \in 1..(L - n) : m < llmIn'[i].run
    <3>1. \A i \in 1..(L - n) : 1 < i + n
      BY <1>1, <1>6
    <3> QED BY <1>1, <1>4, <2>1, <3>1 DEF FreshInv
  <2>4. \A r \in Run : run'[r] # "none" => r <= m
    <3> HIDE DEF m
    <3> QED BY <1>3, <1>6, <2>1, <2>2 DEF LiveInv, m
  <2>5. \A r \in Run : run[r] # "none" => run'[r] = run[r]
    <3>1. \A r \in Run : run[r] # "none" => r # m
      BY <1>3, <2>1, <2>2
    <3> QED BY <1>6, <3>1 DEF LiveInv
  <2> HIDE DEF m
  <2>6. \A r \in Run : run'[r] # "none" => r <= sent
    BY <1>1, <1>3, <2>1, <2>2, <2>4
  <2>7. ASSUME NEW i \in 1..(L - n)
        PROVE  /\ llmIn'[i].run <= sent
               /\ \A r \in Run : run'[r] # "none" => r < llmIn'[i].run
    <3>1. llmIn'[i].run \in Nat /\ m < llmIn'[i].run /\ llmIn'[i].run <= sent
      BY <1>1, <1>2, <1>4, <2>3, <2>7 DEF FreshInv
    <3> QED BY <1>3, <2>1, <2>4, <3>1
  <2>8. ASSUME NEW i \in 1..(L - n), NEW j \in 1..(L - n), i < j
        PROVE  llmIn'[i].run < llmIn'[j].run
    <3>1. i + n < j + n
      BY <1>1, <2>8
    <3> HIDE DEF L
    <3>2. i + n \in 1..L /\ j + n \in 1..L
      BY <1>4
    <3>3. llmIn[i + n].run < llmIn[j + n].run
      BY <1>1, <3>1, <3>2, Zenon DEF FreshInv
    <3> QED BY <1>1, <3>3
  <2> QED BY <1>1, <2>5, <2>6, <2>7, <2>8 DEF FreshInv
<1> QED BY <1>5, <1>6

\* What a step of the LLM stage does to the runs and to its queue.
LEMMA FreshLLM ==
    LinkType /\ LiveInv /\ FreshInv /\ LLM =>
      /\ FreshInv'
      /\ \A r \in Run : run[r] \in {"tools", "done"} => run'[r] \in {"tools", "done"}
      /\ \A r \in Run : run[r] \notin {"none", "start", "stream"}
                          => run'[r] \notin {"none", "start", "stream"}
<1> SUFFICES ASSUME LinkType, LiveInv, FreshInv, LLM
             PROVE  /\ FreshInv'
                    /\ \A r \in Run : run[r] \in {"tools", "done"}
                                        => run'[r] \in {"tools", "done"}
                    /\ \A r \in Run : run[r] \notin {"none", "start", "stream"}
                                        => run'[r] \notin {"none", "start", "stream"}
  OBVIOUS
<1>1. CASE TakeMessages
  <2>1. 1 \in 0..Len(llmIn) /\ llmIn' = SubSeq(llmIn, 1 + 1, Len(llmIn))
    BY <1>1 DEF TakeMessages, LinkType
  <2> QED BY <1>1, <2>1, FreshTake DEF TakeMessages
<1>2. CASE Interrupt
  <2>1. PICK n \in 0..Len(llmIn) :
          /\ llmIn' = SubSeq(llmIn, n + 1, Len(llmIn))
          /\ \/ run' = run
             \/ n > 0 /\ run' = [run EXCEPT ![Head(llmIn).run] = "start"]
    BY <1>2 DEF Interrupt
  <2>2. sent' = sent
    BY <1>2 DEF Interrupt
  <2> QED BY <2>1, <2>2, FreshTake
<1>3. ASSUME NEW r \in Run, runLLM(r)
      PROVE  /\ UNCHANGED <<llmIn, sent>>
             /\ \/ run[r] = "start" /\ run' = [run EXCEPT ![r] = "stream"]
                \/ run[r] = "start" /\ run' = [run EXCEPT ![r] = "streamed"]
                \/ run[r] = "stream" /\ run' = [run EXCEPT ![r] = "streamed"]
                \/ run[r] \in {"stream", "streamed"} /\ run' = [run EXCEPT ![r] = "done"]
                \/ run[r] \in {"stream", "streamed"} /\ run' = [run EXCEPT ![r] = "rend"]
                \/ run[r] = "rend" /\ run' = [run EXCEPT ![r] = "done"]
                \/ run[r] = "rend" /\ run' = [run EXCEPT ![r] = "tools"]
  BY <1>3 DEF runLLM, RunStart, RunToken, RunCheck, RunEnd, RunPush, links
<1>4. ASSUME NEW r \in Run, executeToolCalls(r)
      PROVE  /\ UNCHANGED <<llmIn, sent>>
             /\ \/ run' = run
                \/ run[r] = "tools" /\ run' = [run EXCEPT ![r] = "done"]
  BY <1>4 DEF executeToolCalls, ToolAnnounce, ToolCollect
<1>5. ASSUME NEW r \in Run, runLLM(r) \/ executeToolCalls(r)
      PROVE  /\ UNCHANGED <<llmIn, sent>>
             /\ \A q \in Run : run'[q] # "none" => run[q] # "none"
             /\ \A q \in Run : run[q] \in {"tools", "done"}
                                 => run'[q] \in {"tools", "done"}
             /\ \A q \in Run : run[q] \notin {"none", "start", "stream"}
                                 => run'[q] \notin {"none", "start", "stream"}
  BY <1>3, <1>4, <1>5 DEF LiveInv
<1>6. CASE \E r \in Run : runLLM(r) \/ executeToolCalls(r)
  BY <1>5, <1>6, FreshFrame
<1> QED BY <1>1, <1>2, <1>6 DEF LLM, LLMStep

\* Every step preserves FreshInv.
LEMMA FreshNext ==
    /\ Init => FreshInv
    /\ LinkType /\ LiveInv /\ FreshInv /\ [Next]_vars => FreshInv'
<1>1. Init => FreshInv
  BY DEF Init, LinksInit, LLMInit, FreshInv
<1>2. ASSUME LinkType, LiveInv, FreshInv, [Next]_vars PROVE FreshInv'
  <2>1. CASE User \/ Aggregator
    <3>1. run' = run
      BY <2>1 DEF User, Aggregator, llmVars
    <3>2. PushMessages \/ UNCHANGED <<llmIn, sent>>
      BY <2>1 DEF User, UserStep, AppendAndRun, BargeIn, Final, EndToken,
         submitUserMessage, requestLLM, Aggregator, UpStep, links,
         addFunctionCallInProgress, applyFunctionCallResult, WordTimestamp,
         TTSDone, BotStartedSpeaking, BotStoppedSpeaking
    <3> QED BY <1>2, <3>1, <3>2, FreshPush, FreshFrame
  <2>2. CASE TTSStep \/ Play \/ UNCHANGED vars
    <3>1. UNCHANGED <<run, llmIn, sent>>
      BY <2>2 DEF TTSStep, SpeakStart, SpeakText, SpeakEnd, SpeakInterrupt, vars,
         SpeakAudio, SpeakDone, InterruptTTS, TakeTTS, Play, tick, llmVars, links
    <3> QED BY <1>2, <3>1, FreshFrame
  <2> QED BY <1>2, <2>1, <2>2, FreshLLM DEF Next, Pipeline
<1> QED BY <1>1, <1>2

----------------------------------------------------------------------------
(* Tool calls on their way into the history.                               *)

Tools(s) == {f \in Elems(s) : f.kind \in {"call", "result"}}

\* Each frame of a tool call is in the queue once.
FramesOnce ==
    \A f, g \in Tools(up) :
        f.kind = g.kind /\ f.call = g.call => f = g /\ ~Before(up, f, g)

\* An announcement finds its call started and not yet in the history.
CallFrames ==
    \A f \in Tools(up) : f.kind = "call" =>
        tool[f.call] # "none" /\ toolMessage[f.call] = "none"

\* A result finds its call announced, by the history or by a frame ahead of it.
ResultFrames ==
    \A f \in Tools(up) : f.kind = "result" =>
        /\ tool[f.call] = "sent"
        /\ \/ toolMessage[f.call] = "IN_PROGRESS"
           \/ /\ toolMessage[f.call] = "none"
              /\ \E g \in Tools(up) :
                   g.kind = "call" /\ g.call = f.call /\ Before(up, g, f)

\* A result that asks for a rerun is behind all the others of its response.
RerunFrames ==
    \A f \in Tools(up) : f.kind = "result" /\ f.runLLM =>
        \A c \in CallsOf(f.call[1]) \ {f.call} :
           \/ toolMessage[c] = "result"
           \/ \E g \in Tools(up) :
                g.kind = "result" /\ g.call = c /\ Before(up, g, f)

\* What became of a tool call is told by its handler, its frames and its message.
HandlerState ==
    \A c \in Call :
        /\ tool[c] = "none" => toolMessage[c] = "none"
        /\ tool[c] = "running" =>
              \/ toolMessage[c] = "IN_PROGRESS"
              \/ /\ toolMessage[c] = "none"
                 /\ \E f \in Tools(up) : f.kind = "call" /\ f.call = c
        /\ tool[c] = "sent" =>
              \/ toolMessage[c] = "result"
              \/ \E f \in Tools(up) : f.kind = "result" /\ f.call = c
        /\ tool[c] # "none" =>
              run[c[1]] \in {"tools", "done"} /\ c[2] <= calls[c[1]]

ToolInv == FramesOnce /\ CallFrames /\ ResultFrames /\ RerunFrames /\ HandlerState

\* v holds the same tool call frames as u, in the same order.
SameTools(u, v) ==
    /\ Tools(v) = Tools(u)
    /\ \A f, g \in Tools(u) : Before(v, f, g) <=> Before(u, f, g)

\* An interrupt purges no frame of a tool call: they are not interruptible.
LEMMA PurgeSpares ==
    ASSUME up \in Seq(UpFrame), PurgeUp
    PROVE  SameTools(up, up')
<1>0. PICK i \in 0..Len(up) : \E j \in i..Len(up) :
         up' = Kept(up, {n \in DOMAIN up : \/ n <= i \/ n > j
                                           \/ up[n].kind \in {"call", "result"}})
  BY DEF PurgeUp
<1>1. PICK j \in i..Len(up) :
         up' = Kept(up, {n \in DOMAIN up : \/ n <= i \/ n > j
                                           \/ up[n].kind \in {"call", "result"}})
  BY <1>0
<1> DEFINE N == {n \in DOMAIN up : \/ n <= i \/ n > j
                                   \/ up[n].kind \in {"call", "result"}}
<1>2. /\ N \in SUBSET DOMAIN up /\ DOMAIN up \subseteq Nat
      /\ \A n \in DOMAIN up : up[n].kind \in {"call", "result"} => n \in N
  OBVIOUS
<1> HIDE DEF N
<1>3. up' \in Seq(UpFrame) /\ Embedded(up', up, N)
  BY <1>1, <1>2, KeptInOrder DEF N
<1>4. PICK h \in [DOMAIN up' -> N] :
        /\ \A k, l \in DOMAIN up' : k < l => h[k] < h[l]
        /\ \A n \in N : \E k \in DOMAIN up' : h[k] = n
        /\ \A k \in DOMAIN up' : up'[k] = up[h[k]]
  BY <1>3 DEF Embedded
<1>5. DOMAIN up' \subseteq Nat
  BY <1>3
<1>6. Tools(up') = Tools(up)
  <2>1. ASSUME NEW k \in DOMAIN up' PROVE up'[k] \in Elems(up)
    BY <1>2, <1>4 DEF Elems
  <2>2. ASSUME NEW n \in DOMAIN up, up[n].kind \in {"call", "result"}
        PROVE  up[n] \in Elems(up')
    BY <1>2, <1>4, <2>2 DEF Elems
  <2> QED BY <2>1, <2>2 DEF Tools, Elems
<1>7. ASSUME NEW f \in Tools(up), NEW g \in Tools(up), Before(up, f, g)
      PROVE  Before(up', f, g)
  <2>1. PICK m \in DOMAIN up, n \in DOMAIN up : m < n /\ up[m] = f /\ up[n] = g
    BY <1>7 DEF Before
  <2>2. m \in N /\ n \in N
    BY <1>2, <2>1 DEF Tools
  <2>3. PICK k \in DOMAIN up', l \in DOMAIN up' : h[k] = m /\ h[l] = n
    BY <1>4, <2>2
  <2>4. ~(l < k) /\ l # k
    BY <1>2, <1>4, <2>1, <2>3
  <2> QED BY <1>4, <1>5, <2>1, <2>3, <2>4 DEF Before
<1>8. ASSUME NEW f \in Tools(up), NEW g \in Tools(up), Before(up', f, g)
      PROVE  Before(up, f, g)
  BY <1>2, <1>4, <1>8 DEF Before
<1> QED BY <1>6, <1>7, <1>8 DEF SameTools

\* v is u with s put in behind its first i elements.
Inserted(v, u, i, s) ==
    /\ i \in 0..Len(u)
    /\ DOMAIN v = 1..(Len(u) + Len(s))
    /\ \A n \in 1..i : v[n] = u[n]
    /\ \A n \in 1..Len(s) : v[i + n] = s[n]
    /\ \A n \in (i + 1)..Len(u) : v[Len(s) + n] = u[n]

\* Putting frames in behind the tool calls' frames keeps those and their order and
\* puts the new ones after them (executeToolCalls pushes in one goroutine's order).
LEMMA InsertBehind ==
    ASSUME NEW S, NEW u \in Seq(S), NEW s \in Seq(S), NEW v, NEW i \in Nat,
           Inserted(v, u, i, s),
           \A n \in (i + 1)..Len(u) : u[n].kind \notin {"call", "result"}
    PROVE  /\ Tools(v) = Tools(u) \cup Tools(s)
           /\ \A f, g \in Tools(v) :
                Before(v, f, g) <=> \/ Before(u, f, g) \/ Before(s, f, g)
                                    \/ f \in Tools(u) /\ g \in Tools(s)
<1> DEFINE L == Len(u)
           K == Len(s)
<1>1. /\ L \in Nat /\ K \in Nat /\ i \in 0..L
      /\ DOMAIN u = 1..L /\ DOMAIN s = 1..K /\ DOMAIN v = 1..(L + K)
      /\ \A n \in 1..i : v[n] = u[n]
      /\ \A n \in 1..K : v[i + n] = s[n]
      /\ \A n \in (i + 1)..L : v[K + n] = u[n]
  BY DEF Inserted
<1> HIDE DEF L, K
<1>2. ASSUME NEW n \in 1..(L + K)
      PROVE  \/ n \in 1..i /\ v[n] = u[n]
             \/ \E m \in 1..K : n = i + m /\ v[n] = s[m]
             \/ \E m \in (i + 1)..L : n = K + m /\ v[n] = u[m]
  <2>1. n \in 1..i \/ n - i \in 1..K \/ n - K \in (i + 1)..L
    BY <1>1
  <2>2. n = i + (n - i) /\ n = K + (n - K)
    BY <1>1
  <2> QED BY <1>1, <2>1, <2>2
<1>3. \A n \in 1..L : u[n].kind \in {"call", "result"} => n \in 1..i
  BY <1>1 DEF L
<1>4. ASSUME NEW n \in 1..(L + K), v[n].kind \in {"call", "result"}
      PROVE  \/ n \in 1..i /\ v[n] = u[n] /\ n \in 1..L
             \/ \E m \in 1..K : n = i + m /\ v[n] = s[m]
  <2>1. \A m \in (i + 1)..L : m \in 1..L /\ m \notin 1..i
    BY <1>1
  <2>2. n \in 1..i => n \in 1..L
    BY <1>1
  <2> QED BY <1>2, <1>3, <1>4, <2>1, <2>2
<1>5. /\ \A n \in 1..i : n \in 1..(L + K) /\ n \in 1..L
      /\ \A n \in 1..K : i + n \in 1..(L + K)
      /\ \A n \in 1..i : \A m \in 1..K : n < i + m
      /\ \A n, m \in 1..K : n < m <=> i + n < i + m
      /\ \A n \in 1..i : \A m \in 1..K : ~(i + m < n)
  BY <1>1
<1>6. Tools(v) = Tools(u) \cup Tools(s)
  <2>1. ASSUME NEW n \in 1..(L + K), v[n].kind \in {"call", "result"}
        PROVE  v[n] \in Tools(u) \cup Tools(s)
    BY <1>1, <1>4, <2>1 DEF Tools, Elems
  <2>2. ASSUME NEW n \in 1..L, u[n].kind \in {"call", "result"}
        PROVE  u[n] \in Tools(v)
    BY <1>1, <1>3, <1>5, <2>2 DEF Tools, Elems
  <2>3. ASSUME NEW n \in 1..K, s[n].kind \in {"call", "result"}
        PROVE  s[n] \in Tools(v)
    BY <1>1, <1>5, <2>3 DEF Tools, Elems
  <2>4. ASSUME NEW f \in Tools(v) PROVE f \in Tools(u) \cup Tools(s)
    <3>1. PICK n \in 1..(L + K) : f = v[n] /\ v[n].kind \in {"call", "result"}
      BY <1>1, <2>4 DEF Tools, Elems
    <3> QED BY <2>1, <3>1
  <2>5. ASSUME NEW f \in Tools(u) PROVE f \in Tools(v)
    <3>1. PICK n \in 1..L : f = u[n] /\ u[n].kind \in {"call", "result"}
      BY <1>1, <2>5 DEF Tools, Elems
    <3> QED BY <2>2, <3>1
  <2>6. ASSUME NEW f \in Tools(s) PROVE f \in Tools(v)
    <3>1. PICK n \in 1..K : f = s[n] /\ s[n].kind \in {"call", "result"}
      BY <1>1, <2>6 DEF Tools, Elems
    <3> QED BY <2>3, <3>1
  <2> QED BY <2>4, <2>5, <2>6
<1>7. ASSUME NEW f \in Tools(v), NEW g \in Tools(v), Before(v, f, g)
      PROVE  \/ Before(u, f, g) \/ Before(s, f, g)
             \/ f \in Tools(u) /\ g \in Tools(s)
  <2>1. PICK n \in 1..(L + K), m \in 1..(L + K) : n < m /\ v[n] = f /\ v[m] = g
    BY <1>1, <1>7 DEF Before
  <2>2. f.kind \in {"call", "result"} /\ g.kind \in {"call", "result"}
    BY DEF Tools
  <2>3. \/ n \in 1..i /\ f = u[n] /\ n \in 1..L
        \/ \E k \in 1..K : n = i + k /\ f = s[k]
    BY <1>4, <2>1, <2>2
  <2>4. \/ m \in 1..i /\ g = u[m] /\ m \in 1..L
        \/ \E k \in 1..K : m = i + k /\ g = s[k]
    BY <1>4, <2>1, <2>2
  <2>5. CASE n \in 1..i /\ f = u[n] /\ n \in 1..L
    <3>1. CASE m \in 1..i /\ g = u[m] /\ m \in 1..L
      BY <1>1, <2>1, <2>5, <3>1 DEF Before
    <3>2. CASE \E k \in 1..K : m = i + k /\ g = s[k]
      BY <1>1, <2>2, <2>5, <3>2 DEF Tools, Elems
    <3> QED BY <2>4, <3>1, <3>2
  <2>6. CASE \E k \in 1..K : n = i + k /\ f = s[k]
    <3>1. PICK k \in 1..K : n = i + k /\ f = s[k]
      BY <2>6
    <3>2. PICK l \in 1..K : m = i + l /\ g = s[l]
      BY <1>5, <2>1, <2>4, <3>1
    <3>3. k < l
      BY <1>5, <2>1, <3>1, <3>2
    <3> QED BY <1>1, <3>1, <3>2, <3>3 DEF Before
  <2> QED BY <2>3, <2>5, <2>6
<1>8. ASSUME NEW f \in Tools(v), NEW g \in Tools(v), Before(u, f, g)
      PROVE  Before(v, f, g)
  <2>1. PICK n \in 1..L, m \in 1..L : n < m /\ u[n] = f /\ u[m] = g
    BY <1>1, <1>8 DEF Before
  <2>2. n \in 1..i /\ m \in 1..i
    BY <1>3, <2>1 DEF Tools
  <2> QED BY <1>1, <1>5, <2>1, <2>2 DEF Before
<1>9. ASSUME NEW f \in Tools(v), NEW g \in Tools(v), Before(s, f, g)
      PROVE  Before(v, f, g)
  <2>1. PICK n \in 1..K, m \in 1..K : n < m /\ s[n] = f /\ s[m] = g
    BY <1>1, <1>9 DEF Before
  <2> QED BY <1>1, <1>5, <2>1 DEF Before
<1>10. ASSUME NEW f \in Tools(u), NEW g \in Tools(s)
       PROVE  Before(v, f, g)
  <2>1. PICK n \in 1..L : u[n] = f /\ f.kind \in {"call", "result"}
    BY <1>1 DEF Tools, Elems
  <2>2. PICK m \in 1..K : s[m] = g
    BY <1>1 DEF Tools, Elems
  <2>3. n \in 1..i
    BY <1>3, <2>1
  <2> QED BY <1>1, <1>5, <2>1, <2>2, <2>3 DEF Before
<1> QED BY <1>6, <1>7, <1>8, <1>9, <1>10
\* The aggregator takes frames in order: what it has not taken keeps its order.
LEMMA TakenFirst ==
    ASSUME NEW S, NEW u \in Seq(S), u # <<>>
    PROVE  /\ Tools(Tail(u)) \subseteq Tools(u)
           /\ \A f \in Tools(u) : f = Head(u) \/ f \in Tools(Tail(u))
           /\ \A f, g : Before(Tail(u), f, g) => Before(u, f, g)
           /\ \A f, g : Before(u, f, g) /\ f # Head(u) => Before(Tail(u), f, g)
           /\ ~Before(u, Head(u), Head(u)) =>
                 Head(u) \notin Tools(Tail(u)) /\ \A f : ~Before(u, f, Head(u))
<1> DEFINE L == Len(u)
           t == Tail(u)
<1>1. /\ L \in Nat /\ L > 0 /\ DOMAIN u = 1..L /\ DOMAIN t = 1..(L - 1)
      /\ Head(u) = u[1]
      /\ \A n \in 1..(L - 1) : t[n] = u[n + 1]
  OBVIOUS
<1> HIDE DEF L, t
<1>2. /\ \A n \in 1..(L - 1) : n + 1 \in 1..L /\ 1 < n + 1
      /\ \A n \in 1..L : n = 1 \/ (n - 1 \in 1..(L - 1) /\ (n - 1) + 1 = n /\ 1 < n)
      /\ 1 \in 1..L
      /\ \A n, m \in 1..(L - 1) : n < m <=> n + 1 < m + 1
      /\ \A n, m \in 1..L : n < m => m # 1
  BY <1>1
<1>3. ASSUME NEW f \in Tools(t) PROVE f \in Tools(u)
  <2>1. PICK n \in 1..(L - 1) : f = t[n] /\ f.kind \in {"call", "result"}
    BY <1>1, <1>3 DEF Tools, Elems
  <2>2. f = u[n + 1] /\ n + 1 \in DOMAIN u
    BY <1>1, <1>2, <2>1
  <2> QED BY <2>1, <2>2 DEF Tools, Elems
<1>4. ASSUME NEW f \in Tools(u), f # Head(u) PROVE f \in Tools(t)
  <2>1. PICK n \in 1..L : f = u[n] /\ f.kind \in {"call", "result"}
    BY <1>1, <1>4 DEF Tools, Elems
  <2>2. n - 1 \in 1..(L - 1) /\ (n - 1) + 1 = n
    BY <1>1, <1>2, <1>4, <2>1
  <2>3. f = t[n - 1]
    BY <1>1, <2>1, <2>2
  <2> QED BY <1>1, <2>1, <2>2, <2>3 DEF Tools, Elems
<1>5. ASSUME NEW f, NEW g, Before(t, f, g) PROVE Before(u, f, g)
  <2>1. PICK n \in 1..(L - 1), m \in 1..(L - 1) : n < m /\ t[n] = f /\ t[m] = g
    BY <1>1, <1>5 DEF Before
  <2>2. /\ n + 1 \in DOMAIN u /\ m + 1 \in DOMAIN u /\ n + 1 < m + 1
        /\ u[n + 1] = f /\ u[m + 1] = g
    BY <1>1, <1>2, <2>1
  <2> QED BY <2>2 DEF Before
<1>6. ASSUME NEW f, NEW g, Before(u, f, g), f # Head(u) PROVE Before(t, f, g)
  <2>1. PICK n \in 1..L, m \in 1..L : n < m /\ u[n] = f /\ u[m] = g
    BY <1>1, <1>6 DEF Before
  <2>2. /\ n - 1 \in 1..(L - 1) /\ (n - 1) + 1 = n
        /\ m - 1 \in 1..(L - 1) /\ (m - 1) + 1 = m
    BY <1>1, <1>2, <1>6, <2>1
  <2>3. n - 1 < m - 1 /\ t[n - 1] = f /\ t[m - 1] = g
    BY <1>1, <1>2, <2>1, <2>2
  <2> QED BY <1>1, <2>2, <2>3 DEF Before
<1>7. ASSUME Head(u) \in Tools(t) PROVE Before(u, Head(u), Head(u))
  <2>1. PICK n \in 1..(L - 1) : Head(u) = t[n]
    BY <1>1, <1>7 DEF Tools, Elems
  <2> QED BY <1>1, <1>2, <2>1 DEF Before
<1>8. ASSUME NEW f, Before(u, f, Head(u)) PROVE Before(u, Head(u), Head(u))
  <2>1. PICK n \in 1..L, m \in 1..L : n < m /\ u[m] = Head(u)
    BY <1>1, <1>8 DEF Before
  <2>2. 1 < m
    BY <1>2, <2>1
  <2> QED BY <1>1, <1>2, <2>1, <2>2 DEF Before
<1> QED BY <1>3, <1>4, <1>5, <1>6, <1>7, <1>8 DEF t
\* Frames in front of which no tool call's frame goes and that are none themselves do
\* not matter to the tool calls (tick pushes at the end).
LEMMA AppendSpares ==
    ASSUME NEW S, NEW u \in Seq(S), NEW s \in Seq(S),
           \A n \in DOMAIN s : s[n].kind \notin {"call", "result"}
    PROVE  SameTools(u, u \o s)
<1>1. Inserted(u \o s, u, Len(u), s)
  BY DEF Inserted
<1>2. Tools(s) = {}
  BY DEF Tools, Elems
<1>3. ASSUME NEW f \in Tools(u), NEW g \in Tools(u) PROVE ~Before(s, f, g)
  BY <1>3 DEF Before, Tools
<1>4. \A n \in (Len(u) + 1)..Len(u) : FALSE
  OBVIOUS
<1>5. Len(u) \in Nat
  OBVIOUS
<1> DEFINE v == u \o s
<1>6. Inserted(v, u, Len(u), s)
  BY <1>1
<1> HIDE DEF v
<1>7. /\ Tools(v) = Tools(u) \cup Tools(s)
      /\ \A f, g \in Tools(v) :
           Before(v, f, g) <=> \/ Before(u, f, g) \/ Before(s, f, g)
                               \/ f \in Tools(u) /\ g \in Tools(s)
  BY <1>4, <1>5, <1>6, InsertBehind
<1>8. SameTools(u, v)
  BY <1>2, <1>3, <1>7 DEF SameTools
<1> QED BY <1>8 DEF v

\* Taking a frame that belongs to no tool call does not matter to them.
LEMMA TailSpares ==
    ASSUME NEW S, NEW u \in Seq(S), u # <<>>,
           Head(u).kind \notin {"call", "result"}
    PROVE  SameTools(u, Tail(u))
<1>1. \A f \in Tools(u) : f # Head(u)
  BY DEF Tools
<1> QED BY <1>1, TakenFirst DEF SameTools

\* A tool call is only of a response that is running its tools, or has run them: as
\* long as those go on and neither frames nor messages nor handlers move, ToolInv is
\* kept.
LEMMA ToolFrames ==
    ASSUME ToolInv, LinkType, SameTools(up, up'), UNCHANGED <<tool, toolMessage>>,
           \A r \in Run : run[r] \in {"tools", "done"} =>
              run'[r] \in {"tools", "done"} /\ calls'[r] = calls[r]
    PROVE  ToolInv'
<1>0. \A f \in Tools(up) : f.call \in Call
  <2>1. \A f \in Tools(up) : f \in UpFrame /\ f.kind \in {"call", "result"}
    BY DEF Tools, Elems, LinkType
  <2>2. \A f \in UpFrame : f.kind \in {"call", "result"} => f.call \in Call
    BY DEF UpFrame, ToolFrame
  <2> QED BY <2>1, <2>2
<1>1. \A c \in Call : c[1] \in Run
  BY DEF Call
<1>2. /\ Tools(up') = Tools(up)
      /\ \A f, g \in Tools(up) : Before(up', f, g) <=> Before(up, f, g)
  BY DEF SameTools
<1>3. FramesOnce' /\ CallFrames' /\ ResultFrames'
  BY <1>2 DEF ToolInv, FramesOnce, CallFrames, ResultFrames
<1>4. HandlerState'
  BY <1>1, <1>2 DEF ToolInv, HandlerState
<1>5. ASSUME NEW f \in Tools(up), f.kind = "result"
      PROVE  CallsOf(f.call[1])' = CallsOf(f.call[1])
  <2>1. f.call \in Call /\ f.call[1] \in Run
    BY <1>0, <1>1
  <2>2. run[f.call[1]] \in {"tools", "done"}
    BY <1>5, <2>1 DEF ToolInv, ResultFrames, HandlerState
  <2> QED BY <2>1, <2>2 DEF CallsOf
<1>6. RerunFrames'
  BY <1>2, <1>5 DEF ToolInv, RerunFrames
<1> QED BY <1>3, <1>4, <1>6 DEF ToolInv
\* PushFromLLM(s) puts s somewhere behind the tool calls' frames on their way up.
LEMMA PushInserts ==
    ASSUME up \in Seq(UpFrame), NEW s \in Seq(UpFrame), PushFromLLM(s)
    PROVE  \E i \in Nat :
             /\ Inserted(up', up, i, s)
             /\ \A n \in (i + 1)..Len(up) : up[n].kind \notin {"call", "result"}
<1>1. PICK i \in 0..Len(up) :
        /\ \A n \in (i + 1)..Len(up) : up[n].kind \notin {"call", "result"}
        /\ up' = SubSeq(up, 1, i) \o s \o SubSeq(up, i + 1, Len(up))
  BY DEF PushFromLLM
<1>2. Len(up) \in Nat /\ i \in Nat /\ Len(s) \in Nat
  OBVIOUS
<1>3. Inserted(up', up, i, s)
  <2> DEFINE a == SubSeq(up, 1, i)
             z == SubSeq(up, i + 1, Len(up))
  <2>1. /\ a \in Seq(UpFrame) /\ Len(a) = i
        /\ \A n \in 1..i : a[n] = up[n]
    BY <1>2
  <2>2. /\ z \in Seq(UpFrame) /\ Len(z) = Len(up) - i
        /\ \A n \in 1..(Len(up) - i) : z[n] = up[i + n]
    BY <1>2
  <2>3. up' = (a \o s) \o z
    BY <1>1
  <2> HIDE DEF a, z
  <2> DEFINE b == a \o s
  <2>4. /\ b \in Seq(UpFrame) /\ Len(b) = i + Len(s)
        /\ \A n \in 1..i : b[n] = up[n]
        /\ \A n \in 1..Len(s) : b[i + n] = s[n]
    BY <1>2, <2>1
  <2>5. up' = b \o z
    BY <2>3
  <2> HIDE DEF b
  <2>6. /\ up' \in Seq(UpFrame) /\ Len(up') = Len(up) + Len(s)
        /\ \A n \in 1..(i + Len(s)) : up'[n] = b[n]
        /\ \A n \in 1..(Len(up) - i) : up'[i + Len(s) + n] = z[n]
    <3>1. b \in Seq(UpFrame) /\ z \in Seq(UpFrame)
      BY <2>2, <2>4
    <3>2. /\ b \o z \in Seq(UpFrame) /\ Len(b \o z) = Len(b) + Len(z)
          /\ \A n \in 1..Len(b) : (b \o z)[n] = b[n]
          /\ \A n \in 1..Len(z) : (b \o z)[Len(b) + n] = z[n]
      BY <3>1
    <3>3. Len(b) = i + Len(s) /\ Len(z) = Len(up) - i
      BY <2>2, <2>4
    <3>4. Len(b) + Len(z) = Len(up) + Len(s)
      BY <1>2, <3>3
    <3> QED BY <2>5, <3>2, <3>3, <3>4, Zenon
  <2>7. \A n \in 1..i : up'[n] = up[n]
    <3>1. \A n \in 1..i : n \in 1..(i + Len(s))
      BY <1>2
    <3> QED BY <2>4, <2>6, <3>1
  <2>8. \A n \in 1..Len(s) : up'[i + n] = s[n]
    <3>1. \A n \in 1..Len(s) : i + n \in 1..(i + Len(s))
      BY <1>2
    <3> QED BY <2>4, <2>6, <3>1
  <2>9. ASSUME NEW n \in (i + 1)..Len(up) PROVE up'[Len(s) + n] = up[n]
    <3>1. n - i \in 1..(Len(up) - i) /\ i + Len(s) + (n - i) = Len(s) + n
          /\ i + (n - i) = n
      BY <1>2
    <3>2. up'[i + Len(s) + (n - i)] = z[n - i] /\ z[n - i] = up[i + (n - i)]
      BY <2>2, <2>6, <3>1
    <3> QED BY <3>1, <3>2
  <2>10. DOMAIN up' = 1..(Len(up) + Len(s))
    BY <2>6
  <2> QED BY <2>7, <2>8, <2>9, <2>10 DEF Inserted
<1> QED BY <1>1, <1>2, <1>3

\* What that does to the frames of tool calls.
LEMMA PushBehind ==
    ASSUME up \in Seq(UpFrame), NEW s \in Seq(UpFrame), PushFromLLM(s)
    PROVE  /\ Tools(up') = Tools(up) \cup Tools(s)
           /\ \A f, g \in Tools(up') :
                Before(up', f, g) <=> \/ Before(up, f, g) \/ Before(s, f, g)
                                      \/ f \in Tools(up) /\ g \in Tools(s)
BY PushInserts, InsertBehind

\* The calls of a response are announced, each in a frame of its own
\* (executeToolCalls).
LEMMA ToolAnnounced ==
    ASSUME ToolInv, LinkType, StateType, NEW r \in Run, ToolAnnounce(r),
           UNCHANGED toolMessage
    PROVE  ToolInv'
<1> DEFINE s == [n \in 1..calls[r] |-> [kind |-> "call", call |-> <<r, n>>]]
           C == CallsOf(r)
<1>0. calls[r] \in Nat /\ calls[r] <= MaxCalls /\ MaxCalls \in Nat
  BY LinksAssumption DEF StateType
<1>1. /\ C \subseteq Call
      /\ \A c \in Call : c \in C <=> c[1] = r /\ c[2] <= calls[r]
      /\ \A n \in 1..calls[r] : <<r, n>> \in C
  BY <1>0 DEF CallsOf, Call
<1>2. s \in Seq(UpFrame)
  <2>1. \A c \in Call : [kind |-> "call", call |-> c] \in UpFrame
    BY DEF UpFrame, ToolFrame
  <2>2. s \in [1..calls[r] -> UpFrame]
    BY <1>1, <2>1
  <2> HIDE DEF s
  <2> QED BY <1>0, <2>2
<1>3. /\ run[r] = "tools"
      /\ \A c \in C : tool[c] = "none"
      /\ tool' = [c \in Call |-> IF c \in C THEN "running" ELSE tool[c]]
      /\ PushFromLLM(s)
      /\ run' = run /\ calls' = calls
  BY DEF ToolAnnounce
<1>4. Tools(s) = {[kind |-> "call", call |-> c] : c \in C}
  <2>1. \A n \in 1..calls[r] : s[n].kind = "call"
    OBVIOUS
  <2>2. ASSUME NEW c \in C PROVE \E n \in 1..calls[r] : c = <<r, n>>
    BY <1>0, <1>1 DEF Call
  <2> QED BY <1>1, <2>1, <2>2 DEF Tools, Elems
<1>5. ASSUME NEW f, NEW g, Before(s, f, g) PROVE f # g
  BY <1>0, <1>5 DEF Before
<1> HIDE DEF s, C
<1>6. /\ Tools(up') = Tools(up) \cup Tools(s)
      /\ \A f, g \in Tools(up') :
           Before(up', f, g) <=> \/ Before(up, f, g) \/ Before(s, f, g)
                                 \/ f \in Tools(up) /\ g \in Tools(s)
  BY <1>2, <1>3, PushBehind DEF LinkType
<1>7. ASSUME NEW f \in Tools(s)
      PROVE f.kind = "call" /\ f.call \in C /\ tool[f.call] = "none"
            /\ f = [kind |-> "call", call |-> f.call]
  BY <1>3, <1>4
<1>8. \A f \in Tools(up) :
         /\ f.kind \in {"call", "result"} /\ tool[f.call] # "none"
         /\ f.call \in Call /\ f.call \notin C
  <2>1. \A f \in Tools(up) : f \in UpFrame /\ f.kind \in {"call", "result"}
    BY DEF Tools, Elems, LinkType
  <2>2. \A f \in UpFrame : f.kind \in {"call", "result"} => f.call \in Call
    BY DEF UpFrame, ToolFrame
  <2>3. \A f \in Tools(up) : tool[f.call] # "none"
    BY <2>1 DEF ToolInv, CallFrames, ResultFrames
  <2> QED BY <1>3, <2>1, <2>2, <2>3
<1>9. FramesOnce'
  <2> SUFFICES ASSUME NEW f \in Tools(up'), NEW g \in Tools(up'),
                      f.kind = g.kind, f.call = g.call
               PROVE  f = g /\ ~Before(up', f, g)
    BY DEF FramesOnce
  <2>1. CASE f \in Tools(up) /\ g \in Tools(up)
    <3>1. f \notin Tools(s) /\ g \notin Tools(s)
      BY <1>7, <1>8, <2>1
    <3>2. ~Before(s, f, g)
      BY <2>1, <1>8, <3>1 DEF Before, Tools, Elems
    <3> QED BY <1>6, <2>1, <3>1, <3>2 DEF ToolInv, FramesOnce
  <2>2. CASE f \in Tools(s) /\ g \in Tools(s)
    <3>1. f = g /\ f \notin Tools(up)
      BY <1>7, <1>8, <2>2
    <3>2. ~Before(up, f, g)
      BY <1>7, <2>2, <3>1 DEF Before, Tools, Elems
    <3> QED BY <1>5, <1>6, <3>1, <3>2
  <2> QED BY <1>6, <1>7, <1>8, <2>1, <2>2
<1>10. CallFrames'
  <2>1. \A f \in Tools(up) : tool'[f.call] = tool[f.call]
    BY <1>3, <1>8
  <2>2. \A f \in Tools(s) : tool'[f.call] = "running" /\ toolMessage[f.call] = "none"
    BY <1>1, <1>3, <1>7 DEF ToolInv, HandlerState
  <2> QED BY <1>6, <2>1, <2>2 DEF ToolInv, CallFrames
<1>11. ResultFrames'
  <2>1. \A f \in Tools(up) : tool'[f.call] = tool[f.call]
    BY <1>3, <1>8
  <2>2. \A f \in Tools(up') : f.kind = "result" => f \in Tools(up)
    BY <1>6, <1>7
  <2> QED BY <1>6, <2>1, <2>2 DEF ToolInv, ResultFrames
<1>12. RerunFrames'
  <2>1. \A f \in Tools(up') : f.kind = "result" => f \in Tools(up)
    BY <1>6, <1>7
  <2>2. \A q : CallsOf(q)' = CallsOf(q)
    BY <1>3 DEF CallsOf
  <2> QED BY <1>6, <2>1, <2>2 DEF ToolInv, RerunFrames
<1>13. HandlerState'
  <2> SUFFICES ASSUME NEW c \in Call
               PROVE  /\ tool'[c] = "none" => toolMessage[c] = "none"
                      /\ tool'[c] = "running" =>
                            \/ toolMessage[c] = "IN_PROGRESS"
                            \/ /\ toolMessage[c] = "none"
                               /\ \E f \in Tools(up') : f.kind = "call" /\ f.call = c
                      /\ tool'[c] = "sent" =>
                            \/ toolMessage[c] = "result"
                            \/ \E f \in Tools(up') : f.kind = "result" /\ f.call = c
                      /\ tool'[c] # "none" =>
                            run[c[1]] \in {"tools", "done"} /\ c[2] <= calls[c[1]]
    BY <1>3 DEF HandlerState
  <2>1. CASE c \in C
    <3>1. tool'[c] = "running" /\ toolMessage[c] = "none"
      BY <1>3, <2>1 DEF ToolInv, HandlerState
    <3>2. [kind |-> "call", call |-> c] \in Tools(up')
      BY <1>4, <1>6, <2>1
    <3> QED BY <1>1, <1>3, <2>1, <3>1, <3>2
  <2>2. CASE c \notin C
    <3>1. tool'[c] = tool[c]
      BY <1>3, <2>2
    <3> QED BY <1>6, <3>1 DEF ToolInv, HandlerState
  <2> QED BY <2>1, <2>2
<1> QED BY <1>3, <1>9, <1>10, <1>11, <1>12, <1>13 DEF ToolInv
\* What the frames of tool calls tell of their calls.
LEMMA ToolFacts ==
    ASSUME ToolInv, LinkType
    PROVE  \A f \in Tools(up) :
             /\ f \in ToolFrame /\ f.call \in Call /\ f.call[1] \in Run
             /\ f.kind \in {"call", "result"} /\ tool[f.call] # "none"
             /\ run[f.call[1]] \in {"tools", "done"}
<1>1. \A f \in Tools(up) : f \in UpFrame /\ f.kind \in {"call", "result"}
  BY DEF Tools, Elems, LinkType
<1>2. \A f \in UpFrame : f.kind \in {"call", "result"} => f \in ToolFrame
  BY DEF UpFrame
<1>3. \A f \in ToolFrame : f.call \in Call /\ f.call[1] \in Run
  BY DEF ToolFrame, Call
<1>4. \A f \in Tools(up) : tool[f.call] # "none"
  BY <1>1 DEF ToolInv, CallFrames, ResultFrames
<1> QED BY <1>1, <1>2, <1>3, <1>4 DEF ToolInv, HandlerState

\* A result goes up behind what its handler and the others had to say before; the one
\* that makes the model run again is the last (executeToolCalls).
LEMMA ToolCollected ==
    ASSUME ToolInv, LinkType, StateType, LiveInv, NEW r \in Run, ToolCollect(r),
           UNCHANGED toolMessage
    PROVE  ToolInv'
<1>1. PICK c \in CallsOf(r) :
        /\ tool[c] = "running"
        /\ tool' = [tool EXCEPT ![c] = "sent"]
        /\ LET last == \A d \in CallsOf(r) : tool'[d] = "sent"
           IN  /\ PushFromLLM(<<[kind |-> "result", call |-> c,
                                  runLLM |-> last /\ r \in runNext']>>)
               /\ run' = IF last THEN [run EXCEPT ![r] = "done"] ELSE run
  BY DEF ToolCollect
<1>2. run[r] = "tools" /\ calls' = calls
  BY DEF ToolCollect
<1> DEFINE last == \A d \in CallsOf(r) : tool'[d] = "sent"
           again == last /\ r \in runNext'
<1>3. PICK w \in BOOLEAN : w = again
  OBVIOUS
<1>4. /\ c \in Call /\ c[1] = r /\ c[2] <= calls[r]
      /\ \A q : CallsOf(q)' = CallsOf(q)
  BY <1>2 DEF CallsOf
<1>5. PICK h \in UpFrame : h = [kind |-> "result", call |-> c, runLLM |-> w]
  BY <1>4 DEF UpFrame, ToolFrame
<1>6. /\ PushFromLLM(<<h>>)
      /\ run' = run \/ run' = [run EXCEPT ![r] = "done"]
      /\ w => \A d \in CallsOf(r) : tool'[d] = "sent"
  <2>1. PushFromLLM(<<[kind |-> "result", call |-> c, runLLM |-> again]>>)
    BY <1>1
  <2>2. PushFromLLM(<<h>>)
    BY <1>3, <1>5, <2>1, Zenon
  <2>3. run' = run \/ run' = [run EXCEPT ![r] = "done"]
    BY <1>1
  <2> QED BY <1>3, <2>2, <2>3
<1> HIDE DEF last, again
<1>7. <<h>> \in Seq(UpFrame)
  OBVIOUS
<1>8. /\ h.kind = "result" /\ h.call = c /\ (h.runLLM <=> w)
      /\ Tools(<<h>>) = {h}
      /\ \A f, g : ~Before(<<h>>, f, g)
  BY <1>5 DEF Tools, Elems, Before
<1>9. /\ Tools(up') = Tools(up) \cup {h}
      /\ \A f, g \in Tools(up') :
           Before(up', f, g) <=> Before(up, f, g) \/ (f \in Tools(up) /\ g = h)
  BY <1>6, <1>7, <1>8, PushBehind DEF LinkType
<1>10. /\ tool'[c] = "sent"
       /\ \A d \in Call : d # c => tool'[d] = tool[d]
       /\ \A q \in Run : run[q] \in {"tools", "done"} => run'[q] \in {"tools", "done"}
  <2>1. \A q \in Run : run[q] \in {"tools", "done"} => run'[q] \in {"tools", "done"}
    <3>1. run' = run \/ \A q \in Run : run'[q] = run[q] \/ run'[q] = "done"
      BY <1>6 DEF LiveInv
    <3> QED BY <3>1
  <2> QED BY <1>1, <1>4, <2>1 DEF StateType
<1>11. \A f \in Tools(up) :
         /\ f.call \in Call /\ f.kind \in {"call", "result"}
         /\ f.kind = "result" => f.call # c
  BY <1>1, ToolFacts DEF ToolInv, ResultFrames
<1>12. h \notin Tools(up)
  BY <1>8, <1>11
<1>13. \A f : ~Before(up, f, h) /\ ~Before(up, h, f)
  BY <1>8, <1>12 DEF Before, Tools, Elems
<1>14. FramesOnce'
  BY <1>8, <1>9, <1>11, <1>12, <1>13 DEF ToolInv, FramesOnce
<1>15. CallFrames'
  BY <1>8, <1>9, <1>10, <1>11 DEF ToolInv, CallFrames
<1>16. ResultFrames'
  <2> SUFFICES ASSUME NEW f \in Tools(up'), f.kind = "result"
               PROVE  /\ tool'[f.call] = "sent"
                      /\ \/ toolMessage[f.call] = "IN_PROGRESS"
                         \/ /\ toolMessage[f.call] = "none"
                            /\ \E g \in Tools(up') :
                                 /\ g.kind = "call" /\ g.call = f.call
                                 /\ Before(up', g, f)
    BY DEF ResultFrames
  <2>1. CASE f = h
    <3>1. \/ toolMessage[c] = "IN_PROGRESS"
          \/ /\ toolMessage[c] = "none"
             /\ \E g \in Tools(up) : g.kind = "call" /\ g.call = c
      BY <1>1, <1>4 DEF ToolInv, HandlerState
    <3> QED BY <1>8, <1>9, <1>10, <2>1, <3>1
  <2>2. CASE f \in Tools(up)
    <3>1. tool'[f.call] = "sent"
      BY <1>10, <1>11, <2>2 DEF ToolInv, ResultFrames
    <3>2. \/ toolMessage[f.call] = "IN_PROGRESS"
          \/ /\ toolMessage[f.call] = "none"
             /\ \E g \in Tools(up) :
                  g.kind = "call" /\ g.call = f.call /\ Before(up, g, f)
      BY <2>2 DEF ToolInv, ResultFrames
    <3> QED BY <1>9, <2>2, <3>1, <3>2
  <2> QED BY <1>9, <2>1, <2>2
<1>17. RerunFrames'
  <2> SUFFICES ASSUME NEW f \in Tools(up'), f.kind = "result", f.runLLM,
                      NEW d \in CallsOf(f.call[1]) \ {f.call}
               PROVE  \/ toolMessage[d] = "result"
                      \/ \E g \in Tools(up') :
                           g.kind = "result" /\ g.call = d /\ Before(up', g, f)
    BY <1>4 DEF RerunFrames
  <2>1. CASE f = h
    <3>1. d \in CallsOf(r) /\ d # c /\ d \in Call
      BY <1>4, <1>8, <2>1 DEF CallsOf
    <3>2. tool[d] = "sent"
      BY <1>6, <1>8, <1>10, <2>1, <3>1
    <3>3. \/ toolMessage[d] = "result"
          \/ \E g \in Tools(up) : g.kind = "result" /\ g.call = d
      BY <3>1, <3>2 DEF ToolInv, HandlerState
    <3> QED BY <1>9, <2>1, <3>3
  <2>2. CASE f \in Tools(up)
    <3>1. \/ toolMessage[d] = "result"
          \/ \E g \in Tools(up) :
               g.kind = "result" /\ g.call = d /\ Before(up, g, f)
      BY <2>2 DEF ToolInv, RerunFrames
    <3> QED BY <1>9, <2>2, <3>1
  <2> QED BY <1>9, <2>1, <2>2
<1>18. HandlerState'
  <2> SUFFICES ASSUME NEW d \in Call
               PROVE  /\ tool'[d] = "none" => toolMessage[d] = "none"
                      /\ tool'[d] = "running" =>
                            \/ toolMessage[d] = "IN_PROGRESS"
                            \/ /\ toolMessage[d] = "none"
                               /\ \E f \in Tools(up') : f.kind = "call" /\ f.call = d
                      /\ tool'[d] = "sent" =>
                            \/ toolMessage[d] = "result"
                            \/ \E f \in Tools(up') : f.kind = "result" /\ f.call = d
                      /\ tool'[d] # "none" =>
                            run'[d[1]] \in {"tools", "done"} /\ d[2] <= calls[d[1]]
    BY <1>2 DEF HandlerState
  <2>0. d[1] \in Run
    BY DEF Call
  <2>1. CASE d = c
    BY <1>2, <1>4, <1>8, <1>9, <1>10, <2>0, <2>1
  <2>2. CASE d # c
    <3>1. tool'[d] = tool[d]
      BY <1>10, <2>2
    <3> QED BY <1>9, <1>10, <2>0, <3>1 DEF ToolInv, HandlerState
  <2> QED BY <2>1, <2>2
<1> QED BY <1>14, <1>15, <1>16, <1>17, <1>18 DEF ToolInv

\* The aggregator takes the frames of a call in turn, its announcement first
\* (addFunctionCallInProgress, applyFunctionCallResult).
LEMMA ToolTaken ==
    ASSUME ToolInv, LinkType, StateType, UNCHANGED <<tool, calls, run>>,
           addFunctionCallInProgress \/ applyFunctionCallResult
    PROVE  ToolInv'
<1> DEFINE h == Head(up)
           s == IF h.kind = "call" THEN "IN_PROGRESS" ELSE "result"
<1>1. /\ up # <<>> /\ up' = Tail(up) /\ h.kind \in {"call", "result"}
      /\ toolMessage' = [toolMessage EXCEPT ![h.call] = s]
  BY DEF addFunctionCallInProgress, applyFunctionCallResult, TakeUp
<1>2. h \in Tools(up)
  <2>1. 1 \in DOMAIN up /\ h = up[1]
    BY <1>1 DEF LinkType
  <2> QED BY <1>1, <2>1 DEF Tools, Elems
<1>3. s \in {"IN_PROGRESS", "result"}
  OBVIOUS
<1>4. h.kind = "call" => s = "IN_PROGRESS"
  OBVIOUS
<1>5. h.kind = "result" => s = "result"
  OBVIOUS
<1> HIDE DEF h, s
<1>6. h.call \in Call
  BY <1>2, ToolFacts
<1>7. /\ toolMessage'[h.call] = s
      /\ \A c \in Call : c # h.call => toolMessage'[c] = toolMessage[c]
  BY <1>1, <1>6 DEF StateType
<1>8. ~Before(up, h, h)
  BY <1>2 DEF ToolInv, FramesOnce
<1>9. /\ \A f \in Tools(up') : f \in Tools(up) /\ f # h
      /\ \A f \in Tools(up) : f = h \/ f \in Tools(up')
      /\ \A f, g : Before(up', f, g) => Before(up, f, g)
      /\ \A f, g : Before(up, f, g) /\ f # h => Before(up', f, g)
      /\ \A f : ~Before(up, f, h)
  BY <1>1, <1>8, TakenFirst DEF LinkType, h
<1>10. \A f \in Tools(up') :
         /\ f.call \in Call /\ f.kind \in {"call", "result"}
         /\ f.kind = h.kind => f.call # h.call
  BY <1>2, <1>9, ToolFacts DEF ToolInv, FramesOnce
<1>11. /\ h.kind = "call" => toolMessage[h.call] = "none"
       /\ h.kind = "result" => toolMessage[h.call] = "IN_PROGRESS"
  BY <1>2, <1>9 DEF ToolInv, CallFrames, ResultFrames
<1>12. FramesOnce'
  BY <1>9 DEF ToolInv, FramesOnce
<1>13. \A f \in Tools(up') : f.kind = "call" => f.call # h.call
  BY <1>1, <1>9, <1>10, <1>11 DEF ToolInv, CallFrames
<1>14. CallFrames'
  BY <1>7, <1>9, <1>10, <1>13 DEF ToolInv, CallFrames
<1>15. ResultFrames'
  <2> SUFFICES ASSUME NEW f \in Tools(up'), f.kind = "result"
               PROVE  /\ tool[f.call] = "sent"
                      /\ \/ toolMessage'[f.call] = "IN_PROGRESS"
                         \/ /\ toolMessage'[f.call] = "none"
                            /\ \E g \in Tools(up') :
                                 /\ g.kind = "call" /\ g.call = f.call
                                 /\ Before(up', g, f)
    BY DEF ResultFrames
  <2>1. tool[f.call] = "sent"
    BY <1>9 DEF ToolInv, ResultFrames
  <2>2. CASE f.call = h.call
    <3>1. h.kind = "call"
      BY <1>1, <1>10, <2>2
    <3> QED BY <1>4, <1>7, <2>1, <2>2, <3>1
  <2>3. CASE f.call # h.call
    <3>1. toolMessage'[f.call] = toolMessage[f.call]
      BY <1>7, <1>10, <2>3
    <3>2. \/ toolMessage[f.call] = "IN_PROGRESS"
          \/ /\ toolMessage[f.call] = "none"
             /\ \E g \in Tools(up) :
                  g.kind = "call" /\ g.call = f.call /\ Before(up, g, f)
      BY <1>9 DEF ToolInv, ResultFrames
    <3> QED BY <1>9, <2>1, <2>3, <3>1, <3>2
  <2> QED BY <2>2, <2>3
<1>16. RerunFrames'
  <2> SUFFICES ASSUME NEW f \in Tools(up'), f.kind = "result", f.runLLM,
                      NEW d \in CallsOf(f.call[1]) \ {f.call}
               PROVE  \/ toolMessage'[d] = "result"
                      \/ \E g \in Tools(up') :
                           g.kind = "result" /\ g.call = d /\ Before(up', g, f)
    BY DEF RerunFrames, CallsOf
  <2>1. d \in Call
    BY DEF CallsOf
  <2>2. \/ toolMessage[d] = "result"
        \/ \E g \in Tools(up) :
             g.kind = "result" /\ g.call = d /\ Before(up, g, f)
    BY <1>9 DEF ToolInv, RerunFrames
  <2>3. CASE d = h.call
    <3>1. h.kind = "call" => toolMessage[d] = "none"
      BY <1>11, <2>3
    <3>2. CASE h.kind = "result"
      BY <1>5, <1>7, <2>3, <3>2
    <3>3. CASE h.kind = "call"
      BY <1>9, <2>2, <3>1, <3>3
    <3> QED BY <1>1, <3>2, <3>3
  <2>4. CASE d # h.call
    <3>1. toolMessage'[d] = toolMessage[d]
      BY <1>7, <2>1, <2>4
    <3> QED BY <1>9, <2>2, <2>4, <3>1
  <2> QED BY <2>3, <2>4
<1>17. HandlerState'
  <2> SUFFICES ASSUME NEW c \in Call
               PROVE  /\ tool[c] = "none" => toolMessage'[c] = "none"
                      /\ tool[c] = "running" =>
                            \/ toolMessage'[c] = "IN_PROGRESS"
                            \/ /\ toolMessage'[c] = "none"
                               /\ \E f \in Tools(up') : f.kind = "call" /\ f.call = c
                      /\ tool[c] = "sent" =>
                            \/ toolMessage'[c] = "result"
                            \/ \E f \in Tools(up') : f.kind = "result" /\ f.call = c
                      /\ tool[c] # "none" =>
                            run[c[1]] \in {"tools", "done"} /\ c[2] <= calls[c[1]]
    BY DEF HandlerState
  <2>1. CASE c = h.call /\ h.kind = "call"
    <3>1. tool[c] # "none" /\ toolMessage[c] = "none" /\ toolMessage'[c] = "IN_PROGRESS"
      BY <1>2, <1>4, <1>7, <2>1 DEF ToolInv, CallFrames
    <3>2. tool[c] = "sent" => \E f \in Tools(up) : f.kind = "result" /\ f.call = c
      BY <3>1 DEF ToolInv, HandlerState
    <3>3. tool[c] = "sent" => \E f \in Tools(up') : f.kind = "result" /\ f.call = c
      BY <1>9, <2>1, <3>2
    <3> QED BY <3>1, <3>3 DEF ToolInv, HandlerState
  <2>2. CASE c = h.call /\ h.kind = "result"
    <3>1. tool[c] = "sent" /\ toolMessage'[c] = "result"
      BY <1>2, <1>5, <1>7, <2>2 DEF ToolInv, ResultFrames
    <3> QED BY <3>1 DEF ToolInv, HandlerState
  <2>3. CASE c # h.call
    <3>1. toolMessage'[c] = toolMessage[c]
      BY <1>7, <2>3
    <3> QED BY <1>9, <2>3, <3>1 DEF ToolInv, HandlerState
  <2> QED BY <1>1, <2>1, <2>2, <2>3
<1> QED BY <1>12, <1>14, <1>15, <1>16, <1>17 DEF ToolInv
\* Every step keeps ToolInv.
LEMMA ToolNext ==
    ASSUME ToolInv, LinkType, StateType, LiveInv, FreshInv, [Next]_vars
    PROVE  ToolInv'
<1>0. up \in Seq(UpFrame)
  BY DEF LinkType
<1>1. SameTools(up, up)
  BY DEF SameTools
<1>2. ASSUME UNCHANGED <<tool, toolMessage, calls, run>>, SameTools(up, up')
      PROVE  ToolInv'
  BY <1>2, ToolFrames
<1>3. CASE User \/ UNCHANGED vars
  <2>1. UNCHANGED <<tool, toolMessage, calls, run, up>>
    BY <1>3 DEF User, UserStep, AppendAndRun, BargeIn, Final, EndToken, llmVars, links,
                messages, vars, caVars
  <2>2. SameTools(up, up')
    BY <1>1, <2>1 DEF SameTools
  <2> QED BY <1>2, <2>1, <2>2
<1>4. CASE Aggregator
  <2>1. CASE addFunctionCallInProgress \/ applyFunctionCallResult
    <3>1. UNCHANGED <<tool, calls, run>>
      BY <1>4 DEF Aggregator, llmVars
    <3> QED BY <2>1, <3>1, ToolTaken
  <2>2. CASE WordTimestamp \/ TTSDone \/ BotStartedSpeaking \/ BotStoppedSpeaking
    <3>1. /\ up # <<>> /\ up' = Tail(up)
          /\ Head(up).kind \notin {"call", "result"}
          /\ UNCHANGED <<tool, toolMessage, calls, run>>
      BY <1>4, <2>2 DEF Aggregator, WordTimestamp, TTSDone, BotStartedSpeaking,
                        BotStoppedSpeaking, TakeUp, llmVars, messages
    <3>2. SameTools(up, up')
      BY <1>0, <3>1, TailSpares
    <3> QED BY <1>2, <3>1, <3>2
  <2> QED BY <1>4, <2>1, <2>2 DEF Aggregator, UpStep
<1>5. CASE LLM
  <2>0. UNCHANGED toolMessage
    BY <1>5 DEF LLM, caVars, messages
  <2>1. \A r \in Run : run[r] \in {"tools", "done"} => run'[r] \in {"tools", "done"}
    BY <1>5, FreshLLM
  <2>2. CASE TakeMessages
    <3>1. UNCHANGED <<tool, calls, up>>
      BY <2>2 DEF TakeMessages
    <3>2. SameTools(up, up')
      BY <1>1, <3>1 DEF SameTools
    <3> QED BY <2>0, <2>1, <3>1, <3>2, ToolFrames
  <2>3. CASE Interrupt
    <3>1. UNCHANGED <<tool, calls>> /\ PurgeUp
      BY <2>3 DEF Interrupt
    <3>2. SameTools(up, up')
      BY <1>0, <3>1, PurgeSpares
    <3> QED BY <2>0, <2>1, <3>1, <3>2, ToolFrames
  <2>4. ASSUME NEW r \in Run, runLLM(r) PROVE ToolInv'
    <3>1. UNCHANGED <<tool, up>>
      BY <2>4 DEF runLLM, RunStart, RunToken, RunCheck, RunEnd, links
    <3>2. SameTools(up, up')
      BY <1>1, <3>1 DEF SameTools
    <3>3. \A q \in Run : run[q] \in {"tools", "done"} => calls'[q] = calls[q]
      <4>1. \/ calls' = calls
            \/ run[r] = "rend" /\ \E n \in 0..MaxCalls : calls' = [calls EXCEPT ![r] = n]
        BY <2>4 DEF runLLM, RunStart, RunToken, RunCheck, RunEnd, RunPush
      <4> QED BY <4>1 DEF StateType
    <3> QED BY <2>0, <2>1, <3>1, <3>2, <3>3, ToolFrames
  <2>5. ASSUME NEW r \in Run, executeToolCalls(r) PROVE ToolInv'
    BY <2>0, <2>5, ToolAnnounced, ToolCollected DEF executeToolCalls
  <2> QED BY <1>5, <2>2, <2>3, <2>4, <2>5 DEF LLM, LLMStep
<1>6. CASE TTSStep
  <2>1. CASE InterruptTTS
    <3>1. UNCHANGED <<tool, toolMessage, calls, run>> /\ PurgeUp
      BY <2>1 DEF InterruptTTS, llmVars, caVars, messages
    <3>2. SameTools(up, up')
      BY <1>0, <3>1, PurgeSpares
    <3> QED BY <1>2, <3>1, <3>2
  <2>2. CASE ~InterruptTTS
    <3>1. UNCHANGED <<tool, toolMessage, calls, run, up>>
      BY <1>6, <2>2 DEF TTSStep, SpeakStart, SpeakText, SpeakEnd, SpeakInterrupt,
         SpeakAudio, SpeakDone, TakeTTS, llmVars, caVars, messages, links
    <3>2. SameTools(up, up')
      BY <1>1, <3>1 DEF SameTools
    <3> QED BY <1>2, <3>1, <3>2
  <2> QED BY <2>1, <2>2
<1>7. CASE Play
  <2>1. PICK f \in PlayFrame : f = Head(playbackQueue)
    BY <1>7 DEF Play, tick, LinkType
  <2>2. up' = up \o Report(f) /\ UNCHANGED <<tool, toolMessage, calls, run>>
    BY <1>7, <2>1 DEF Play, tick, llmVars, caVars, messages
  <2>3. SameTools(up, up')
    BY <1>0, <2>2, ReportType, AppendSpares
  <2> QED BY <1>2, <2>2, <2>3
<1> QED BY <1>3, <1>4, <1>5, <1>6, <1>7 DEF Next, Pipeline

\* When a tool result makes the aggregator ask the model again, every call of that
\* response is in the history with its result, whatever the order the handlers return
\* in and whatever interrupts purge (executeToolCalls, applyFunctionCallResult).
THEOREM ResultsBeforeRerun == Spec => []RequestHasResults
<1>1. Init => ToolInv
  <2> SUFFICES ASSUME Init PROVE ToolInv
    OBVIOUS
  <2>1. Tools(up) = {}
    BY DEF Init, LinksInit, Tools, Elems
  <2>2. HandlerState
    BY DEF Init, CAInit, LLMInit, HandlerState
  <2> QED BY <2>1, <2>2 DEF ToolInv, FramesOnce, CallFrames, ResultFrames, RerunFrames
<1>2. LinkType /\ ToolInv => RequestHasResults
  <2> SUFFICES ASSUME LinkType, ToolInv, up # <<>>, Head(up).kind = "result"
               PROVE  /\ toolMessage[Head(up).call] = "IN_PROGRESS"
                      /\ Head(up).runLLM =>
                           \A c \in CallsOf(Head(up).call[1]) \ {Head(up).call} :
                              toolMessage[c] = "result"
    BY DEF RequestHasResults
  <2> DEFINE h == Head(up)
  <2>1. h \in Tools(up)
    <3>1. 1 \in DOMAIN up /\ h = up[1]
      BY DEF LinkType
    <3> QED BY <3>1 DEF Tools, Elems
  <2>2. ~Before(up, h, h)
    BY <2>1 DEF ToolInv, FramesOnce
  <2>3. \A g : ~Before(up, g, h)
    BY <2>2, TakenFirst DEF LinkType
  <2> HIDE DEF h
  <2>4. h.kind = "result"
    BY DEF h
  <2>5. /\ toolMessage[h.call] = "IN_PROGRESS"
        /\ h.runLLM =>
             \A c \in CallsOf(h.call[1]) \ {h.call} : toolMessage[c] = "result"
    BY <2>1, <2>3, <2>4 DEF ToolInv, ResultFrames, RerunFrames
  <2> QED BY <2>5 DEF h
<1> QED
  BY <1>1, <1>2, LiveInit, LiveNext, LinkNext, FreshNext, ToolNext, PTL DEF Spec
----------------------------------------------------------------------------
(* Where the words of a response are.                                      *)

Hits(s, F) == {i \in DOMAIN s : s[i] \in F}
Has(s, F)  == Hits(s, F) # {}
Once(s, F) == \A i, j \in Hits(s, F) : i = j

TextOf(r)  == {f \in Speech : f.kind = "text" /\ f.run = r}
WordsOf(r) == {[kind |-> "words", run |-> r]}
Said(r)    == {c \in Seq(Run) : \E n \in DOMAIN c : c[n] = r}

\* The words of r have got as far as k: not yet generated or nowhere, on their way to
\* TTS, at Cartesia, in playback, on their way up, spoken, in the history.
WordsAt(r, k) ==
    /\ run[r] \in {"none", "start", "stream"} => k = 0
    /\ Has(ttsIn, TextOf(r)) => k = 1
    /\ r \in ttsText => k = 2
    /\ Has(playbackQueue, WordsOf(r)) => k = 3
    /\ Has(up, WordsOf(r)) => k = 4
    /\ Has(spokenWords, {r}) => k = 5
    /\ Has(committed, Said(r)) => k = 6

\* They are in one place at a time, and there once.
Placed(r) ==
    /\ Once(ttsIn, TextOf(r))
    /\ Once(playbackQueue, WordsOf(r)) /\ Once(up, WordsOf(r))
    /\ Once(spokenWords, {r}) /\ Once(committed, Said(r))
    /\ \E k \in 0..6 : WordsAt(r, k)

WordsInv == \A r \in Run : Placed(r)
\* What t keeps of u's elements of F, it keeps once each.
Fewer(t, u, F) == (Has(t, F) => Has(u, F)) /\ (Once(u, F) => Once(t, F))

\* A queue whose elements of F come from different positions of another queue.
LEMMA HitsMapped ==
    ASSUME NEW t, NEW u, NEW F, NEW h,
           \A k \in Hits(t, F) : h[k] \in Hits(u, F),
           \A k, l \in Hits(t, F) : h[k] = h[l] => k = l
    PROVE  Fewer(t, u, F)
BY DEF Fewer, Has, Once

\* An interrupt multiplies no frame that goes up (PurgeUp).
LEMMA PurgeFewer ==
    ASSUME up \in Seq(UpFrame), PurgeUp, NEW F
    PROVE  Fewer(up', up, F)
<1>0. PICK i \in 0..Len(up) : \E j \in i..Len(up) :
         up' = Kept(up, {n \in DOMAIN up : \/ n <= i \/ n > j
                                           \/ up[n].kind \in {"call", "result"}})
  BY DEF PurgeUp
<1>1. PICK j \in i..Len(up) :
         up' = Kept(up, {n \in DOMAIN up : \/ n <= i \/ n > j
                                           \/ up[n].kind \in {"call", "result"}})
  BY <1>0
<1> DEFINE N == {n \in DOMAIN up : \/ n <= i \/ n > j
                                   \/ up[n].kind \in {"call", "result"}}
<1>2. N \in SUBSET DOMAIN up /\ DOMAIN up \subseteq Nat
  OBVIOUS
<1> HIDE DEF N
<1>3. up' \in Seq(UpFrame) /\ Embedded(up', up, N)
  BY <1>1, <1>2, KeptInOrder DEF N
<1>4. PICK h \in [DOMAIN up' -> N] :
        /\ \A k, l \in DOMAIN up' : k < l => h[k] < h[l]
        /\ \A k \in DOMAIN up' : up'[k] = up[h[k]]
  BY <1>3 DEF Embedded
<1>5. ASSUME NEW k \in DOMAIN up', NEW l \in DOMAIN up', h[k] = h[l] PROVE k = l
  <2>1. k \in Nat /\ l \in Nat /\ h[k] \in Nat
    BY <1>2, <1>3, <1>4
  <2>2. ~(k < l) /\ ~(l < k)
    BY <1>4, <1>5, <2>1
  <2> QED BY <2>1, <2>2
<1>6. ASSUME NEW k \in Hits(up', F) PROVE h[k] \in Hits(up, F)
  BY <1>2, <1>4 DEF Hits
<1>7. \A k, l \in Hits(up', F) : h[k] = h[l] => k = l
  BY <1>5 DEF Hits
<1> QED BY <1>6, <1>7, HitsMapped

\* Frames put into a queue do not multiply those of another sort.
LEMMA InsertFewer ==
    ASSUME NEW S, NEW u \in Seq(S), NEW s \in Seq(S), NEW v, NEW i \in Nat,
           Inserted(v, u, i, s), NEW F, ~Has(s, F)
    PROVE  Fewer(v, u, F)
<1> DEFINE K == Len(s)
           L == Len(u)
           h == [k \in DOMAIN v |-> IF k <= i THEN k ELSE k - K]
<1>1. /\ L \in Nat /\ K \in Nat /\ i \in 0..L
      /\ DOMAIN u = 1..L /\ DOMAIN s = 1..K /\ DOMAIN v = 1..(L + K)
      /\ \A n \in 1..i : v[n] = u[n]
      /\ \A n \in 1..K : v[i + n] = s[n]
      /\ \A n \in (i + 1)..L : v[K + n] = u[n]
  BY DEF Inserted
<1> HIDE DEF K, L
<1>2. ASSUME NEW k \in 1..(L + K), v[k] \in F
      PROVE  /\ k <= i \/ k > i + K
             /\ k <= i => k \in 1..L /\ v[k] = u[k]
             /\ k > i + K => k - K \in (i + 1)..L /\ v[k] = u[k - K]
  <2>1. \A n \in 1..K : s[n] \notin F
    BY <1>1 DEF Has, Hits
  <2>2. k \notin (i + 1)..(i + K)
    <3>1. ASSUME k \in (i + 1)..(i + K) PROVE FALSE
      <4>1. k - i \in 1..K /\ i + (k - i) = k
        BY <1>1, <3>1
      <4> QED BY <1>1, <1>2, <2>1, <4>1
    <3> QED BY <3>1
  <2>3. k > i + K => k - K \in (i + 1)..L /\ K + (k - K) = k
    BY <1>1
  <2>4. k <= i => k \in 1..i /\ k \in 1..L
    BY <1>1
  <2>5. k <= i \/ k > i + K
    BY <1>1, <2>2
  <2> QED BY <1>1, <2>3, <2>4, <2>5
<1>3. ASSUME NEW k \in Hits(v, F)
      PROVE  /\ k \in 1..(L + K) /\ h[k] \in Hits(u, F)
             /\ \/ k <= i /\ h[k] = k
                \/ k > i + K /\ h[k] = k - K
  <2>1. k \in 1..(L + K) /\ v[k] \in F
    BY <1>1 DEF Hits
  <2>2. h[k] = IF k <= i THEN k ELSE k - K
    BY <1>1, <2>1
  <2> HIDE DEF h
  <2>3. CASE k <= i
    BY <1>1, <1>2, <2>1, <2>2, <2>3 DEF Hits
  <2>4. CASE k > i + K
    <3>1. ~(k <= i) /\ k - K \in (i + 1)..L /\ v[k] = u[k - K]
      BY <1>1, <1>2, <2>1, <2>4
    <3>2. k - K \in 1..L
      BY <1>1, <3>1
    <3> QED BY <1>1, <2>1, <2>2, <2>4, <3>1, <3>2 DEF Hits
  <2> QED BY <1>2, <2>1, <2>3, <2>4
<1>4. ASSUME NEW k \in Hits(v, F), NEW l \in Hits(v, F), h[k] = h[l] PROVE k = l
  <2> HIDE DEF h
  <2> QED BY <1>1, <1>3, <1>4
<1> HIDE DEF h
<1> QED BY <1>3, <1>4, HitsMapped

\* Joining two queues of which at most one holds elements of F.
LEMMA JoinHits ==
    ASSUME NEW S, NEW u \in Seq(S), NEW v \in Seq(S), NEW F
    PROVE  /\ Has(u \o v, F) => Has(u, F) \/ Has(v, F)
           /\ Once(u, F) /\ Once(v, F) /\ ~(Has(u, F) /\ Has(v, F))
                => Once(u \o v, F)
<1> DEFINE w == u \o v
           L == Len(u)
           K == Len(v)
<1>1. /\ L \in Nat /\ K \in Nat /\ DOMAIN w = 1..(L + K)
      /\ DOMAIN u = 1..L /\ DOMAIN v = 1..K
      /\ \A n \in 1..L : w[n] = u[n]
      /\ \A n \in 1..(L + K) : n \notin 1..L => n - L \in 1..K /\ w[n] = v[n - L]
  OBVIOUS
<1> HIDE DEF w, L, K
<1>2. ASSUME NEW n \in Hits(w, F)
      PROVE  \/ n \in Hits(u, F)
             \/ n \notin 1..L /\ n - L \in Hits(v, F)
  BY <1>1 DEF Hits
<1>3. Has(w, F) => Has(u, F) \/ Has(v, F)
  BY <1>2 DEF Has
<1>4. ASSUME Once(u, F), Once(v, F), ~(Has(u, F) /\ Has(v, F)),
             NEW n \in Hits(w, F), NEW m \in Hits(w, F)
      PROVE  n = m
  <2>1. n \in Nat /\ m \in Nat
    BY <1>1 DEF Hits
  <2>2. CASE n \in Hits(u, F) /\ m \in Hits(u, F)
    BY <1>4, <2>2 DEF Once
  <2>3. CASE n - L \in Hits(v, F) /\ m - L \in Hits(v, F)
    <3>1. n - L = m - L
      BY <1>4, <2>3 DEF Once
    <3> QED BY <1>1, <2>1, <3>1
  <2> QED BY <1>2, <1>4, <2>2, <2>3 DEF Has
<1> QED BY <1>3, <1>4 DEF Once, w

\* Taking the first element.
LEMMA TailHits ==
    ASSUME NEW S, NEW u \in Seq(S), u # <<>>, NEW F
    PROVE  /\ Fewer(Tail(u), u, F)
           /\ Head(u) \in F => Has(u, F)
           /\ Head(u) \in F /\ Once(u, F) => ~Has(Tail(u), F)
<1> DEFINE t == Tail(u)
           L == Len(u)
           h == [k \in 1..(L - 1) |-> k + 1]
<1>1. /\ L \in Nat /\ L > 0 /\ DOMAIN u = 1..L /\ DOMAIN t = 1..(L - 1)
      /\ Head(u) = u[1] /\ 1 \in 1..L
      /\ \A n \in 1..(L - 1) : n + 1 \in 1..L /\ n + 1 # 1 /\ t[n] = u[n + 1]
  OBVIOUS
<1>2. \A k \in 1..(L - 1) : h[k] = k + 1
  OBVIOUS
<1> HIDE DEF t, L, h
<1>3. \A k \in Hits(t, F) : k \in 1..(L - 1) /\ k + 1 \in Hits(u, F) /\ k + 1 # 1
  BY <1>1 DEF Hits
<1>4. \A k, l \in 1..(L - 1) : k + 1 = l + 1 => k = l
  BY <1>1
<1>5. Fewer(t, u, F)
  <2>1. /\ \A k \in Hits(t, F) : h[k] \in Hits(u, F)
        /\ \A k, l \in Hits(t, F) : h[k] = h[l] => k = l
    BY <1>2, <1>3, <1>4
  <2> QED BY <2>1, HitsMapped
<1>6. Head(u) \in F => 1 \in Hits(u, F)
  BY <1>1 DEF Hits
<1>7. Head(u) \in F /\ Once(u, F) => ~Has(t, F)
  BY <1>3, <1>6 DEF Once, Has
<1> QED BY <1>5, <1>6, <1>7 DEF t, Has
\* An interrupt drops a part of TTS's queue and leaves its command in its place.
LEMMA CutFewer ==
    ASSUME NEW u \in Seq(Speech), NEW f \in Speech, NEW F, f \notin F,
           NEW i \in 0..Len(u), NEW j \in i..Len(u)
    PROVE  Fewer(SubSeq(u, 1, i) \o <<f>> \o SubSeq(u, j + 1, Len(u)), u, F)
<1> DEFINE L == Len(u)
           a == SubSeq(u, 1, i)
           z == SubSeq(u, j + 1, L)
           t == (a \o <<f>>) \o z
           h == [k \in 1..(L + 1) |-> IF k <= i THEN k ELSE (k - (i + 1)) + j]
<1>1. /\ L \in Nat /\ i \in 0..L /\ j \in 0..L /\ i <= j
      /\ DOMAIN u = 1..L
  OBVIOUS
<1>2. /\ a \in Seq(Speech) /\ Len(a) = i /\ \A n \in 1..i : a[n] = u[n]
  OBVIOUS
<1>3. /\ z \in Seq(Speech) /\ Len(z) = L - j
      /\ \A n \in 1..(L - j) : z[n] = u[j + n]
  OBVIOUS
<1>4. <<f>> \in Seq(Speech) /\ Len(<<f>>) = 1 /\ <<f>>[1] = f
  OBVIOUS
<1> DEFINE b == a \o <<f>>
<1>5. /\ b \in Seq(Speech) /\ Len(b) = i + 1 /\ b[i + 1] = f
      /\ \A n \in 1..i : b[n] = u[n]
  BY <1>1, <1>2, <1>4
<1>6. t = b \o z
  OBVIOUS
<1>7. \A k \in 1..(L + 1) : h[k] = IF k <= i THEN k ELSE (k - (i + 1)) + j
  OBVIOUS
<1> HIDE DEF a, z, b, t, h, L
<1>8. /\ DOMAIN t = 1..(i + 1 + (L - j))
      /\ \A n \in 1..(i + 1) : t[n] = b[n]
      /\ \A n \in 1..(L - j) : t[i + 1 + n] = z[n]
  <2>1. /\ b \o z \in Seq(Speech) /\ Len(b \o z) = Len(b) + Len(z)
        /\ \A n \in 1..Len(b) : (b \o z)[n] = b[n]
        /\ \A n \in 1..Len(z) : (b \o z)[Len(b) + n] = z[n]
    <3>1. b \in Seq(Speech) /\ z \in Seq(Speech)
      BY <1>3, <1>5
    <3> QED BY <3>1
  <2> QED BY <1>1, <1>3, <1>5, <1>6, <2>1
<1>9. ASSUME NEW k \in Hits(t, F)
      PROVE  /\ k \in 1..(L + 1) /\ h[k] \in Hits(u, F)
             /\ \/ k <= i /\ h[k] = k
                \/ k > i + 1 /\ h[k] = (k - (i + 1)) + j /\ h[k] > j
  <2>1. k \in 1..(i + 1 + (L - j)) /\ t[k] \in F
    BY <1>8 DEF Hits
  <2>2. k \in 1..(L + 1)
    BY <1>1, <2>1
  <2>3. CASE k <= i
    <3>1. k \in 1..i /\ k \in 1..(i + 1) /\ k \in 1..L
      BY <1>1, <2>1, <2>3
    <3>2. t[k] = u[k] /\ h[k] = k
      BY <1>5, <1>7, <1>8, <2>2, <3>1, <2>3
    <3> QED BY <1>1, <2>1, <2>2, <2>3, <3>1, <3>2 DEF Hits
  <2>4. k # i + 1
    <3>1. i + 1 \in 1..(i + 1)
      BY <1>1
    <3> QED BY <1>5, <1>8, <2>1, <3>1
  <2>5. CASE k > i + 1
    <3> DEFINE n == k - (i + 1)
    <3>1. n \in 1..(L - j) /\ i + 1 + n = k /\ j + n \in 1..L /\ n + j = j + n
          /\ ~(k <= i) /\ n + j > j
      BY <1>1, <2>1, <2>5
    <3>2. t[k] = u[j + n]
      BY <1>3, <1>8, <3>1
    <3>3. h[k] = n + j
      BY <1>7, <2>2, <3>1
    <3> QED BY <1>1, <2>1, <2>2, <2>5, <3>1, <3>2, <3>3 DEF Hits
  <2> QED BY <1>1, <2>1, <2>3, <2>4, <2>5
<1>10. ASSUME NEW k \in Hits(t, F), NEW l \in Hits(t, F), h[k] = h[l] PROVE k = l
  BY <1>1, <1>9, <1>10
<1>11. Fewer(t, u, F)
  BY <1>9, <1>10, HitsMapped
<1> QED BY <1>11 DEF t, a, z, L

\* A queue of one frame.
LEMMA OneHit ==
    ASSUME NEW x, NEW F
    PROVE  (Has(<<x>>, F) <=> x \in F) /\ Once(<<x>>, F)
BY DEF Has, Hits, Once

\* A frame added to a queue without such frames is there once.
LEMMA AppendHits ==
    ASSUME NEW S, NEW u \in Seq(S), NEW x \in S, NEW F
    PROVE  /\ x \notin F => Fewer(Append(u, x), u, F)
           /\ ~Has(u, F) => Once(Append(u, x), F)
<1>1. Append(u, x) = u \o <<x>> /\ <<x>> \in Seq(S)
  OBVIOUS
<1>2. /\ Has(u \o <<x>>, F) => Has(u, F) \/ Has(<<x>>, F)
      /\ Once(u, F) /\ Once(<<x>>, F) /\ ~(Has(u, F) /\ Has(<<x>>, F))
           => Once(u \o <<x>>, F)
  BY <1>1, JoinHits
<1>3. ~Has(u, F) => Once(u, F)
  BY DEF Has, Once
<1> QED BY <1>1, <1>2, <1>3, OneHit DEF Fewer

\* An empty queue holds nothing.
LEMMA NoHits ==
    ASSUME NEW F PROVE ~Has(<<>>, F) /\ Once(<<>>, F)
BY DEF Has, Hits, Once

\* What stays in its place, or is dropped, needs no further look.
LEMMA PlacedFewer ==
    ASSUME NEW r \in Run, Placed(r),
           run'[r] \in {"none", "start", "stream"}
              => run[r] \in {"none", "start", "stream"},
           r \in ttsText' => r \in ttsText,
           Fewer(ttsIn', ttsIn, TextOf(r)),
           Fewer(playbackQueue', playbackQueue, WordsOf(r)),
           Fewer(up', up, WordsOf(r)),
           Fewer(spokenWords', spokenWords, {r}),
           Fewer(committed', committed, Said(r))
    PROVE  Placed(r)'
<1>1. PICK k \in 0..6 : WordsAt(r, k)
  BY DEF Placed
<1>2. WordsAt(r, k)'
  BY <1>1 DEF WordsAt, Fewer
<1> QED BY <1>2 DEF Placed, Fewer

\* A queue that does not change.
LEMMA SameFewer ==
    ASSUME NEW s, NEW F PROVE Fewer(s, s, F) /\ Fewer(<<>>, s, F)
BY NoHits DEF Fewer
\* What was spoken goes into the history as one message (commitSpokenText).
LEMMA PlacedCommit ==
    ASSUME StateType, NEW r \in Run, Placed(r), commitSpokenText,
           UNCHANGED <<run, ttsIn, ttsText, playbackQueue>>,
           Fewer(up', up, WordsOf(r))
    PROVE  Placed(r)'
<1>1. /\ committed \in Seq(Seq(Run)) /\ spokenWords \in Seq(Run)
      /\ spokenWords' = <<>>
      /\ committed' = committed \/ committed' = Append(committed, spokenWords)
  BY DEF StateType, commitSpokenText
<1>2. Fewer(spokenWords', spokenWords, {r})
  BY <1>1, SameFewer
<1>3. CASE committed' = committed \/ spokenWords \notin Said(r)
  <2>1. Fewer(committed', committed, Said(r))
    BY <1>1, <1>3, SameFewer, AppendHits
  <2> QED BY <1>2, <2>1, PlacedFewer, SameFewer
<1>4. CASE spokenWords \in Said(r)
  <2>1. Has(spokenWords, {r})
    BY <1>1, <1>4 DEF Said, Has, Hits
  <2>2. PICK k \in 0..6 : WordsAt(r, k)
    BY DEF Placed
  <2>3. k = 5
    BY <2>1, <2>2 DEF WordsAt
  <2>4. ~Has(committed, Said(r)) /\ Once(committed, Said(r))
    BY <2>2, <2>3 DEF WordsAt, Placed
  <2>5. Once(committed', Said(r))
    BY <1>1, <2>4, AppendHits
  <2>6. WordsAt(r, 6)'
    <3>1. ~Has(spokenWords', {r})
      BY <1>1, NoHits
    <3> QED BY <2>2, <2>3, <3>1 DEF WordsAt, Fewer
  <2> QED BY <1>1, <2>5, <2>6, NoHits DEF Placed, Fewer
<1> QED BY <1>3, <1>4

\* The aggregator takes words from below, and puts them into the history
\* (WordTimestampFrame, TTSDoneFrame).
LEMMA PlacedAggregator ==
    ASSUME LinkType, StateType, NEW r \in Run, Placed(r), User \/ Aggregator
    PROVE  Placed(r)'
<1>0. UNCHANGED <<run, playbackQueue, ttsText>>
  BY DEF User, Aggregator, llmVars, pbVars, ttsVars
<1>1. ASSUME NEW kind, TakeUp(kind)
      PROVE  /\ UNCHANGED ttsIn /\ Fewer(up', up, WordsOf(r))
             /\ up # <<>> /\ up \in Seq(UpFrame) /\ Head(up).kind = kind
             /\ up' = Tail(up)
  BY <1>1, TailHits DEF TakeUp, LinkType
<1>2. CASE AppendAndRun \/ Final \/ EndToken
  <2>1. /\ UNCHANGED <<ttsIn, up, committed>>
        /\ spokenWords' = spokenWords \/ spokenWords' = <<>>
    BY <1>2 DEF AppendAndRun, Final, EndToken, submitUserMessage, links, messages
  <2> QED BY <1>0, <2>1, PlacedFewer, SameFewer
<1>3. CASE BargeIn
  BY <1>0, <1>3, PlacedCommit, SameFewer DEF BargeIn
<1>4. CASE TTSDone
  BY <1>0, <1>1, <1>4, PlacedCommit DEF TTSDone
<1>5. CASE \/ addFunctionCallInProgress \/ applyFunctionCallResult
           \/ BotStartedSpeaking \/ BotStoppedSpeaking
  <2>1. /\ \E kind : TakeUp(kind)
        /\ UNCHANGED <<committed, spokenWords>>
    BY <1>5 DEF addFunctionCallInProgress, applyFunctionCallResult,
                BotStartedSpeaking, BotStoppedSpeaking, messages
  <2> QED BY <1>0, <1>1, <2>1, PlacedFewer, SameFewer
<1>6. CASE WordTimestamp
  <2>1. /\ TakeUp("words") /\ spokenWords' = Append(spokenWords, Head(up).run)
        /\ committed' = committed
    BY <1>6 DEF WordTimestamp, messages
  <2>2. PICK h \in UpFrame : h = Head(up) /\ h.kind = "words"
    BY <1>1, <2>1
  <2>3. h.run \in Run /\ h = [kind |-> "words", run |-> h.run]
    BY <2>2 DEF UpFrame, ToolFrame
  <2>4. spokenWords \in Seq(Run) /\ spokenWords' = Append(spokenWords, h.run)
    BY <2>1, <2>2 DEF StateType
  <2>5. CASE h.run # r
    <3>1. Fewer(spokenWords', spokenWords, {r})
      BY <2>3, <2>4, <2>5, AppendHits
    <3> QED BY <1>0, <1>1, <2>1, <3>1, PlacedFewer, SameFewer
  <2>6. CASE h.run = r
    <3>1. h \in WordsOf(r)
      BY <2>3, <2>6 DEF WordsOf
    <3>2. Has(up, WordsOf(r)) /\ ~Has(up', WordsOf(r))
      BY <1>1, <2>1, <2>2, <3>1, TailHits DEF Placed
    <3>3. PICK k \in 0..6 : WordsAt(r, k)
      BY DEF Placed
    <3>4. k = 4
      BY <3>2, <3>3 DEF WordsAt
    <3>5. ~Has(spokenWords, {r})
      BY <3>3, <3>4 DEF WordsAt
    <3>6. Once(spokenWords', {r})
      BY <2>3, <2>4, <3>5, AppendHits
    <3>7. WordsAt(r, 5)'
      BY <1>0, <1>1, <2>1, <3>2, <3>3, <3>4 DEF WordsAt
    <3>8. Once(up', WordsOf(r))
      BY <1>1, <2>1 DEF Fewer, Placed
    <3> QED BY <1>0, <1>1, <2>1, <3>6, <3>7, <3>8 DEF Placed
  <2> QED BY <2>5, <2>6
<1> QED BY <1>2, <1>3, <1>4, <1>5, <1>6 DEF User, UserStep, Aggregator, UpStep

\* The frames of tool calls carry no words.
LEMMA ToolsFewer ==
    ASSUME LinkType, StateType, NEW q \in Run, executeToolCalls(q), NEW r \in Run
    PROVE  Fewer(up', up, WordsOf(r))
<1>1. up \in Seq(UpFrame)
  BY DEF LinkType
<1>2. ASSUME NEW s \in Seq(UpFrame), PushFromLLM(s),
             \A n \in DOMAIN s : s[n].kind # "words"
      PROVE  Fewer(up', up, WordsOf(r))
  <2>1. PICK i \in Nat : Inserted(up', up, i, s)
    BY <1>1, <1>2, PushInserts
  <2>2. ~Has(s, WordsOf(r))
    BY <1>2 DEF Has, Hits, WordsOf
  <2> QED BY <1>1, <2>1, <2>2, InsertFewer
<1>3. CASE ToolAnnounce(q)
  <2> DEFINE s == [n \in 1..calls[q] |-> [kind |-> "call", call |-> <<q, n>>]]
  <2>1. calls[q] \in Nat /\ calls[q] <= MaxCalls
    BY LinksAssumption DEF StateType
  <2>2. ASSUME NEW n \in 1..calls[q]
        PROVE  [kind |-> "call", call |-> <<q, n>>] \in UpFrame
    <3>1. <<q, n>> \in Call
      BY <2>1, LinksAssumption DEF Call
    <3> QED BY <3>1 DEF UpFrame, ToolFrame
  <2>3. s \in [1..calls[q] -> UpFrame] /\ \A n \in DOMAIN s : s[n].kind = "call"
    BY <2>2
  <2>4. PushFromLLM(s)
    BY <1>3 DEF ToolAnnounce
  <2> HIDE DEF s
  <2>5. s \in Seq(UpFrame)
    BY <2>1, <2>3
  <2> QED BY <1>2, <2>3, <2>4, <2>5
<1>4. CASE ToolCollect(q)
  <2>1. PICK c \in CallsOf(q) : \E w \in BOOLEAN :
           PushFromLLM(<<[kind |-> "result", call |-> c, runLLM |-> w]>>)
    BY <1>4 DEF ToolCollect
  <2>2. PICK w \in BOOLEAN :
           PushFromLLM(<<[kind |-> "result", call |-> c, runLLM |-> w]>>)
    BY <2>1
  <2>3. PICK h \in UpFrame : h = [kind |-> "result", call |-> c, runLLM |-> w]
    BY DEF UpFrame, ToolFrame, CallsOf
  <2>4. PushFromLLM(<<h>>)
    BY <2>2, <2>3, Zenon
  <2>5. <<h>> \in Seq(UpFrame) /\ \A n \in DOMAIN <<h>> : <<h>>[n].kind # "words"
    BY <2>3
  <2> QED BY <1>2, <2>4, <2>5
<1> QED BY <1>3, <1>4 DEF executeToolCalls

\* A response's text is pushed to TTS once (RunToken); nothing else that the LLM stage
\* does moves words.
LEMMA PlacedLLM ==
    ASSUME LinkType, StateType, LiveInv, FreshInv, NEW r \in Run, Placed(r), LLM
    PROVE  Placed(r)'
<1>0. UNCHANGED <<committed, spokenWords, playbackQueue, ttsText>>
  BY DEF LLM, caVars, messages, pbVars, ttsVars
<1>1. run'[r] \in {"none", "start", "stream"} => run[r] \in {"none", "start", "stream"}
  BY FreshLLM
<1>2. up \in Seq(UpFrame) /\ ttsIn \in Seq(Speech)
  BY DEF LinkType
<1>3. ASSUME NEW k \in {"start", "text", "rend"}, NEW q \in Run, NEW w \in BOOLEAN,
             PushTTS(k, q, w)
      PROVE  \E f \in Speech : /\ ttsIn' = Append(ttsIn, f)
                               /\ f.kind = k /\ f.run = q
  <2> DEFINE l == w /\ ttsSys > 0
  <2>1. l \in BOOLEAN
    OBVIOUS
  <2>2. ttsIn' = Append(ttsIn, [kind |-> k, run |-> q, late |-> l])
    BY <1>3 DEF PushTTS
  <2> HIDE DEF l
  <2>3. PICK f \in Speech : f = [kind |-> k, run |-> q, late |-> l]
    BY <2>1 DEF Speech
  <2> QED BY <2>2, <2>3
<1>4. ASSUME NEW f \in Speech, ttsIn' = Append(ttsIn, f),
             f.kind # "text" \/ f.run # r
      PROVE  Fewer(ttsIn', ttsIn, TextOf(r))
  <2>1. f \notin TextOf(r)
    BY <1>4 DEF TextOf
  <2> QED BY <1>2, <1>4, <2>1, AppendHits
<1>5. CASE TakeMessages
  BY <1>0, <1>1, <1>5, PlacedFewer, SameFewer DEF TakeMessages
<1>6. CASE Interrupt
  BY <1>0, <1>1, <1>2, <1>6, PlacedFewer, SameFewer, PurgeFewer DEF Interrupt
<1>7. ASSUME NEW q \in Run, runLLM(q) PROVE Placed(r)'
  <2>0. up' = up /\ (q \notin cancelled) \in BOOLEAN
    BY <1>7 DEF runLLM, RunStart, RunToken, RunCheck, RunEnd, links
  <2>1. CASE RunCheck(q)
    BY <1>0, <1>1, <2>0, <2>1, PlacedFewer, SameFewer DEF RunCheck, links
  <2>2. CASE RunStart(q) \/ RunEnd(q) \/ (RunToken(q) /\ q # r)
    <3>1. \E f \in Speech : /\ ttsIn' = Append(ttsIn, f)
                            /\ f.kind # "text" \/ f.run # r
      <4>1. CASE RunStart(q)
        <5>1. PushTTS("start", q, q \notin cancelled)
          BY <4>1 DEF RunStart, RunPush
        <5> QED BY <1>3, <2>0, <5>1
      <4>2. CASE RunEnd(q)
        <5>1. PushTTS("rend", q, q \notin cancelled)
          BY <4>2 DEF RunEnd, RunPush
        <5> QED BY <1>3, <2>0, <5>1
      <4>3. CASE RunToken(q) /\ q # r
        <5>1. PushTTS("text", q, q \notin cancelled)
          BY <4>3 DEF RunToken, RunPush
        <5> QED BY <1>3, <2>0, <4>3, <5>1
      <4> QED BY <2>2, <4>1, <4>2, <4>3
    <3> QED BY <1>0, <1>1, <1>4, <2>0, <3>1, PlacedFewer, SameFewer
  <2>3. CASE RunToken(q) /\ q = r
    <3>1. run[r] = "stream" /\ run'[r] = "streamed"
      BY <2>3 DEF RunToken, RunPush, LiveInv
    <3>2. PushTTS("text", r, r \notin cancelled)
      BY <2>3 DEF RunToken, RunPush
    <3>3. PICK f \in Speech : ttsIn' = Append(ttsIn, f)
      BY <1>3, <2>0, <2>3, <3>2
    <3>4. WordsAt(r, 0)
      BY <3>1 DEF Placed, WordsAt
    <3>5. ~Has(ttsIn, TextOf(r))
      BY <3>4 DEF WordsAt
    <3>6. Once(ttsIn', TextOf(r))
      BY <1>2, <3>3, <3>5, AppendHits
    <3>7. WordsAt(r, 1)'
      BY <1>0, <2>0, <3>1, <3>4 DEF WordsAt
    <3> QED BY <1>0, <2>0, <3>6, <3>7 DEF Placed
  <2> QED BY <1>7, <2>1, <2>2, <2>3 DEF runLLM
<1>8. ASSUME NEW q \in Run, executeToolCalls(q) PROVE Placed(r)'
  <2>1. ttsIn' = ttsIn
    BY <1>8 DEF executeToolCalls, ToolAnnounce, ToolCollect
  <2>2. Fewer(up', up, WordsOf(r))
    BY <1>8, ToolsFewer
  <2> QED BY <1>0, <1>1, <2>1, <2>2, PlacedFewer, SameFewer
<1> QED BY <1>5, <1>6, <1>7, <1>8 DEF LLM, LLMStep
\* TTS hands the text it takes to Cartesia, and Cartesia's words to playback
\* (TTSProcessor as its neighbours see it).
LEMMA PlacedSpeech ==
    ASSUME LinkType, StateType, NEW r \in Run, Placed(r), TTSStep
    PROVE  Placed(r)'
<1>0. UNCHANGED <<run, committed, spokenWords>>
  BY DEF TTSStep, SpeakStart, SpeakText, SpeakEnd, SpeakInterrupt, SpeakAudio,
         SpeakDone, InterruptTTS, TakeTTS, caVars, llmVars, messages
<1>1. ttsIn \in Seq(Speech) /\ up \in Seq(UpFrame) /\ playbackQueue \in Seq(PlayFrame)
  BY DEF LinkType
<1>2. ASSUME NEW kind, TakeTTS(kind)
      PROVE  /\ up' = up /\ Fewer(ttsIn', ttsIn, TextOf(r))
             /\ ttsIn # <<>> /\ ttsIn' = Tail(ttsIn) /\ Head(ttsIn).kind = kind
  BY <1>1, <1>2, TailHits DEF TakeTTS
<1>3. ASSUME NEW f \in PlayFrame, f.kind # "words", QueueFrames(<<f>>)
      PROVE  Fewer(playbackQueue', playbackQueue, WordsOf(r))
  <2>1. \/ playbackQueue' = playbackQueue
        \/ playbackQueue' = playbackQueue \o <<f>>
    BY <1>3 DEF QueueFrames
  <2>2. playbackQueue \o <<f>> = Append(playbackQueue, f) /\ f \notin WordsOf(r)
    BY <1>1, <1>3 DEF WordsOf
  <2> QED BY <1>1, <2>1, <2>2, SameFewer, AppendHits
<1>4. \E f \in PlayFrame : f = [kind |-> "done", run |-> ttsCtx] /\ f.kind = "done"
  <2>1. [kind |-> "done", run |-> ttsCtx] \in PlayFrame
    BY DEF PlayFrame, LinkType
  <2> QED BY <2>1
<1>5. CASE SpeakStart
  <2>1. playbackQueue' = <<>> /\ ttsText' = {}
    BY <1>5 DEF SpeakStart, clearTTSState, ResponseStart
  <2> QED BY <1>0, <1>2, <1>5, <2>1, PlacedFewer, SameFewer DEF SpeakStart
<1>6. CASE SpeakText
  <2>1. /\ TakeTTS("text") /\ playbackQueue' = playbackQueue
        /\ ttsText' = ttsText \/ ttsText' = ttsText \cup {Head(ttsIn).run}
    BY <1>6 DEF SpeakText, pbVars
  <2>2. CASE r \in ttsText' => r \in ttsText
    BY <1>0, <1>2, <2>1, <2>2, PlacedFewer, SameFewer
  <2>3. CASE r \notin ttsText /\ r \in ttsText'
    <3>1. Head(ttsIn).run = r /\ Head(ttsIn).kind = "text" /\ Head(ttsIn) \in Speech
      BY <1>1, <1>2, <2>1, <2>3
    <3>2. Head(ttsIn) \in TextOf(r)
      BY <3>1 DEF TextOf
    <3>3. Has(ttsIn, TextOf(r)) /\ ~Has(ttsIn', TextOf(r))
      BY <1>1, <1>2, <2>1, <3>2, TailHits DEF Placed
    <3>4. PICK k \in 0..6 : WordsAt(r, k)
      BY DEF Placed
    <3>5. k = 1
      BY <3>3, <3>4 DEF WordsAt
    <3>6. WordsAt(r, 2)'
      BY <1>0, <1>2, <2>1, <3>3, <3>4, <3>5 DEF WordsAt
    <3>7. Once(ttsIn', TextOf(r))
      BY <1>2, <2>1 DEF Fewer, Placed
    <3> QED BY <1>0, <1>2, <2>1, <3>6, <3>7 DEF Placed
  <2> QED BY <2>2, <2>3
<1>7. CASE SpeakEnd
  <2>1. Fewer(playbackQueue', playbackQueue, WordsOf(r))
    <3>1. CASE ttsOwed
      BY <1>7, <3>1, SameFewer DEF SpeakEnd, pbVars
    <3>2. CASE ~ttsOwed
      <4>1. PICK f \in PlayFrame : f = [kind |-> "done", run |-> ttsCtx] /\ f.kind = "done"
        BY <1>4
      <4>2. QueueFrames(<<[kind |-> "done", run |-> ttsCtx]>>)
        BY <1>7, <3>2 DEF SpeakEnd
      <4>3. QueueFrames(<<f>>)
        BY <4>1, <4>2, Zenon
      <4> QED BY <1>3, <4>1, <4>3
    <3> QED BY <3>1, <3>2
  <2> QED BY <1>0, <1>2, <1>7, <2>1, PlacedFewer, SameFewer DEF SpeakEnd
<1>8. CASE SpeakInterrupt
  BY <1>0, <1>2, <1>8, PlacedFewer, SameFewer DEF SpeakInterrupt, clearTTSState, pbVars
<1>9. CASE SpeakAudio
  <2>1. PICK q \in ttsText :
          /\ ttsText' = ttsText \ {q}
          /\ QueueFrames(<<[kind |-> "audio"], [kind |-> "words", run |-> q]>>)
    BY <1>9 DEF SpeakAudio
  <2>2. q \in Run
    BY DEF LinkType
  <2>3. PICK a \in PlayFrame, w \in PlayFrame :
           a = [kind |-> "audio"] /\ w = [kind |-> "words", run |-> q] /\ a.kind # w.kind
    <3>1. /\ [kind |-> "audio"] \in PlayFrame
          /\ [kind |-> "words", run |-> q] \in PlayFrame
          /\ [kind |-> "audio"].kind # [kind |-> "words", run |-> q].kind
      BY <2>2 DEF PlayFrame
    <3> QED BY <3>1, Zenon
  <2>4. QueueFrames(<<a, w>>)
    BY <2>1, <2>3, Zenon
  <2>5. \/ playbackQueue' = playbackQueue
        \/ playbackQueue' = playbackQueue \o <<a, w>>
    BY <2>4 DEF QueueFrames
  <2>6. <<a, w>> \in Seq(PlayFrame) /\ UNCHANGED <<ttsIn, up>>
    BY <1>9 DEF SpeakAudio, links
  <2>7. /\ q # r => ~Has(<<a, w>>, WordsOf(r))
        /\ Once(<<a, w>>, WordsOf(r))
    BY <2>3 DEF Has, Once, Hits, WordsOf
  <2>8. CASE q # r \/ playbackQueue' = playbackQueue
    <3>1. Fewer(playbackQueue', playbackQueue, WordsOf(r))
      <4>1. ASSUME q # r, playbackQueue' = playbackQueue \o <<a, w>>
            PROVE  Fewer(playbackQueue', playbackQueue, WordsOf(r))
        <5>1. ~Has(<<a, w>>, WordsOf(r)) /\ Once(<<a, w>>, WordsOf(r))
          BY <2>7, <4>1
        <5> QED BY <1>1, <2>6, <4>1, <5>1, JoinHits DEF Fewer
      <4> QED BY <2>5, <2>8, <4>1, SameFewer
    <3> QED BY <1>0, <2>1, <2>6, <3>1, PlacedFewer, SameFewer
  <2>9. CASE q = r /\ playbackQueue' = playbackQueue \o <<a, w>>
    <3>1. PICK k \in 0..6 : WordsAt(r, k)
      BY DEF Placed
    <3>2. k = 2
      BY <2>9, <3>1 DEF WordsAt
    <3>3. ~Has(playbackQueue, WordsOf(r)) /\ Once(playbackQueue, WordsOf(r))
      BY <3>1, <3>2 DEF WordsAt, Placed
    <3>4. Once(playbackQueue', WordsOf(r))
      BY <1>1, <2>6, <2>7, <2>9, <3>3, JoinHits
    <3>5. WordsAt(r, 3)'
      BY <1>0, <2>1, <2>6, <2>9, <3>1, <3>2 DEF WordsAt
    <3> QED BY <1>0, <2>6, <3>4, <3>5 DEF Placed
  <2> QED BY <2>5, <2>8, <2>9
<1>10. CASE SpeakDone
  <2>1. PICK f \in PlayFrame : f = [kind |-> "done", run |-> ttsCtx] /\ f.kind = "done"
    BY <1>4
  <2>2. QueueFrames(<<[kind |-> "done", run |-> ttsCtx]>>)
    BY <1>10 DEF SpeakDone
  <2>3. QueueFrames(<<f>>)
    BY <2>1, <2>2, Zenon
  <2>4. Fewer(playbackQueue', playbackQueue, WordsOf(r))
    BY <1>3, <2>1, <2>3
  <2>5. UNCHANGED <<ttsIn, up, ttsText>>
    BY <1>10 DEF SpeakDone, links
  <2> QED BY <1>0, <2>4, <2>5, PlacedFewer, SameFewer
<1>11. CASE InterruptTTS
  <2>1. PICK i \in 0..Len(ttsIn) : \E j \in i..Len(ttsIn) :
          ttsIn' = SubSeq(ttsIn, 1, i) \o <<[kind |-> "interrupt"]>>
                     \o SubSeq(ttsIn, j + 1, Len(ttsIn))
    BY <1>11 DEF InterruptTTS
  <2>2. PICK j \in i..Len(ttsIn) :
          ttsIn' = SubSeq(ttsIn, 1, i) \o <<[kind |-> "interrupt"]>>
                     \o SubSeq(ttsIn, j + 1, Len(ttsIn))
    BY <2>1
  <2>3. PICK f \in Speech : f = [kind |-> "interrupt"] /\ f.kind = "interrupt"
    <3>1. [kind |-> "interrupt"] \in Speech /\ [kind |-> "interrupt"].kind = "interrupt"
      BY DEF Speech
    <3> QED BY <3>1, Zenon
  <2>4. f \notin TextOf(r)
    BY <2>3 DEF TextOf
  <2>5. ttsIn' = SubSeq(ttsIn, 1, i) \o <<f>> \o SubSeq(ttsIn, j + 1, Len(ttsIn))
    BY <2>2, <2>3, Zenon
  <2>6. Fewer(ttsIn', ttsIn, TextOf(r))
    BY <1>1, <2>4, <2>5, CutFewer
  <2>7. playbackQueue' = <<>> /\ ttsText' = ttsText /\ PurgeUp
    BY <1>11 DEF InterruptTTS, InterruptPlayback, ttsVars
  <2>8. Fewer(up', up, WordsOf(r))
    BY <1>1, <2>7, PurgeFewer
  <2> QED BY <1>0, <2>6, <2>7, <2>8, PlacedFewer, SameFewer
<1> QED BY <1>5, <1>6, <1>7, <1>8, <1>9, <1>10, <1>11 DEF TTSStep

\* Words go up when the audio before them has been played (tick).
LEMMA PlacedPlay ==
    ASSUME LinkType, StateType, NEW r \in Run, Placed(r), Play
    PROVE  Placed(r)'
<1>1. PICK f \in PlayFrame : f = Head(playbackQueue)
  BY DEF Play, tick, LinkType
<1>2. /\ playbackQueue # <<>> /\ playbackQueue' = Tail(playbackQueue)
      /\ up' = up \o Report(f)
      /\ UNCHANGED <<run, committed, spokenWords, ttsIn, ttsText>>
  BY <1>1 DEF Play, tick, caVars, messages, llmVars, ttsVars
<1>3. /\ playbackQueue \in Seq(PlayFrame) /\ up \in Seq(UpFrame)
      /\ Report(f) \in Seq(UpFrame)
  BY ReportType DEF LinkType
<1>4. Fewer(playbackQueue', playbackQueue, WordsOf(r))
  BY <1>2, <1>3, TailHits
<1>5. CASE f.kind = "words"
  <2>1. Report(f) = <<f>> /\ f = [kind |-> "words", run |-> f.run]
    BY <1>5 DEF Report, PlayFrame
  <2>2. f \in UpFrame /\ up' = Append(up, f)
    BY <1>2, <1>3, <2>1, <1>5 DEF PlayFrame, UpFrame
  <2>3. CASE f.run # r
    <3>1. f \notin WordsOf(r)
      BY <2>1, <2>3 DEF WordsOf
    <3>2. Fewer(up', up, WordsOf(r))
      BY <1>3, <2>2, <3>1, AppendHits
    <3> QED BY <1>2, <1>4, <3>2, PlacedFewer, SameFewer
  <2>4. CASE f.run = r
    <3>1. f \in WordsOf(r)
      BY <2>1, <2>4 DEF WordsOf
    <3>2. Has(playbackQueue, WordsOf(r)) /\ ~Has(playbackQueue', WordsOf(r))
      BY <1>1, <1>2, <1>3, <3>1, TailHits DEF Placed
    <3>3. PICK k \in 0..6 : WordsAt(r, k)
      BY DEF Placed
    <3>4. k = 3
      BY <3>2, <3>3 DEF WordsAt
    <3>5. ~Has(up, WordsOf(r))
      BY <3>3, <3>4 DEF WordsAt
    <3>6. Once(up', WordsOf(r))
      BY <1>3, <2>2, <3>5, AppendHits
    <3>7. WordsAt(r, 4)'
      BY <1>2, <3>2, <3>3, <3>4 DEF WordsAt
    <3> QED BY <1>2, <1>4, <3>6, <3>7 DEF Placed, Fewer
  <2> QED BY <2>3, <2>4
<1>6. CASE f.kind # "words"
  <2>1. \A n \in DOMAIN Report(f) : Report(f)[n].kind # "words"
    BY <1>6, ReportType
  <2>2. ~Has(Report(f), WordsOf(r)) /\ Once(Report(f), WordsOf(r))
    BY <2>1 DEF Has, Once, Hits, WordsOf
  <2>3. Fewer(up', up, WordsOf(r))
    BY <1>2, <1>3, <2>2, JoinHits DEF Fewer
  <2> QED BY <1>2, <1>4, <2>3, PlacedFewer, SameFewer
<1> QED BY <1>5, <1>6

\* Every step keeps the words of each response in one place.
LEMMA WordsNext ==
    /\ Init => WordsInv
    /\ LinkType /\ StateType /\ LiveInv /\ FreshInv /\ WordsInv /\ [Next]_vars
         => WordsInv'
<1>1. ASSUME Init, NEW r \in Run PROVE Placed(r)
  <2>1. /\ ttsIn = <<>> /\ up = <<>> /\ playbackQueue = <<>> /\ spokenWords = <<>>
        /\ committed = <<>> /\ ttsText = {}
    BY <1>1 DEF Init, LinksInit, CAInit, PBInit, TTSInit
  <2>2. WordsAt(r, 0)
    BY <2>1, NoHits DEF WordsAt
  <2> QED BY <2>1, <2>2, NoHits DEF Placed
<1>2. ASSUME LinkType, StateType, LiveInv, FreshInv, WordsInv, [Next]_vars,
             NEW r \in Run
      PROVE  Placed(r)'
  <2>1. Placed(r)
    BY <1>2 DEF WordsInv
  <2>2. CASE UNCHANGED vars
    <3>1. UNCHANGED <<run, ttsIn, ttsText, playbackQueue, up, spokenWords, committed>>
      BY <2>2 DEF vars, links, caVars, messages, llmVars, pbVars, ttsVars
    <3> QED BY <2>1, <3>1, PlacedFewer, SameFewer
  <2> QED BY <1>2, <2>1, <2>2, PlacedAggregator, PlacedLLM, PlacedSpeech, PlacedPlay
          DEF Next, Pipeline
<1> QED BY <1>1, <1>2 DEF WordsInv

\* What the bot said is committed to the history at most once, across barge-in, the
\* regular end of a turn and word frames that come late, for any number of turns
\* (commitSpokenText, WordTimestampFrame, TTSDoneFrame).
THEOREM SaidOnce == Spec => []WordsOnce
<1>1. ASSUME StateType, WordsInv, NEW r \in Run
      PROVE  Cardinality({i \in DOMAIN committed : Times(r, committed[i]) > 0})
               + Times(r, spokenWords) <= 1
  <2> DEFINE A == {i \in DOMAIN committed : Times(r, committed[i]) > 0}
             B == {i \in DOMAIN spokenWords : spokenWords[i] = r}
  <2>1. Times(r, spokenWords) = Cardinality(B)
    BY DEF Times
  <2>2. A \subseteq Hits(committed, Said(r))
    <3> SUFFICES ASSUME NEW i \in A PROVE committed[i] \in Said(r)
      BY DEF Hits
    <3>1. committed[i] \in Seq(Run)
      BY <1>1 DEF StateType
    <3>2. CASE {n \in DOMAIN committed[i] : committed[i][n] = r} = {}
      <4>1. Times(r, committed[i]) = 0
        BY <3>2, FS_EmptySet DEF Times
      <4> QED BY <4>1
    <3>3. CASE {n \in DOMAIN committed[i] : committed[i][n] = r} # {}
      BY <3>1, <3>3 DEF Said
    <3> QED BY <3>2, <3>3
  <2>3. B = Hits(spokenWords, {r})
    BY DEF Hits
  <2> HIDE DEF A, B
  <2>4. /\ Once(committed, Said(r)) /\ Once(spokenWords, {r})
        /\ ~(Has(committed, Said(r)) /\ Has(spokenWords, {r}))
    <3>1. Placed(r)
      BY <1>1 DEF WordsInv
    <3>2. PICK k \in 0..6 : WordsAt(r, k)
      BY <3>1 DEF Placed
    <3> QED BY <3>1, <3>2 DEF Placed, WordsAt
  <2>5. ASSUME NEW T, \A i, j \in T : i = j
        PROVE  Cardinality(T) = 0 \/ Cardinality(T) = 1
    <3>1. CASE T = {}
      BY <3>1, FS_EmptySet
    <3>2. CASE T # {}
      <4>1. PICK i \in T : TRUE
        BY <3>2
      <4>2. T = {i}
        BY <2>5, <4>1
      <4> QED BY <4>2, FS_Singleton
    <3> QED BY <3>1, <3>2
  <2>6. Cardinality(A) = 0 \/ Cardinality(A) = 1
    BY <2>2, <2>4, <2>5 DEF Once
  <2>7. Cardinality(B) = 0 \/ Cardinality(B) = 1
    BY <2>3, <2>4, <2>5 DEF Once
  <2>8. A = {} \/ B = {}
    BY <2>2, <2>3, <2>4 DEF Has
  <2>9. Cardinality(A) = 0 \/ Cardinality(B) = 0
    BY <2>8, FS_EmptySet
  <2>10. Cardinality(A) + Cardinality(B) <= 1
    BY <2>6, <2>7, <2>9
  <2> QED BY <2>1, <2>10 DEF A
<1>2. StateType /\ WordsInv => WordsOnce
  BY <1>1 DEF WordsOnce
<1> QED
  BY <1>2, LiveInit, LiveNext, LinkNext, FreshNext, WordsNext, PTL DEF Spec
=============================================================================
