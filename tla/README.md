# talk-go: a TLA+ model of the voice pipeline

talk-go runs real-time voice calls. A worker process accepts a conversation over
HTTP, joins a room, and wires a chain of processors through which audio,
transcripts, LLM text and synthesised speech flow as frames. This directory holds
a model of the parts that decide whether such a call behaves: TLA+ modules
translated from the Go source, TLC configurations for small instances, and
TLAPS proofs of the safety of every main component, from the protocol all processors are
built on to the end of a call and the conversation itself.

## 1. The system

Paths are relative to `src/`. The chain of a sales call (`disha/sales_call.go:156-167`):

    source -> audioSource -> stt -> userIdle -> contextAggregator -> talkTime -> llm -> tts -> playback -> sink

Every arrow is `QueueFrame` on the neighbour (frames also travel upstream). A frame is
*system* (InterruptFrame, ErrorFrame), *interruptible data*, or *data that survives
interrupts* (EndFrame, FunctionCallInProgress, FunctionCallResult).

| Component | State | Operations | Talks to | What is hard | Correct when |
|---|---|---|---|---|---|
| `BaseProcessor` (`processor.go`, `frame.go`) | three bounded channels, two contexts, `cancelling`, `procWG` | Start, Stop, QueueFrame, inputLoop, processLoop, interruptProcessLoop | both neighbours, the embedding processor's `ProcessFrame` | cancel-and-recreate of processLoop while frames are queued; a bounded wait; blocking sends in both directions | handlers never overlap, nothing that must survive an interrupt is lost or reordered, EndFrame stops everything |
| Call-event dispatcher (`call_events.go`) | mutex, closing flag, queue, done | fire*, dispatch, run, stopAndDrain | processors and room callbacks (producers), Disha callbacks | check-then-send against close; full queue | no send on a closed queue, callbacks in order, drain complete |
| `PipelineTask` (`pipeline.go`, `pipeline_edges.go`) | endRequested, cleanupStarted, endReason, wait group, context | SetPipeline, Start, End, CompleteEnd, runCleanup, Abort | rooms, processors, dispatcher, worker | several goroutines end the call at once, during assembly, during cleanup | one EndFrame, one cleanup, one reason, the worker is handed back |
| `TTSProcessor` (`tts_processor.go`) | synthesis context, aggregated text, `cartesiaTextSent`, pending end, two bounded channels, a websocket | ProcessFrame, orchestrator commands, Cartesia events, reader with reconnect | LLM, playback, Cartesia | three goroutines; interrupt against late events; EndFrame deferred to the last word; reconnect | no speech of a cut-off answer, no word lost before the end, every turn closed |
| Worker runtime (`worker_api.go`, `main.go`, `disha/gke_pod.go`) | active/reserved/conversation, task, session registry, eviction annotation | mark reserved, create room, run, release, status | Disha backend, Kubernetes, PipelineTask | retried requests, failing remote calls, release racing the next reservation | one bot at a time, on a pinned pod, always released |
| `ContextAggregator` (`context_aggregator.go`) | message history, current user turn, words spoken, interrupt flags | transcripts, words, function-call frames, bot started/stopped, append | STT, TTS/playback (upstream words), LLM | barge-in commits what was spoken while late words arrive; parallel tool calls | history is what was said; each turn answered |
| `LLMProcessor` (`llm_processor.go`, `tool_calls.go`) | cancel function of the current run | messages, interrupt, runLLM goroutine, tools | router, ContextAggregator, TTS | detached goroutine checks its context, then pushes | no frame of a cancelled run after the reset; calls resolved |
| `PlaybackSinkProcessor` | queue of audio and words, interrupted flag, speaking state | ticker, interrupt, drain at EndFrame | room, TTS, upstream words | 20 ms timer against interrupts; drain at the end | words follow their audio; started and stopped alternate |
| `UserIdleProcessor`, `TalkTimeMonitoringProcessor` | idle timer, prompt count, watchdog and its reset channel, budget | activity, prompt, end | task, TTS | a timer that fires while the user speaks; frames that keep restarting it | nobody is hung up on while talking, and every call ends |
| Rooms (`livekit_room.go`, `daily_room.go`) | SDK connection or bridge process, join result, greeting | join with retries, callbacks, disconnect | SDK, bridge, PipelineTask, audio source | a join that times out beside a bridge that is still joining; callbacks before the pipeline exists | in the room once, and gone when the call is over |
| `AudioSourceProcessor`, `STTProcessor` | websocket, bounded audio channel | dial, read, redial, write, Stop | room, Soniox, UserIdle | Stop under a blocked read or dial; audio without a connection | the reader exits, and the EndFrame passes |
| Callbacks and clients (`disha/call_event_callbacks.go`, `api_client.go`, `redis_client.go`, `s3_uploader.go`) | chunk list, job queue | append, update, report, enqueue, upload | dispatcher, Redis, Disha | requests that fail, or take effect and look failed; retries | the conversation is recorded in order and the end reported |
| Call start-up (`disha/call_startup.go`) | none | replay stored chunks | database, LLM | chunks of one moment come back in any order | the provider accepts what is replayed |
| LLM router (`llmrouter/`) | health records and lock in Redis | select, stream, blacklist, trigger a poll | Redis, poller, providers | read-modify-write by several calls and the poller; a lock whose SETNX is retried | a failing endpoint is left, a healthy one found again |
| Pod lifecycle (`disha/worker_lifecycle.go`, `signal_handler.go`, `abrupt_shutdown.go`) | registration key, shutdown flag, jobs | register, SIGTERM, exit | Redis, Disha, Kubernetes | a crash between two remote steps; SIGTERM at any time | what serves is registered, what is deleted leaves the pool |
| Codecs, prompts, providers, metrics | little or none | I/O and data conversion | external services | - | - |

The hazards, each at its line and with the properties about it, are in `PROJECT.json`.

## 2. Modules

| Module | Models | State and actions |
|---|---|---|
| `BaseProcessor` | one processor's goroutines | variables are the Go fields and the program counters of inputLoop (`inPC`), of each processLoop (`loop`, named after the interrupt that created it) and of the goroutine each interrupt spawns to wait on `procWG` (`waiter`). An action is one channel operation, select branch or assignment that another goroutine can observe. `ProcessFrame` is opaque: it starts, takes any time, returns |
| `Mailbox` | what a processor promises those who send it data frames | the abstract specification: frames are handled in order and once, an interrupt removes the interruptible ones in its reach, only a cancelled processor loses others |
| `CallEvents` | the dispatcher | `Fire` takes the mutex after the once and closing checks, `Dispatch` is the non-blocking send and unlock |
| `PipelineTask` (EXTENDS `CallEvents`) | a task from assembly to cleanup | `End` is five steps per caller (check, CompareAndSwap, recheck, reason, queue); `runCleanup` is one action per stage; processors between source and sink are reduced to forwarding their EndFrame |
| `TTSProcessor` | the TTS stage and its use of Cartesia | relay (processLoop), interrupt path (inputLoop), orchestrator (one action per command and event), reader; Cartesia is external and known only through its websocket messages. The purge of the base processor is abstracted to "some prefix of the inbox is purged", which is what `BaseProcessor` shows it may do |
| `WorkerRuntime` | one worker process | one action per step between which another request can be served; Disha is external: reserves a free worker, forwards, re-sends, processes cleanup jobs |
| `ConversationLinks` | the channels between aggregator, LLM, TTS and playback | one queue per link and direction; an interrupt purges any part of a queue that can be in a procCh |
| `ContextAggregator` | turn taking and history | one action per frame kind of `ProcessFrame`; the history is reduced to its assistant messages (`committed`) and tool messages (`toolMessage`) |
| `LLMProcessor` | the LLM stage | `run[r]` is the program counter of the goroutine of request r, from its start frame over the cancellation check to its tool calls |
| `Playback` | the playback goroutine | the queue, and a `tick` that takes one frame as one pass of the code's loop does, and reports words, started, stopped and done |
| `Conversation` (EXTENDS the three above) | a conversation | adds a TTS stage that promises what `TTSProcessor` shows: speech of the current context in order, done after a closed one |
| `WorkerPod` (EXTENDS `WorkerRuntime`) | the pod around the worker | `proc` is the step of `RegisterWorkerPod`, `term` that of the signal goroutine; a crash can follow any step and clears what is in memory (`Dies`); Kubernetes and the job queue are external |
| `CallLife` | what a task promises | the abstract specification: a request is accepted, announced, reported once, and the worker handed back when nothing is at work |
| `CallStartup` | replay of a stored conversation | pure operators. `reorderToolResultMessages` is stated by where its loops put a message: each message has a place (`PlaceOf`), and the result lists the places in order |
| `CallRecord` (EXTENDS `PipelineTask`, `CallStartup`) | what callbacks leave at Disha | a callback is a sequence of remote operations (`todo`); an outcome says how often a request took effect and whether the caller saw it succeed, so a lost response and a repeated RPUSH are ordinary cases |
| `Rooms` | both transports | `join` is the program counter of the join and of Disconnect, `result` the once-only join result, `conn` the bridge process or SDK connection. The join's back-off never sees its task context cancelled, since nothing can cancel it that early |
| `SpeechToText` | the STT stage | reader (`reader`), writer, the bounded `audio` channel with its blocking handler, the two steps of Stop |
| `CallTimers` | idle prompts, watchdog, talk time | timers are untimed: an armed one may expire in any state, and the goroutine of an expired one goes on after it was cancelled |
| `CallEdges` (EXTENDS the three above) | one call from join to cleanup | adds assembly, the end requests, the path of the EndFrame, and a bot (LLM, TTS, playback) that answers or does not |
| `LLMRouter` | the router | `turn[c]` is the step of one `Stream`; the blacklist's read and write are two steps; the poller is external, and so is the expiry of records; `bad` and `overwritten` are history |
| `MC*` | model values for TLC | - |
| `BaseProcessorProofs`, `CallStartupProofs`, `CallRecordProofs`, `TTSProcessorProofs`, `ConversationProofs`, `WorkerPodProofs`, `CallEdgesProofs`, `LLMRouterProofs` | theorems about the module each is named after and the modules that one extends | - |

Data is abstracted to what the properties tell apart: a frame is a model value with a
kind (`BaseProcessor`) or just its kind (`TTSProcessor`), a sentence is "text that
completes a sentence" or "part of one", audio and words of a context are one message each.
Operators whose comment begins "Mutant" are the deviations used to confirm that a
property can fail; no specification uses them.

## 3. Runs

| Run | Module | Checks | Shows |
|---|---|---|---|
| `base_contract` | MCBaseProcessor | TypeOK, NonInterruptibleSurvives, SerialHandlers, InterruptPurges, PushBackFits, EndIsLast, ImplementsMailbox | the processor refines `Mailbox` under two interrupts: the purge keeps exactly the frames that survive, in order, once; processLoops overlap only after procLoopExitTimeout fired |
| `base_live` | MCBaseProcessor | EndTerminates, InterruptHandled | an accepted EndFrame stops all goroutines, an accepted interrupt is handled, through channels of capacity one |
| `task` | MCCallRecord | TypeOK, NoSendOnClosed, CallbacksInOrder, CallEndedIsLast, Recorded, ResumeIsWellFormed, ImplementsCallLife, CallReported | racing callers, a stuck processor, an event producer, failing assembly and failing remote calls: the task refines `CallLife`, the conversation is recorded in order, replays well-formed, and the end is reported |
| `task_nil_source` | MCPipelineTask | NoNilSource (violated) | finding 1 |
| `worker` | MCWorkerPod | PodTypeOK, OneCall, PinnedDuringCall, ReservedStaysPinned, ServingIsRegistered, Released, ShutdownClearsMachine | re-sent requests, a crash at any step, a restart, two SIGTERMs and failing remote calls: one bot at a time on a pinned and registered pod, which is handed back and leaves the pool when deleted |
| `tts_speech` | MCTTSProcessor | NoStaleSpeech, EndAfterSpeech, WordsBeforeDone | safety with an interrupt, a lost connection, a slow relay and stragglers |
| `tts_live` | MCTTSProcessor | EndForwarded, TurnCloses | liveness through queues of one |
| `tts_end_interrupt` | MCTTSProcessor | EndForwarded (violated) | finding 2 |
| `conversation` | MCConversation | RequestHasResults, OneLiveRun, WordsOnce, TurnClosed | two turns with barge-in, or a turn with two parallel tool calls and the rerun they ask for; streams that fail, frames of cancelled runs, purges in every queue |
| `edges` | MCCallEdges | OneConnection, CallEnds, ReaderExits, PromptsNeedSilence | a sales call on Daily and a follow-up call on LiveKit, with failing joins, a dying bridge, an STT endpoint that cannot be dialled or drops, any user and timers that expire at any moment |
| `edges_deaf` | MCCallEdges | BrokenEndpointReleases (violated) | finding 3 |
| `router` | MCLLMRouter | OnePollPerWindow, NextTurnAvoids, PrimaryRecovers | two calls, the poller, failing Redis commands and expiring records: a blacklisted endpoint is avoided, the poller asked once per lock, the primary group found again |

**Refinements.** `ImplementsMailbox` is the whole of `Mailbox` under the mapping in
`BaseProcessor`: the messages in reach of an interrupt are procCh behind the kept frames while it
is drained and in front of them while they are pushed back, the others are the frame inputLoop is
forwarding and inputDataCh. The drain of a surviving frame, the new processLoop and the push-back
are then steps that no sender can see, and every frame that is dropped must be one the interrupt
may take. It implies `FIFO`, which has its own proof.

`ImplementsCallLife` is `Life!Spec`, the whole of `CallLife` under the mapping
in `CallRecord`: the accepted reason is `endReason`, the announced one that of the EndFrame at
the sink, the callbacks made are those the dispatcher ran, and "at work" means that a processor
that is not stuck has live goroutines. It says at once that one request wins, that the reason
reported is the one that travelled, that no callback runs and no goroutine of the pipeline works
after the report, and that `OnCleanup` comes once and last.

### Bounds

* Channels have capacity 1 or 2 instead of 16 to 512: every "channel is full" case
  happens within a few frames, and a larger capacity only delays it.
* `base_contract` uses one data frame, one function-call frame, one EndFrame and two
  interrupts from two senders: two interrupts are the least that make a purge meet
  frames pushed back by another purge, and two senders race for a channel. The theorems
  remove these bounds for all seven properties and for `FIFO`.
* `task` has two callers, one a room callback: a loser can be at any step of `End` while the
  winner's EndFrame travels. The chain is source, one (stuck) processor and sink, an
  interior of one being what `Stuck` and the events need. Two events, a user turn and a tool
  result with its two chunks, at a queue of one make drops happen; two attempts (`maxAttempts`)
  make a retry. The database starts with two parallel tool calls whose results were stored in
  reverse, and a debug chunk.
* `worker` has two conversations, so that a late request of the first can meet the
  reservation of the second; two sends suffice for a duplicate, one crash for a restart, two
  SIGTERMs for the ignored one.
* `edges` retries joins and dials once, holds one audio frame and has two prompts: the first
  and the last iteration of every loop differ. The two transports and the two kinds of call
  are paired, since neither interacts with the other's difference. `edges_deaf` needs one of each.
* `router` has one primary endpoint and one of the fallback group, which is also the last
  resort; `AvoidsBlacklisted` covers groups in which others are left. `MaxTriggers` bounds
  the poll goroutines that have not tried the lock. The poller's URL is set or not.
* `tts_*` bound the frames sent (`MaxFrames`), the responses and prompts among them
  (`MaxTurns`), interrupts and lost connections; all are guards of the environment only.
  Three frames give a response with text and its end, a prompt and the EndFrame, or two
  prompts and the EndFrame; two turns are what a stale context needs.
* `conversation` has two requests in total (`MaxRequests` counts turns and responses with
  tool calls): a stale run needs one other run to disturb, a barge-in a second turn to
  follow it. Two calls (`MaxCalls`) are what makes the order of results matter. A response
  has one token and its words one frame.
* `CHECK_DEADLOCK FALSE` everywhere: calls end and bounded environments run dry. That
  nothing stops too early is what the liveness properties say.

Some behaviours make a property false for reasons that are recorded below; the property
then says so with a history variable instead of a constant that removes the behaviour:
`timedOut` (the bounded wait fired), `failed`, `late`, `lost` and `early` (a remote call failed,
a re-sent request outlived its call, the shutdown job was not enqueued, SIGTERM overtook the
registration), `lostChunks` and `refused` in `CallRecord`, `overwritten` in `LLMRouter` (the
poller wrote a probe over a later blacklisting), `Deaf` in `CallEdges` (finding 3), `NoDrop` and `NoInterrupt` in `TTSProcessor`, `overtaken` in
`Conversation` (a frame was purged, or taken, together with an interrupt that had been sent
before it, or a frame of a cancelled run arrived in the context of a later one).

### Fairness

Weak fairness for each goroutine (the Go scheduler runs what can run) and for a blocked
sender whose channel has room; handlers return (`BaseProcessor`: handlers are bounded by
their own timeouts or by cancellation), Cartesia answers text it accepted, and cleanup
jobs are processed. `Conversation` needs less: that the stages, runs and tool handlers
together do not stop while one of them can move. No fairness for anything the environment chooses: sending frames,
interrupting, ending a call, losing a connection, re-sending a request, reserving a
worker, firing an event, crashing, leaving.

In `CallEdges` an armed timer expires, the watchdog's only while no activity waits in its reset
channel; the bot finishes or fails what it was asked; the bridge process exits or is killed by
`Disconnect`. A user may talk for ever, which the budget of a sales call bounds and a follow-up
call does not: `CallEnds` says so. In `LLMRouter` strong fairness of the lock and of the post
says that Redis and the poller's URL do not fail every single time; `PrimaryRecovers` further
assumes that the poller's URL is configured, calls keep coming and a primary endpoint stays up. In `WorkerPod` containers are
restarted and queued jobs run.

## 4. Proofs

Every safety invariant of the runs, all action properties, and the refinements of `Mailbox` and
`CallLife` are proved for every value of the constants. The assumptions are those the modules
state about their constants and no others: capacities, attempts and budgets are natural numbers,
positive where the code needs it; kinds and groups are of the shape the code gives them; null
values are not members of the set they stand outside of; and earlier calls left the stored
conversation as this program leaves it when no append fails (`PriorAssumption`, which
`LeavesWhole` establishes for the next call).

`BaseProcessorProofs`, for every set of frames and senders and all positive
capacities (`FrameAssumption`: each frame has one of the five kinds and the two
sentinels are not frames; `CapAssumption`):

* `TypeCorrect`. `TypeOK` alone is not inductive: `Forward` sends `hand`, so the
  invariant `HandInv` records what inputLoop holds at each control point.
* `Survival` (`NonInterruptibleSurvives`), inductive over the typing invariant: each
  channel operation moves a frame within `Held` or into `begun`. It holds also after
  procLoopExitTimeout.
* `Serialisation` (`SerialHandlers`). "At most one live loop" is not inductive; `SerialInv`
  adds that the live loop is `cur`, that no loop is live once the waiter was woken or
  while procCh is drained, and that an unreturned waiter belongs to the interrupt
  inputLoop is in. The last part is what makes the WaitGroup reuse panic impossible.
* `Purging` (`InterruptPurges`), using `SerialInv`: while procCh is drained there is no
  live loop, so nothing can take an interruptible frame.
* `PushBackNeverBlocks` (`PushBackFits`): `FitsInv` bounds procCh and keep together during
  the drain.
* `InOrder` (`FIFO`). `OrderInv` says of every place a data frame can be in (begun, procCh,
  the kept frames, inputLoop's hand, inputDataCh) that its frames are in the order of
  arrival, and which place is ahead of which; during the drain the kept frames are ahead of
  procCh, during the push-back behind it. `TakeInv` is the weaker form of `SerialInv` that
  survives procLoopExitTimeout: a live loop is the current one or cancelled, and none
  selects during the drain, so FIFO needs no exception for a handler that hangs.
* `KeepsMailbox`, the refinement `ImplementsMailbox`, step by step, from the invariants above. The
  drain, the push-back and the hand-over from inputLoop move the head of one list to the end of
  the next, which the concatenation does not notice (`ConcatShift`); a frame that is dropped is
  removed from the middle of it (`ConcatDrop`), and `PurgeInv` lets the interrupt end. It needs no
  `timedOut`: a loop that outlives the bounded wait never receives during the drain.
* `EndComesLast` (`EndIsLast`). `LastInv`: once an EndFrame was begun, its handler is
  running or the context is done and no loop selects any more.

`CallRecordProofs`, for any chain of processors, callers, events and outcomes of remote calls
(`EventAssumption`, `TaskAssumption`, `RecordAssumption`, `PriorAssumption`): `TypeCorrect`
(`TypeOK`), `SafeClose` (`NoSendOnClosed`), `OrderedCallbacks` (`CallbacksInOrder`), `EndedLast`
(`CallEndedIsLast`), `KeepsCallLife`, the refinement `ImplementsCallLife`, step by step,
`KeepsRecord` (`Recorded`), `LeavesWhole` and `KeepsContext` (`ResumeIsWellFormed`). The inductive invariant `CallInv` has one part per mechanism:

* `MutexInv`: between the closing check and the send a producer holds the mutex. This is
  all that stands between `stopAndDrain` and a send on a closed channel.
* `OnceInv`: an event is accepted once. `DrainInv`: cleanup passes the drain only when the
  dispatcher has exited with an empty queue, so no callback follows OnCallEnded.
* `EndInv`: the CompareAndSwap has one winner, and every trace of the end, in `End`, the
  source, a processor or the sink, carries the stored reason.
* `CleanupInv`: cleanup starts with the EndFrame at the sink and goes on past the wait when
  only stuck processors are alive.

`KeepsRecord` adds `RecordInv`: `todo` is what is left of the running callback (`TodoInv`), and
Redis holds the chunks whose append was tried so far, in order, but for those that failed
(`RedisInv`). `OnceInv` makes the chunks of a call differ, so that a repeated RPUSH is told
from the next chunk; the drain makes "tried so far" be all when the call is reported.

`KeepsContext` adds `SyncInv`: the job that stores the chunks is only queued once the call has
ended, when Redis does not grow any more, so what it stores is what the call recorded, whenever
the backend runs it. Without a lost append that is a list of whole turns and whole tool calls
(`CallIsStored`, `WholeCall`). `LeavesWhole` says that together with the earlier chunks it
satisfies what `PriorAssumption` asks of a stored conversation, so that the theorems
hold for each call of a chain, given that the ids of events and tool calls are fresh. What the next
call makes of it is the theorem of `CallStartupProofs`.

`CallStartupProofs`, for every list of stored chunks, of any length:

* `ReplayIsFaithful`. If each chunk is stored once, in the order of its time, and each tool call
  has its one result (`Timed`, `Whole`), then whatever order the database gives to chunks of one
  moment, and with or without a message about resuming, the context that is replayed has each
  result right behind its call, nothing that is not replayable, and every turn once in
  the order it was said. Because the result is described by places, the proof needs no induction
  over the list: places are ordered (`PrecedesOrders`), arranging them is a bijection that
  follows their order (`ArrangedLists`), and the place of a result is the k-th behind the message
  whose k-th call it answers. That calls have one result each leaves no room for two
  messages between them.

`TTSProcessorProofs`, for any capacities and budgets of the environment (`TTSAssumption`):

* `NoStaleSpeechHolds` (`NoStaleSpeech`). `CtxInv` (a context is the newest or none) and
  `OutInv` (nothing is pushed for a context to come), with a lemma, `PushSteps`, that
  characterises what any step pushes. That events of an old context may be anywhere between
  Cartesia and the orchestrator needs no invariant: the check against `currentCtx` suffices.
* `EndAfterSpeechHolds` (`EndAfterSpeech`). Ordering is the point: the "done" of a context
  is the last message of it in each of wire, reader and event channel (`FlowInv`), and while
  nothing interrupts or fails the words of a context that has text are in one of these or
  pushed, and Cartesia owes a "done" exactly as long as `cartesiaTextSent` is set
  (`WordsInv`). `EndInv` and `EndLast` say that only ForwardEnd pushes the EndFrame and
  that the orchestrator pushes nothing behind it.
* `WordsBeforeDoneHolds` (`WordsBeforeDone`). The turn may be closed by the end of the
  response as well as by Cartesia, and the two exclude each other only because frames of a
  response arrive between a start and an end: `StreamInv` says so of all frames between the
  neighbours and the orchestrator, `TurnInv` what is settled when a turn is closed.

`ConversationProofs`, for any number of requests and tool calls (`LinksAssumption`):

* `SingleResponse` (`OneLiveRun`). `LiveInv`: a run that is alive and not cancelled is the
  one whose cancel function `LLMProcessor` holds.
* `ResultsBeforeRerun` (`RequestHasResults`). A result that asks for a rerun is behind the
  results of all its siblings in the queue to the aggregator (`RerunFrames`), and that
  survives an interrupt because a purge keeps function-call frames and their order (lemma
  `KeptInOrder`); `HandlerState`, `CallFrames` and `ResultFrames` tie each handler to its
  frames and its message, `FreshInv` says that a run is started once.
* `SaidOnce` (`WordsOnce`). `WordsInv`: the words of a response are in at most one of seven
  places (not generated, on the way to TTS, at Cartesia, in playback, on the way up, spoken,
  committed), and there once. Barge-in and a late word frame both commit, which is why the
  place of the words, not the order of commits, is what must be tracked.

`WorkerPodProofs`, for any conversations and numbers of crashes, signals and re-sent requests
(`WorkerAssumption`, `PodAssumption`):

* `TypeCorrect` (`PodTypeOK`); `Registration` (`ServingIsRegistered`), where `RegisteredInv`
  adds that the idempotency key in Redis implies the enqueued job at every crash.
* `Exclusion` (`OneCall`): `CallInv` makes `active` and `activeConv` name the call that is in
  progress. `Pinning` (`PinnedDuringCall`) follows with the call's own steps.
* `Reservation` (`ReservedStaysPinned`): needs what the code never writes down, that Disha's
  view of the machine and what is under way agree (`HandoverInv`: a machine that is not busy
  has no request, call or cleanup under way, a busy one at most one) as long as no crash, lost
  call or late request occurred.

`CallEdgesProofs` (`RoomAssumption`, `TimerAssumption`): `SingleConnection`
(`OneConnection`) from `RoomInv`, an attempt starts and a failed one ends without a
connection; `SilenceBeforeEnd` (`PromptsNeedSilence`, an action property) from `PromptInv`,
the count of prompts never runs ahead of the expired waits by more than the one timer that
had expired when the user spoke.

`LLMRouterProofs`, for every set of calls and any two model groups
(`RouterAssumption`: the groups are disjoint and each fallback belongs to its group):

* `PollsOncePerWindow` (`OnePollPerWindow`). Not inductive: `LockInv` counts the goroutines
  that will post together with the posts made, and says that both are zero when the lock is
  free. That the lock outlives the goroutine's context is the guard of `LockExpires`.
* `AvoidsBlacklisted` (`NextTurnAvoids`, an action property), from `BlacklistInv`: an endpoint
  that was blacklisted and has not answered a probe since has a record that is blacklisted or
  has expired, whatever the calls read before, unless it is in `overwritten`. An expired record
  has no latency, so it does not make the endpoint a candidate. `SelectionInGroups` says what
  a selection can return, and that the last resort is taken only when nothing else is left.

Only model-checked: all liveness, since TLAPS has no fairness reasoning here (`EndTerminates`,
`InterruptHandled`, `CallReported`, `Released`, `ShutdownClearsMachine`, `EndForwarded`,
`TurnCloses`, `TurnClosed`, `CallEnds`, `ReaderExits`, `PrimaryRecovers`).

## 5. Findings

1. **Nil source** (`pipeline.go:240`, run `task_nil_source`). Room callbacks are live
   before `SetPipeline`; a participant who leaves in that window makes `End` call a method
   of a nil Source.
2. **EndFrame lost in TTS** (`tts_processor.go:211`, run `tts_end_interrupt`). An interrupt
   handled while the EndFrame handler waits for the orchestrator cancels that handler; the
   processor stops and the EndFrame is never forwarded, so cleanup never starts.
3. **Deaf STT stage** (`stt_processor.go:211`, run `edges_deaf`). Until the websocket is
   connected nobody takes audio out of `audioFrames`; a full channel blocks the handler, and
   the EndFrame that the exhausted dial asks for waits behind it for ever. The comment on
   `connect` promises the contrary.

Observed while modelling, without a run of their own: after procLoopExitTimeout the goroutine
of that interrupt is still in `procWG.Wait` while `startProcessLoop` adds to the group, which the
Go runtime may answer with a panic (`processor.go:389`; `panicked` in `BaseProcessor`,
`SerialHandlers` shows that it needs the timeout); a create request re-sent after its call failed
to start claims the worker again, and its cleanup unpins a worker reserved for the next call
(`worker_api.go:63`; `ReservedStaysPinned` excludes it with `late`); the greeting's
LLMMessagesFrame starts the talk-time budget, although `talktime_monitoring_processor.go:90` says
only committed user turns do; `greetOnce` belongs to the room object, so a retried join can greet
twice; the loss of the room connection after the join ends nothing but the user's voice, and the
watchdog ends the call; a model group without a fallback group never asks for a recovery poll; a
stream that breaks off in the middle counts as served; a router may write back latencies the
poller has replaced (`health.go:42`), which affects speed only; a final idle prompt that was
decided just before the user spoke still ends the call; `Abort` never disconnects the room (`pipeline.go:210`); `OnCleanup` runs after
ten seconds even if a processor is alive, although `pipeline.go:108` says otherwise
(`CallLife` counts only processors that are not stuck as at work); a poller that writes a
probe older than a live error takes the endpoint off the blacklist again, since health records
have no version (`health.go:119`; `overwritten` in `LLMRouter`); a reconnect to Cartesia leaves
`cartesiaTextSent` set, so a deferred EndFrame waits for a done nobody will send
(`tts_processor.go:320`; `EndForwarded` excludes lost connections); inputLoop blocked on a
full procCh reads no system frame (`processor.go:301`), so `InterruptHandled` depends on
handlers that return by themselves; a cancelled run pushes its start frame and its tokens
unchecked, and its terminal frame after a check that may be stale (`llm_processor.go:163`,
`:191`), so that it can reset or close the context of the next response, whose turn then
stays open (`TurnClosed` excludes this with `overtaken`); frames that wait in inputDataCh
when an interrupt passes them are not purged, so a response that was cut off can still
start speaking.

## 6. Plan

Done: the modules of section 2, their runs, and the theorems of section 4.

Next, most important first:

1. The EndFrame and its drain in `Playback`, composed with `TTSProcessor` through bounded
   queues in both directions.
2. An abstract specification of turn taking that `Conversation` implements.

## 7. Not modelled

Audio samples, codecs and durations; request bodies, signatures, credentials and the HTTP
streams of LLM providers; the inside of the Daily bridge, the LiveKit SDK and Cartesia; prompts,
templates, the Jinja subprocess and phonetic dictionaries; metrics, statistics, UI events and
profiling, on which nothing else depends. These are pure data conversion or input and output
without protocol state. Wall-clock time is reduced to the order in which timers may fire.
