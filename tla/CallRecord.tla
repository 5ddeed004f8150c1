----------------------------- MODULE CallRecord -----------------------------
(***************************************************************************)
(* What the callbacks of a call leave behind at Disha                      *)
(* (disha/call_event_callbacks.go, api_client.go, redis_client.go), and    *)
(* how the next call rebuilds the conversation from it.  Composed with     *)
(* PipelineTask: the dispatcher runs the callbacks, cleanup runs           *)
(* OnCallEnded.  Redis, the API server, its job queue and its database are *)
(* external: calls to them fail, time out after they took effect, or both. *)
(***************************************************************************)
EXTENDS PipelineTask, CallStartup

CONSTANTS
    EventKind,     \* EventKind[e]: "update", "user", "assistant", "tool", "none"
    maxAttempts,   \* of withRedisTimeoutRetry (3)
    daily,         \* the room is a Daily room that the user entered
    Prior,         \* chunks stored by earlier calls, oldest first
    Resume         \* how the backend describes the next call's resumption

ASSUME RecordAssumption ==
    /\ maxAttempts \in Nat \ {0}
    /\ EventKind \in [Event -> {"update", "user", "assistant", "tool", "none"}]

\* Earlier calls of the same program left their chunks whole; ids of chunks and
\* of tool calls are fresh, so that none of them is one of this call's.
ASSUME PriorAssumption ==
    /\ Prior \in Seq(ToSet(Prior)) /\ Timed(Prior) /\ Whole(ToSet(Prior))
    /\ NoCall \notin Event
    /\ \A c \in ToSet(Prior) :
          /\ c.id[1] \notin Event
          /\ \A k \in DOMAIN c.calls : c.calls[k] \notin Event

VARIABLES
    todo,       \* remote operations the running callback still has to make
    redis,      \* the conversation's chunk list
    lostChunks, \* history: chunks whose append reported an error
    jobs,       \* jobs in the backend's queue
    executed,   \* operations the backend has executed
    refused,    \* history: operations neither sent nor queued successfully
    stored      \* this call's chunks in the database

recVars == <<todo, redis, lostChunks, jobs, executed, refused, stored>>
allVars == <<vars, recVars>>

----------------------------------------------------------------------------
(* The operations of each callback, in order.                              *)

Op(kind, id) == [kind |-> kind, id |-> id]
Sync == Op("job", "sync")

chunkOf(e, part) ==
    CASE part = "call"   -> [Plain(<<e, part>>, "assistant") EXCEPT !.calls = <<e>>]
      [] part = "result" -> [Plain(<<e, part>>, "tool") EXCEPT !.answers = e]
      [] OTHER           -> Plain(<<e, part>>, part)

CallbackOps(e) ==
    CASE EventKind[e] = "update" -> <<Op("update", e)>>
      [] EventKind[e] = "none"   -> <<>>
      [] EventKind[e] = "tool"   -> <<Op("chunk", chunkOf(e, "call")),
                                      Op("chunk", chunkOf(e, "result"))>>
      [] OTHER -> <<Op("chunk", chunkOf(e, EventKind[e]))>>

OnCallEndedOps ==
    <<Op("upload", "log"), Op("post", "call")>>
      \o (IF daily THEN <<Op("job", "metrics")>> ELSE <<>>)
      \o <<Sync>>

----------------------------------------------------------------------------
(* Remote calls.  An outcome says how often the request took effect and    *)
(* whether the caller saw it succeed.                                      *)

\* Attempts that time out, applied or not, are repeated; the last one, or one
\* that succeeds or fails in another way, returns.  Up to maxAttempts - 1 time
\* out before it, and k of these were applied.
Attempts ==
    {<<k + o[1], o[2]>> : k \in 0..(maxAttempts - 1),
                          o \in {<<1, TRUE>>, <<0, FALSE>>, <<1, FALSE>>}}

\* Mutant: the loop ends without returning the last error.
RetrySwallowsError == {<<o[1], TRUE>> : o \in Attempts}

withRedisTimeoutRetry == Attempts

\* APIClient.send: a response may be lost after the request was executed.
send == {<<1, TRUE>>, <<0, FALSE>>, <<1, FALSE>>}

Step == todo # <<>> /\ todo' = Tail(todo)

AppendChunk ==
    /\ Step /\ Head(todo).kind = "chunk"
    /\ \E o \in withRedisTimeoutRetry :
          /\ redis' = redis \o [n \in 1..o[1] |-> Head(todo).id]
          /\ lostChunks' = IF o[2] THEN lostChunks
                           ELSE lostChunks \cup {Head(todo).id}
    /\ UNCHANGED <<jobs, executed, refused, stored>>

\* Mutant: a failed request is not queued.
SendWithoutFallback ==
    /\ Step /\ Head(todo).kind \in {"update", "post"}
    /\ \E s \in send :
          executed' = IF s[1] = 1 THEN executed \cup {Head(todo)} ELSE executed
    /\ UNCHANGED <<redis, lostChunks, jobs, refused, stored>>

\* UpdateConversationWithFallback and RunPostCallOperationsWithFallback.
SendWithFallback ==
    /\ Step /\ Head(todo).kind \in {"update", "post"}
    /\ \E s \in send, f \in send :
          /\ executed' = IF s[1] = 1 THEN executed \cup {Head(todo)}
                         ELSE executed
          /\ IF s[2] THEN UNCHANGED <<jobs, refused>>
             ELSE /\ jobs' = IF f[1] = 1 THEN jobs \cup {Head(todo)} ELSE jobs
                  /\ refused' = IF f[2] THEN refused
                                ELSE refused \cup {Head(todo)}
    /\ UNCHANGED <<redis, lostChunks, stored>>

\* enqueueDailyMetrics and enqueueChunkSync: no second try.
EnqueueJob ==
    /\ Step /\ Head(todo).kind = "job"
    /\ \E s \in send :
          /\ jobs' = IF s[1] = 1 THEN jobs \cup {Head(todo)} ELSE jobs
          /\ refused' = IF s[2] THEN refused ELSE refused \cup {Head(todo)}
    /\ UNCHANGED <<redis, lostChunks, executed, stored>>

\* uploadDebugLogs: a failed upload only leaves the key out of the report.
uploadDebugLogs ==
    /\ Step /\ Head(todo).kind = "upload"
    /\ UNCHANGED <<redis, lostChunks, jobs, executed, refused, stored>>

CallbackStep == AppendChunk \/ SendWithFallback \/ EnqueueJob \/ uploadDebugLogs

----------------------------------------------------------------------------
(* The backend, and what the next call reads.                              *)

\* sync_conversation_chunks_to_db stores each chunk once, by its id.
Deduplicated(seq) ==
    Kept(seq, {n \in DOMAIN seq : \A p \in 1..(n - 1) : seq[p] # seq[n]})

JobRuns ==
    \E op \in jobs :
        /\ jobs' = jobs \ {op}
        /\ executed' = executed \cup {op}
        /\ stored' = IF op = Sync THEN Deduplicated(redis)
                     ELSE stored
        /\ UNCHANGED <<todo, redis, lostChunks, refused>>

PriorOrders == StorageOrders(Prior)

\* The contexts the next call may build from what is stored.
NextContexts ==
    {buildInitialMessages(old \o new, buildResumeSystemMessage(Resume)) :
       old \in PriorOrders, new \in StorageOrders(stored)}

----------------------------------------------------------------------------
RecordInit ==
    /\ Init
    /\ todo = <<>>
    /\ redis = <<>> /\ lostChunks = {}
    /\ jobs = {} /\ executed = {} /\ refused = {}
    /\ stored = <<>>

\* A callback starts with the operations it has to make, and the dispatcher
\* or runCleanup goes on when they are made.
Coupled ==
    /\ todo' = IF running' # running /\ running' # NoEvent
               THEN CallbackOps(running')
               ELSE IF cleanup' # cleanup /\ cleanup' = "ended"
               THEN OnCallEndedOps ELSE todo
    /\ running' # running /\ running' = NoEvent => todo = <<>>
    /\ endedWith' # endedWith => todo = <<>>
    /\ UNCHANGED <<redis, lostChunks, jobs, executed, refused, stored>>

RecordNext ==
    \/ Next /\ Coupled
    \/ ~crashed /\ (CallbackStep \/ JobRuns) /\ UNCHANGED vars

RecordSpec == RecordInit /\ [][RecordNext]_allVars

\* As for the task alone; remote calls return, and queued jobs are executed.
RecordFairSpec ==
    /\ RecordSpec
    /\ WF_allVars(~crashed /\ Assemble /\ Coupled)
    /\ \A c \in Caller :
          WF_allVars(/\ ~crashed
                     /\ EndClaim(c) \/ EndRecheck(c) \/ EndQueue(c)
                     /\ Coupled)
    /\ WF_allVars(~crashed /\ ChainStep /\ Coupled)
    /\ WF_allVars(~crashed /\ runCleanup /\ Coupled)
    /\ \A p \in Producer : WF_allVars(~crashed /\ SendEvent(p) /\ Coupled)
    /\ WF_allVars(~crashed /\ DispatcherRuns /\ Coupled)
    /\ WF_allVars(~crashed /\ UNCHANGED vars /\ CallbackStep)
    /\ WF_allVars(~crashed /\ UNCHANGED vars /\ JobRuns)

----------------------------------------------------------------------------
(* Properties.                                                             *)

\* The task, with everything it does to end a call, implements CallLife.
Life == INSTANCE CallLife WITH
    Reason <- Reasons, Callback <- Event,
    accepted <- endReason, announced <- endFrame, atWork <- live \ Stuck # {},
    called <- {ran[n] : n \in DOMAIN ran},
    reported <- endedWith, handedBack <- cleanedUp

ImplementsCallLife == Life!Spec

\* The chunks that callbacks of accepted events append: <<n, k>> is the k-th
\* operation of the n-th callback.
Due ==
    {p \in (DOMAIN accepted) \X (1..2) :
       /\ p[2] \in DOMAIN CallbackOps(accepted[p[1]])
       /\ CallbackOps(accepted[p[1]])[p[2]].kind = "chunk"}

chunkAt(p) == CallbackOps(accepted[p[1]])[p[2]].id

Earlier(p, q) == p[1] < q[1] \/ (p[1] = q[1] /\ p[2] < q[2])

\* Where the chunk c is in Redis.
Held(c) == {i \in DOMAIN redis : redis[i] = c}

\* The chunks of every callback that ran are in the conversation, in the order
\* of the calls, before the backend is told that the call is over, except those
\* whose append failed; a retried append never overtakes or hides another.
Recorded ==
    cleanup \in {"ended", "cancel", "onCleanup", "done"} =>
        /\ DOMAIN redis = UNION {Held(chunkAt(p)) : p \in Due}
        /\ \A p \in Due : chunkAt(p) \in lostChunks \/ Held(chunkAt(p)) # {}
        /\ \A p, q \in Due : Earlier(p, q) =>
              \A i \in Held(chunkAt(p)), j \in Held(chunkAt(q)) : i < j

\* The next call's context replays every stored turn once and in order, and is
\* one an LLM provider accepts: results directly behind their calls, in whatever
\* order storage returned chunks of one moment, provided no append failed.
ResumeIsWellFormed ==
    cleanedUp /\ Sync \in executed /\ lostChunks = {} =>
        \A msgs \in NextContexts :
            WellFormed(msgs) /\ Replays(msgs, Prior \o stored)

\* A call somebody asked to end is reported to the backend and the worker is
\* handed back, unless assembly failed or both ways to report it did.
CallReported ==
    (endRequested /\ ~EndIgnored)
      ~> \/ build = "aborted" \/ crashed
         \/ cleanedUp /\ {Op("post", "call")} \cap (executed \cup refused) # {}
=============================================================================
