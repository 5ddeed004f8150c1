----------------------------- MODULE LLMRouter ------------------------------
(***************************************************************************)
(* The LLM router (voicepipelinecore/llmrouter): calls of several pods     *)
(* choose an endpoint of a model group by the health kept in Redis, put an *)
(* endpoint that fails on the blacklist, and ask the poller to probe the   *)
(* group again.  Redis, the poller and the endpoints are external: Redis   *)
(* commands fail, the poller reads and writes the same records.            *)
(***************************************************************************)
EXTENDS Naturals

CONSTANTS
    Call,           \* calls that are served at the same time
    Primary,        \* configs of the group, and of its fallback group
    FallbackGroup,
    ownFallback,    \* modelGroups[...].Fallback of the two groups
    groupFallback,
    MaxTriggers     \* bound: triggerPoll goroutines at one time

Key == Primary \cup FallbackGroup

ASSUME RouterAssumption ==
    /\ Primary \cap FallbackGroup = {}
    /\ ownFallback \in Primary
    /\ FallbackGroup = {} \/ groupFallback \in FallbackGroup
    /\ MaxTriggers \in Nat \ {0}

VARIABLES
    health,     \* live_call_modal_health: has a latency, is blacklisted
    turn,       \* [Call -> where its Stream is]
    config,     \* [Call -> the key it selected]
    found,      \* [Call -> the latency data that blacklistForLiveError read]
    triggers,   \* triggerPoll goroutines that have not tried the lock
    posting,    \* triggerPoll goroutines that hold the lock and will post
    lock,       \* poll_openai_models_lock of the group
    posts,      \* posts since the lock was taken
    poll,       \* [Primary -> progress of the poller]
    up,         \* primary endpoints that answer
    pollTriggerURL, \* LLM_POLL_TRIGGER_URL is set
    bad,        \* history: keys blacklisted by a call, and no good probe since
    overwritten \* history: keys of bad that an older probe made selectable

routerVars == <<health, turn, config, found, triggers, posting, lock, posts,
                poll, up, pollTriggerURL, bad, overwritten>>
redisVars == <<health, bad, overwritten>>
outside == <<up, pollTriggerURL>>
pollVars == <<posting, lock, posts, poll>>

RouterInit ==
    /\ health \in [Key -> [measured : BOOLEAN, blacklisted : {FALSE}]]
    /\ turn = [c \in Call |-> "idle"]
    /\ config = [c \in Call |-> ownFallback]
    /\ found = [c \in Call |-> FALSE]
    /\ triggers = 0 /\ posting = 0 /\ lock = FALSE /\ posts = 0
    /\ poll = [k \in Primary |-> "idle"]
    /\ up = Primary
    /\ pollTriggerURL \in BOOLEAN
    /\ bad = {} /\ overwritten = {}

----------------------------------------------------------------------------
(* Selection                                                               *)

\* The candidates: not blacklisted, with a selectionLatency.
Available(group) == {k \in group : health[k].measured /\ ~health[k].blacklisted}

\* The fastest is any of them, as far as the latencies go; none if MGET fails.
fastestAvailable(group, ok) == {k \in Available(group) : ok}

\* config.Fallback of the group to which the search was handed on.
lastResort == IF FallbackGroup # {} THEN groupFallback ELSE ownFallback

\* One MGET per group; then the configured last resort.
getFastestForGroup(ok1, ok2) ==
    LET first  == fastestAvailable(Primary, ok1)
        second == fastestAvailable(FallbackGroup, ok2)
    IN  CASE first # {}         -> first
          [] second # {}        -> second
          [] OTHER              -> {lastResort}

Select(c, ok1, ok2) ==
    /\ turn[c] = "idle"
    /\ \E k \in getFastestForGroup(ok1, ok2) : config' = [config EXCEPT ![c] = k]
    /\ turn' = [turn EXCEPT ![c] = "streaming"]
    /\ UNCHANGED <<redisVars, found, triggers, pollVars, outside>>

----------------------------------------------------------------------------
(* Stream                                                                  *)

\* The turn is over, and with it its local variables.
Return(c) ==
    /\ turn' = [turn EXCEPT ![c] = "idle"]
    /\ config' = [config EXCEPT ![c] = ownFallback]
    /\ found' = [found EXCEPT ![c] = FALSE]

\* It starts a goroutine that nobody waits for, if there is a poller to ask.
triggerPoll ==
    IF pollTriggerURL THEN triggers < MaxTriggers /\ triggers' = triggers + 1
    ELSE UNCHANGED triggers

Interrupted(c) ==
    /\ turn[c] = "streaming"
    /\ Return(c)
    /\ UNCHANGED <<redisVars, triggers, pollVars, outside>>

\* A stream that breaks off counts as served.  A slow one, or one served by the
\* fallback group, asks for a poll.
Served(c, slow) ==
    /\ turn[c] = "streaming"
    /\ Return(c)
    /\ IF slow \/ config[c] \in FallbackGroup THEN triggerPoll
       ELSE UNCHANGED triggers
    /\ UNCHANGED <<redisVars, pollVars, outside>>

\* No request, no answer or no good status: handleError.  The record is read.
StreamFails(c) ==
    /\ turn[c] = "streaming"
    /\ turn' = [turn EXCEPT ![c] = "failed"]
    /\ found' = [found EXCEPT ![c] = health[config[c]].measured]
    /\ UNCHANGED <<redisVars, config, triggers, pollVars, outside>>

\* The record cannot be read, or not be written.
BlacklistFails(c) ==
    /\ turn[c] = "failed"
    /\ Return(c) /\ triggerPoll
    /\ UNCHANGED <<redisVars, pollVars, outside>>

\* Mutant: the error is recorded and the endpoint stays selectable.
BlacklistForgets(c) ==
    /\ turn[c] = "failed"
    /\ health' = [health EXCEPT ![config[c]].measured = found[c]]
    /\ bad' = bad \cup {config[c]} /\ overwritten' = overwritten \ {config[c]}
    /\ Return(c) /\ triggerPoll
    /\ UNCHANGED <<pollVars, outside>>

\* The record that was read is written back, with the error.
blacklistForLiveError(c) ==
    /\ turn[c] = "failed"
    /\ health' = [health EXCEPT ![config[c]] =
                      [measured |-> found[c], blacklisted |-> TRUE]]
    /\ bad' = bad \cup {config[c]} /\ overwritten' = overwritten \ {config[c]}
    /\ Return(c) /\ triggerPoll
    /\ UNCHANGED <<pollVars, outside>>

----------------------------------------------------------------------------
(* triggerPoll's goroutine                                                 *)

\* Mutant: a lock that is held, or unknown, does not stop the goroutine.
AcquireAnyway ==
    /\ triggers > 0 /\ triggers' = triggers - 1
    /\ lock' = TRUE
    /\ posting' = posting + 1
    /\ UNCHANGED <<redisVars, turn, config, found, posts, poll, outside>>

\* SETNX takes a free lock.
AcquireLock ==
    /\ triggers > 0 /\ triggers' = triggers - 1
    /\ ~lock /\ lock' = TRUE
    /\ posting' = posting + 1
    /\ UNCHANGED <<redisVars, turn, config, found, posts, poll, outside>>

\* The lock is held, Redis fails, or a SETNX that timed out has taken the lock
\* and its retry finds it taken: the goroutine gives up.
LockNotAcquired ==
    /\ triggers > 0 /\ triggers' = triggers - 1
    /\ lock' \in {lock, TRUE}
    /\ UNCHANGED <<redisVars, turn, config, found, posting, posts, poll, outside>>

\* Mutant: the poll is asked for the group in use, not for the primary one.
PostSelectedGroup ==
    /\ posting > 0 /\ posting' = posting - 1
    /\ posts' = posts + 1
    /\ UNCHANGED <<redisVars, turn, config, found, triggers, lock, poll, outside>>

\* The poller accepts the request: it will probe every config of the group.
postPoll ==
    /\ posting > 0 /\ posting' = posting - 1
    /\ posts' = posts + 1
    /\ poll' = [k \in Primary |-> IF poll[k] = "idle" THEN "due" ELSE poll[k]]
    /\ UNCHANGED <<redisVars, turn, config, found, triggers, lock, outside>>

PostFails ==
    /\ posting > 0 /\ posting' = posting - 1
    /\ posts' = posts + 1
    /\ UNCHANGED <<redisVars, turn, config, found, triggers, lock, poll, outside>>

\* Nobody releases the lock; it outlives the goroutine's context.
LockExpires ==
    /\ lock /\ posting = 0
    /\ lock' = FALSE /\ posts' = 0
    /\ UNCHANGED <<redisVars, turn, config, found, triggers, posting, poll, outside>>

----------------------------------------------------------------------------
(* The poller and the endpoints (external).                                *)

Probe(k) ==
    /\ poll[k] = "due"
    /\ IF k \in up THEN poll' = [poll EXCEPT ![k] = "good"] /\ bad' = bad \ {k}
       ELSE poll' = [poll EXCEPT ![k] = "failed"] /\ UNCHANGED bad
    /\ UNCHANGED <<health, overwritten, turn, config, found, triggers, posting,
                   lock, posts, outside>>

\* A good probe takes the endpoint off the blacklist, a failed one puts it on,
\* also when a call has blacklisted the endpoint since the probe.
RecordProbe(k) ==
    /\ poll[k] \in {"good", "failed"}
    /\ health' = [health EXCEPT ![k] =
           [measured |-> health[k].measured \/ poll[k] = "good",
            blacklisted |-> poll[k] = "failed"]]
    /\ poll' = [poll EXCEPT ![k] = "idle"]
    /\ overwritten' = IF poll[k] = "good" THEN overwritten \cup ({k} \cap bad)
                      ELSE overwritten \ {k}
    /\ UNCHANGED <<bad, turn, config, found, triggers, posting, lock, posts,
                   outside>>

\* healthTTL, after the last write of a call, or what the poller sets: the
\* record is gone, and with it what blacklisted the endpoint.
RecordExpires(k) ==
    /\ health' = [health EXCEPT ![k] = [measured |-> FALSE, blacklisted |-> FALSE]]
    /\ UNCHANGED <<bad, overwritten, turn, config, found, triggers, pollVars,
                   outside>>

EndpointChanges(k) ==
    /\ up' = IF k \in up THEN up \ {k} ELSE up \cup {k}
    /\ UNCHANGED <<redisVars, turn, config, found, triggers, pollVars,
                   pollTriggerURL>>

----------------------------------------------------------------------------
handleError(c) == blacklistForLiveError(c) \/ BlacklistFails(c)
Poller(k) == Probe(k) \/ RecordProbe(k)

RouterNext ==
    \/ \E c \in Call, ok1, ok2 \in BOOLEAN : Select(c, ok1, ok2)
    \/ \E c \in Call : Interrupted(c) \/ StreamFails(c) \/ handleError(c)
    \/ \E c \in Call, slow \in BOOLEAN : Served(c, slow)
    \/ AcquireLock \/ LockNotAcquired \/ postPoll \/ PostFails \/ LockExpires
    \/ \E k \in Primary : Poller(k) \/ EndpointChanges(k)
    \/ \E k \in Key : RecordExpires(k)

RouterSpec == RouterInit /\ [][RouterNext]_routerVars

\* The goroutines run; the poller does its work; Redis and the poller's URL do
\* not fail every time.
RouterFairSpec ==
    /\ RouterSpec
    /\ \A c \in Call : WF_routerVars(handleError(c))
    /\ WF_routerVars(AcquireLock \/ LockNotAcquired) /\ SF_routerVars(AcquireLock)
    /\ WF_routerVars(postPoll \/ PostFails) /\ SF_routerVars(postPoll)
    /\ WF_routerVars(LockExpires)
    /\ \A k \in Primary : WF_routerVars(Poller(k))

----------------------------------------------------------------------------
\* Whatever other calls and the poller read and write in between, and however
\* records expire, a call does not select an endpoint that was blacklisted and
\* has not answered a probe since, unless it is the configured last resort and
\* the groups whose health could be read have nothing else (client.go: "the
\* next turn's fresh selection avoids the blacklisted endpoint").  The exception
\* is overwritten: the records have no version, so a poller that writes a
\* result older than the blacklisting undoes it.
NextTurnAvoids ==
    [][\A c \in Call, ok1, ok2 \in BOOLEAN :
           Select(c, ok1, ok2) /\ config'[c] \in bad \ overwritten =>
               /\ config'[c] = lastResort
               /\ ok1 => Available(Primary) = {}
               /\ ok2 => Available(FallbackGroup) = {}]_routerVars

\* However many calls of however many pods ask, the poller is asked at most
\* once while the lock lives, also when a SETNX is repeated after a timeout.
OnePollPerWindow == posts <= 1

\* Calls that are served by the fallback group bring the primary group back:
\* where the poller is configured and while one of its endpoints answers, the
\* group does not stay unselectable, whatever is blacklisted or expires.
PrimaryRecovers ==
    pollTriggerURL => \A k \in Primary :
        <>[](k \in up) /\ []<><<\E c \in Call : config[c] \in FallbackGroup
                                     /\ Served(c, FALSE)>>_routerVars
            => []<>(Available(Primary) # {})
=============================================================================
