-------------------------------- MODULE Rooms --------------------------------
(***************************************************************************)
(* Joining a Daily or a LiveKit room, what the room reports during a call, *)
(* and leaving it (voicepipelinecore/daily_room.go, livekit_room.go).  A   *)
(* Daily connection is a bridge process, a LiveKit connection one of the   *)
(* SDK; what they do is external.  A connection that is lost during the    *)
(* call only makes the user silent: no code reacts to it.  A participant   *)
(* who leaves before the pipeline exists is the subject of PipelineTask.   *)
(***************************************************************************)
EXTENDS Naturals

CONSTANTS JoinRetries   \* dailyJoinRetries, liveKitJoinRetries (3)

ASSUME RoomAssumption == JoinRetries \in Nat \ {0}

VARIABLES
    transport,   \* "daily" or "livekit"
    join,        \* progress of JoinDailyRoom or JoinLiveKitRoom, and Disconnect
    attempt,     \* the loop variable of the join
    result,      \* joinResult of the current room: "none", "ok" or "err"
    conn,        \* connection of the current room: "none", "made", "inRoom"
    stray,       \* connections of earlier rooms that still exist
    greeted,     \* greetOnce of the current room is spent
    queued,      \* greeting frames in the audio source's input channel
    user         \* the user: "away", "here" or "left"

roomVars == <<transport, join, attempt, result, conn, stray, greeted, queued,
              user>>

RoomInit ==
    /\ join = "start" /\ attempt = 1 /\ result = "none"
    /\ conn = "none" /\ stray = 0 /\ greeted = FALSE /\ queued = 0
    /\ user = "away"

----------------------------------------------------------------------------
(* The retry loop of both transports: each attempt makes a room anew.  The *)
(* back-off also ends when the task's context is done, a branch that is    *)
(* not reachable: the context descends from context.Background()           *)
(* (worker_api.go:182), and only Abort and cleanup cancel it, and both     *)
(* come after the join has returned.                                       *)

AttemptFails == join' = IF attempt < JoinRetries THEN "backoff" ELSE "failed"

Retry ==
    /\ join = "backoff"
    /\ join' = "start"
    /\ attempt' = attempt + 1
    /\ result' = "none" /\ greeted' = FALSE
    /\ conn' = "none" /\ stray' = stray + (IF conn = "none" THEN 0 ELSE 1)
    /\ UNCHANGED <<transport, queued, user>>

\* The function returns the room; its loop is forgotten.
Joined == join' = "joined" /\ attempt' = 1

----------------------------------------------------------------------------
(* Daily: startDailyRoomAttempt and the bridge process.                    *)

startDailyRoomAttempt ==
    /\ transport = "daily" /\ join = "start"
    /\ \/ join' = "waiting" /\ conn' = "made"
       \/ AttemptFails /\ UNCHANGED conn
    /\ UNCHANGED <<transport, attempt, result, stray, greeted, queued, user>>

\* The first outcome wins: joinOnce.
finishJoin(r) == result' = IF result = "none" THEN r ELSE result

BridgeJoined ==
    /\ transport = "daily" /\ join = "waiting"
    /\ conn = "made" /\ conn' = "inRoom"
    /\ finishJoin("ok")
    /\ UNCHANGED <<transport, join, attempt, stray, greeted, queued, user>>

BridgeError ==
    /\ transport = "daily" /\ join = "waiting" /\ conn # "none"
    /\ finishJoin("err")
    /\ UNCHANGED <<transport, join, attempt, conn, stray, greeted, queued, user>>

\* The bridge exits by itself: cmd.Wait reports it if it exited with an error.
BridgeExits ==
    /\ transport = "daily" /\ join = "waiting"
    /\ conn # "none" /\ conn' = "none"
    /\ finishJoin("err") \/ UNCHANGED result
    /\ UNCHANGED <<transport, join, attempt, stray, greeted, queued, user>>

JoinReturns ==
    /\ join = "waiting" /\ result = "ok"
    /\ Joined
    /\ UNCHANGED <<transport, result, conn, stray, greeted, queued, user>>

\* joinResult holds an error, or dailyJoinTimeout passes: Disconnect.
JoinFails ==
    /\ join = "waiting"
    /\ join' = "closing"
    /\ UNCHANGED <<transport, attempt, result, conn, stray, greeted, queued,
                   user>>

\* The bridge obeys the leave command, sees its stdin closed, or is killed.
BridgeLeaves ==
    /\ transport = "daily" /\ join \in {"closing", "leaving"}
    /\ conn # "none" /\ conn' = "none"
    /\ UNCHANGED <<transport, join, attempt, result, stray, greeted, queued,
                   user>>

\* Mutant: Disconnect does not wait for the bridge to exit.
DisconnectAtOnce ==
    /\ join \in {"closing", "leaving"}
    /\ IF join = "closing" THEN AttemptFails ELSE join' = "left"
    /\ UNCHANGED <<transport, attempt, result, conn, stray, greeted, queued,
                   user>>

\* Disconnect returns when waitDone is closed.
DailyDisconnected ==
    /\ join \in {"closing", "leaving"}
    /\ conn = "none"
    /\ IF join = "closing" THEN AttemptFails ELSE join' = "left"
    /\ UNCHANGED <<transport, attempt, result, conn, stray, greeted, queued,
                   user>>

----------------------------------------------------------------------------
(* LiveKit: startLiveKitRoomAttempt and the SDK's connection.              *)

ConnectToRoom ==
    /\ transport = "livekit" /\ join = "start"
    /\ \/ join' = "publishing" /\ conn' = "inRoom"
       \/ AttemptFails /\ UNCHANGED conn
    /\ UNCHANGED <<transport, attempt, result, stray, greeted, queued, user>>

\* Creating or publishing the track fails: Disconnect, then the next attempt.
PublishFails ==
    /\ join = "publishing"
    /\ conn' = "none"
    /\ AttemptFails
    /\ UNCHANGED <<transport, attempt, result, stray, greeted, queued, user>>

PublishTrack ==
    /\ join = "publishing"
    /\ Joined
    /\ UNCHANGED <<transport, result, conn, stray, greeted, queued, user>>

----------------------------------------------------------------------------
(* The user, and the call's end.                                           *)

UserArrives ==
    /\ user = "away" /\ user' = "here"
    /\ join \notin {"failed", "leaving", "left"}
    /\ UNCHANGED <<transport, join, attempt, result, conn, stray, greeted,
                   queued>>

\* participant_joined, or the participants found after publishing: the first
\* one makes the bot speak first.
markUserJoined ==
    /\ user = "here" /\ conn = "inRoom"
    /\ ~greeted /\ greeted' = TRUE
    /\ queued' = queued + 1
    /\ UNCHANGED <<transport, join, attempt, result, conn, stray, user>>

\* participant_left or end_call: the caller requests the end of the task.
UserLeaves ==
    /\ join = "joined" /\ conn = "inRoom"
    /\ user = "here" /\ user' = "left"
    /\ UNCHANGED <<transport, join, attempt, result, conn, stray, greeted,
                   queued>>

\* RoomTransport.Disconnect, called by cleanup: LiveKit's returns when the SDK
\* has left, Daily's goes on to wait for the bridge.
Disconnect ==
    /\ join = "joined"
    /\ IF transport = "daily" THEN join' = "leaving" /\ UNCHANGED conn
       ELSE join' = "left" /\ conn' = "none"
    /\ UNCHANGED <<transport, attempt, result, stray, greeted, queued, user>>

JoinStep ==
    \/ Retry \/ startDailyRoomAttempt \/ JoinReturns \/ JoinFails
    \/ DailyDisconnected \/ ConnectToRoom \/ PublishTrack \/ PublishFails

RoomEvent ==
    \/ BridgeJoined \/ BridgeError \/ BridgeExits \/ UserArrives

----------------------------------------------------------------------------
\* However often joining is retried, the bot is in the room at most once, and
\* a call that could not join, or has left, leaves no bridge or connection.
OneConnection ==
    /\ stray = 0
    /\ join \in {"backoff", "failed", "left"} => conn = "none"
=============================================================================
