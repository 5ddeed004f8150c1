--------------------------- MODULE WorkerRuntime ---------------------------
(***************************************************************************)
(* A worker process serving calls: the HTTP handlers of worker_api.go, the *)
(* goroutine that runs a claimed call, and the pod annotation that keeps   *)
(* the autoscaler away.  The Disha backend is external: it reserves a free *)
(* worker, forwards one conversation to it, may re-send that request, and  *)
(* considers the worker free again when the cleanup_state job runs.        *)
(***************************************************************************)
EXTENDS Naturals, FiniteSets

CONSTANTS
    Conv,          \* conversations
    MaxSends,      \* bound: times the forwarder sends one create request
    RemoteMayFail, \* may a Kubernetes PATCH or an EnqueueJob call fail?
    NoConv

ASSUME WorkerAssumption ==
    MaxSends \in Nat \ {0} /\ RemoteMayFail \in BOOLEAN /\ NoConv \notin Conv

VARIABLES
    active, reserved, activeConv,  \* workerRuntime
    task,          \* the conversation whose task setTask stored
    sessions,      \* main's registry of prepared tasks
    safeToEvict,   \* the pod annotation
    run,           \* run[c]: where runWorkerRoom or OnCleanup of c is
    enqueuing,     \* number of goroutines about to enqueue cleanup_state
    reservePC,     \* handleMarkMachineReserved between markReserved and pin
    sends,         \* sends[c]: create requests sent so far
    inTransit,     \* conversations with a create request on the network
    db,            \* external: the machine row in Disha's database
    jobs,          \* external: cleanup_state jobs not yet processed
    failed,        \* history: a Kubernetes PATCH or an EnqueueJob call failed
    late           \* history: a re-sent request arrived after its call was over

workerVars == <<active, reserved, activeConv, task, sessions>>
dishaVars  == <<sends, inTransit, db, jobs>>
history    == <<failed, late>>
vars       == <<workerVars, safeToEvict, run, enqueuing, reservePC, dishaVars,
                history>>

RunState == {"none", "pin", "prepare", "setTask", "running", "unpin", "finish"}

TypeOK ==
    /\ active \in BOOLEAN /\ reserved \in BOOLEAN
    /\ activeConv \in Conv \cup {NoConv}
    /\ task \in Conv \cup {NoConv}
    /\ sessions \subseteq Conv
    /\ safeToEvict \in BOOLEAN
    /\ run \in [Conv -> RunState]
    /\ enqueuing \in Nat
    /\ reservePC \in {"idle", "pin"}
    /\ sends \in [Conv -> 0..MaxSends]
    /\ inTransit \subseteq Conv
    /\ db \in {"free", "reserving", "reserved", "busy"}
    /\ jobs \in Nat
    /\ failed \in BOOLEAN /\ late \in BOOLEAN

Init ==
    /\ active = FALSE /\ reserved = FALSE /\ activeConv = NoConv
    /\ task = NoConv /\ sessions = {}
    /\ safeToEvict = TRUE
    /\ run = [c \in Conv |-> "none"]
    /\ enqueuing = 0 /\ reservePC = "idle"
    /\ sends = [c \in Conv |-> 0]
    /\ inTransit = {}
    /\ db = "free" /\ jobs = 0
    /\ failed = FALSE /\ late = FALSE

\* SetSafeToEvict; failures are logged and otherwise ignored.
SetSafeToEvict(safe) ==
    \/ safeToEvict' = safe /\ UNCHANGED failed
    \/ RemoteMayFail /\ failed' = TRUE /\ UNCHANGED safeToEvict

----------------------------------------------------------------------------
(* The backend and the forwarder.                                          *)

DishaReserve ==
    /\ db = "free"
    /\ db' = "reserving"
    /\ UNCHANGED <<workerVars, safeToEvict, run, enqueuing, reservePC, sends,
                   inTransit, jobs, history>>

DishaForward(c) ==
    /\ db = "reserved"
    /\ sends[c] = 0
    /\ db' = "busy"
    /\ sends' = [sends EXCEPT ![c] = 1]
    /\ inTransit' = inTransit \cup {c}
    /\ UNCHANGED <<workerVars, safeToEvict, run, enqueuing, reservePC, jobs, history>>

\* The forwarder re-sends a request whose response was slow.
Resend(c) ==
    /\ sends[c] \in 1..(MaxSends - 1)
    /\ c \notin inTransit
    /\ sends' = [sends EXCEPT ![c] = @ + 1]
    /\ inTransit' = inTransit \cup {c}
    /\ UNCHANGED <<workerVars, safeToEvict, run, enqueuing, reservePC, db, jobs, history>>

CleanupState ==
    /\ jobs > 0
    /\ jobs' = jobs - 1
    /\ db' = "free"
    /\ UNCHANGED <<workerVars, safeToEvict, run, enqueuing, reservePC, sends,
                   inTransit, history>>

----------------------------------------------------------------------------
(* HTTP handlers.                                                          *)

markReserved ==
    /\ db = "reserving" /\ reservePC = "idle"
    /\ reserved' = TRUE
    /\ reservePC' = "pin"
    /\ UNCHANGED <<active, activeConv, task, sessions, safeToEvict, run,
                   enqueuing, dishaVars, history>>

pinReserved ==
    /\ reservePC = "pin"
    /\ SetSafeToEvict(FALSE)
    /\ reservePC' = "idle"
    /\ db' = "reserved"
    /\ UNCHANGED <<workerVars, run, enqueuing, sends, inTransit, jobs, late>>

\* Mutant: the claim is granted although another call is active.
ClaimAlways(c) ==
    /\ c \in inTransit
    /\ inTransit' = inTransit \ {c}
    /\ active' = TRUE
    /\ activeConv' = c
    /\ run' = [run EXCEPT ![c] = "pin"]
    /\ UNCHANGED <<reserved, task, sessions, safeToEvict, enqueuing, reservePC,
                   sends, db, jobs, failed, late>>

\* handleCreateWorkerRoom: claim, and on a grant spawn runWorkerRoom.
CreateWorkerRoom(c) ==
    /\ c \in inTransit
    /\ inTransit' = inTransit \ {c}
    /\ IF active
       THEN UNCHANGED <<active, activeConv, run>>
       ELSE /\ active' = TRUE
            /\ activeConv' = c
            /\ run' = [run EXCEPT ![c] = "pin"]
    /\ late' = (late \/ (sends[c] > 1 /\ ~(active /\ activeConv = c)))
    /\ UNCHANGED <<reserved, task, sessions, safeToEvict, enqueuing, reservePC,
                   sends, db, jobs, failed>>

----------------------------------------------------------------------------
(* runWorkerRoom, and the task's OnCleanup once the call is over.          *)

\* Mutant: the pin of mark_machine_reserved is relied upon.
PinSkipped(c) ==
    /\ run[c] = "pin"
    /\ run' = [run EXCEPT ![c] = "prepare"]
    /\ UNCHANGED <<workerVars, safeToEvict, enqueuing, reservePC, dishaVars,
                   history>>

pinPodAgainstEviction(c) ==
    /\ run[c] = "pin"
    /\ SetSafeToEvict(FALSE)
    /\ run' = [run EXCEPT ![c] = "prepare"]
    /\ UNCHANGED <<workerVars, enqueuing, reservePC, dishaVars, late>>

prepareTask(c) ==
    /\ run[c] = "prepare"
    /\ sessions' = sessions \cup {c}
    /\ run' = [run EXCEPT ![c] = "setTask"]
    /\ UNCHANGED <<active, reserved, activeConv, task, safeToEvict, enqueuing,
                   reservePC, dishaVars, history>>

prepareTaskFails(c) ==
    /\ run[c] = "prepare"
    /\ run' = [run EXCEPT ![c] = "unpin"]
    /\ UNCHANGED <<workerVars, safeToEvict, enqueuing, reservePC, dishaVars,
                   history>>

setTask(c) ==
    /\ run[c] = "setTask"
    /\ task' = c
    /\ run' = [run EXCEPT ![c] = "running"]
    /\ UNCHANGED <<active, reserved, activeConv, sessions, safeToEvict,
                   enqueuing, reservePC, dishaVars, history>>

\* Mutant: cleanup_state is enqueued first, before the worker is released.
UnregisterEnqueues(c) ==
    /\ run[c] = "running"
    /\ sessions' = sessions \ {c}
    /\ run' = [run EXCEPT ![c] = "unpin"]
    /\ enqueuing' = enqueuing + 1
    /\ UNCHANGED <<active, reserved, activeConv, task, safeToEvict, reservePC,
                   dishaVars, history>>

\* The call ended; PipelineTask's cleanup calls OnCleanup.
unregisterTask(c) ==
    /\ run[c] = "running"
    /\ sessions' = sessions \ {c}
    /\ run' = [run EXCEPT ![c] = "unpin"]
    /\ UNCHANGED <<active, reserved, activeConv, task, safeToEvict, enqueuing,
                   reservePC, dishaVars, history>>

unpinPodAfterCall(c) ==
    /\ run[c] = "unpin"
    /\ SetSafeToEvict(TRUE)
    /\ run' = [run EXCEPT ![c] = "finish"]
    /\ UNCHANGED <<workerVars, enqueuing, reservePC, dishaVars, late>>

\* Mutant: the claim is not given up.
FinishKeepsClaim(c) ==
    /\ run[c] = "finish"
    /\ reserved' = FALSE
    /\ task' = NoConv
    /\ run' = [run EXCEPT ![c] = "none"]
    /\ enqueuing' = enqueuing + 1
    /\ UNCHANGED <<active, activeConv, sessions, safeToEvict, reservePC,
                   dishaVars, history>>

finish(c) ==
    /\ run[c] = "finish"
    /\ active' = FALSE
    /\ reserved' = FALSE
    /\ task' = NoConv
    /\ activeConv' = NoConv
    /\ run' = [run EXCEPT ![c] = "none"]
    /\ enqueuing' = enqueuing + 1
    /\ UNCHANGED <<sessions, safeToEvict, reservePC, dishaVars, history>>

\* Mutant: cleanup_state is enqueued by a goroutine nobody counted.
EnqueueUncounted ==
    /\ enqueuing' = enqueuing - 1
    /\ jobs' = jobs + 1
    /\ UNCHANGED <<workerVars, safeToEvict, run, reservePC, sends, inTransit,
                   db, history>>

\* An error of the enqueue call is logged and the job is not retried.
EnqueueWorkerCleanup ==
    /\ enqueuing > 0
    /\ enqueuing' = enqueuing - 1
    /\ \/ jobs' = jobs + 1 /\ UNCHANGED failed
       \/ RemoteMayFail /\ failed' = TRUE /\ UNCHANGED jobs
    /\ UNCHANGED <<workerVars, safeToEvict, run, reservePC, sends, inTransit,
                   db, late>>

Run(c) ==
    \/ pinPodAgainstEviction(c) \/ prepareTask(c) \/ prepareTaskFails(c)
    \/ setTask(c) \/ unregisterTask(c) \/ unpinPodAfterCall(c) \/ finish(c)

Next ==
    \/ DishaReserve \/ CleanupState \/ markReserved \/ pinReserved
    \/ EnqueueWorkerCleanup
    \/ \E c \in Conv : \/ DishaForward(c) \/ Resend(c) \/ CreateWorkerRoom(c)
                       \/ Run(c)

Spec == Init /\ [][Next]_vars

----------------------------------------------------------------------------
(* Properties.                                                             *)

InCall(c) == run[c] # "none"

\* Two bots never run on one worker, however create requests are retried and
\* interleaved with the end of a call, and the registry, the stored task and
\* the claim all describe the same call.
OneCall ==
    \A c \in Conv :
        /\ InCall(c) => active /\ activeConv = c
        /\ c \in sessions => InCall(c)
        /\ task = c => InCall(c)

\* While a bot runs a call the autoscaler may not evict the pod, provided the
\* Kubernetes patches succeeded: the previous call's unpin precedes its release
\* of the claim, so it cannot undo the next call's pin.
PinnedDuringCall ==
    ~failed => \A c \in Conv :
        run[c] \in {"prepare", "setTask", "running"} => ~safeToEvict

\* A worker Disha has reserved stays pinned, and marked reserved, until its
\* call takes over.
ReservedPinned == db = "reserved" /\ ~failed => ~safeToEvict /\ reserved
=============================================================================
