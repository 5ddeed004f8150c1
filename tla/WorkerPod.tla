----------------------------- MODULE WorkerPod -----------------------------
(***************************************************************************)
(* The life of the pod around the worker runtime: registration with Disha  *)
(* at process start (disha/worker_lifecycle.go, main.go), SIGTERM          *)
(* (signal_handler.go), abrupt exits and container restarts.  Composed     *)
(* with WorkerRuntime: a process that dies takes its call with it.         *)
(*                                                                         *)
(* Registration and graceful shutdown are jobs of one FIFO queue of the    *)
(* backend, which owns the machine row a pod is reserved through.          *)
(***************************************************************************)
EXTENDS WorkerRuntime, Sequences

CONSTANTS
    MaxCrashes,   \* bound: times the process dies on its own
    MaxSigterms   \* bound: SIGTERMs Kubernetes sends

ASSUME PodAssumption == MaxCrashes \in Nat /\ MaxSigterms \in Nat

VARIABLES
    proc,       \* the process: its step of RegisterWorkerPod, then "serving"
    term,       \* the signal goroutine, after shutdownInitiated was claimed
    regKey,     \* Redis: registered_pod:<name>:<uid>
    fifo,       \* external: jobs in fifo-p0-fast-l1
    row,        \* external: the pod's gkeworkermachines row
    deleting,   \* external: Kubernetes is deleting the pod
    sigterms,   \* SIGTERMs delivered
    crashes,    \* times the process died
    enqueued,   \* history: a registration job was enqueued
    lost,       \* history: the graceful-shutdown job was not enqueued
    early       \* history: SIGTERM was handled before registration was done

bootVars == <<proc, regKey, crashes, enqueued>>
termVars == <<term, deleting, sigterms, lost, early>>
podVars  == <<bootVars, termVars, fifo, row>>
allVars  == <<vars, podVars>>

PodTypeOK ==
    /\ TypeOK
    /\ proc \in {"lookup", "enqueue", "setKey", "serving", "down", "deleted"}
    /\ term \in {"idle", "setKey", "enqueue", "handled"}
    /\ regKey \in BOOLEAN
    /\ fifo \in Seq({"register", "shutdown"})
    /\ row \in {"none", "present", "cleared"}
    /\ deleting \in BOOLEAN
    /\ sigterms \in 0..MaxSigterms /\ crashes \in 0..MaxCrashes
    /\ enqueued \in BOOLEAN /\ lost \in BOOLEAN /\ early \in BOOLEAN

PodInit ==
    /\ Init
    /\ proc = "lookup" /\ term = "idle"
    /\ regKey = FALSE
    /\ fifo = <<>> /\ row = "none" /\ deleting = FALSE
    /\ sigterms = 0 /\ crashes = 0
    /\ enqueued = FALSE /\ lost = FALSE /\ early = FALSE

----------------------------------------------------------------------------
(* The process dies: everything in memory is gone, Disha's view stays.     *)

Dies(state) ==
    /\ proc' = state
    /\ term' = "idle"
    /\ active' = FALSE /\ reserved' = FALSE /\ activeConv' = NoConv
    /\ task' = NoConv /\ sessions' = {}
    /\ run' = [c \in Conv |-> "none"]
    /\ enqueuing' = 0 /\ reservePC' = "idle"
    /\ lost' = (lost \/ term \in {"setKey", "enqueue"})
    /\ UNCHANGED <<safeToEvict, dishaVars, history>>

Alive == proc \notin {"down", "deleted"}

\* A panic, an OOM kill, /bot/trigger_exit, or SIGINT.
Crash ==
    /\ Alive
    /\ crashes < MaxCrashes
    /\ crashes' = crashes + 1
    /\ Dies("down")
    /\ UNCHANGED <<regKey, enqueued, deleting, sigterms, early,
                   fifo, row>>

\* restartPolicy Always restarts the container in the same pod, so under the
\* same name and UID, unless the pod is being deleted.
Restart ==
    /\ proc = "down" /\ ~deleting
    /\ proc' = "lookup"
    /\ UNCHANGED <<vars, regKey, crashes, enqueued, termVars, fifo, row>>

----------------------------------------------------------------------------
(* RegisterWorkerPod; main calls log.Fatal on an error.                    *)

RegisterFails ==
    /\ proc \in {"lookup", "enqueue", "setKey"}
    /\ RemoteMayFail
    /\ crashes < MaxCrashes
    /\ crashes' = crashes + 1
    /\ Dies("down")
    /\ UNCHANGED <<regKey, enqueued, deleting, sigterms, early,
                   fifo, row>>

\* Mutant: the idempotency key is written before the job is enqueued.
LookupSetsKey ==
    /\ proc = "lookup"
    /\ proc' = IF regKey THEN "serving" ELSE "enqueue"
    /\ regKey' = TRUE
    /\ UNCHANGED <<vars, crashes, enqueued, termVars, fifo, row>>

RegisterLookup ==
    /\ proc = "lookup"
    /\ proc' = IF regKey THEN "serving" ELSE "enqueue"
    /\ UNCHANGED <<vars, regKey, crashes, enqueued, termVars, fifo, row>>

RegisterEnqueue ==
    /\ proc = "enqueue"
    /\ proc' = "setKey"
    /\ fifo' = Append(fifo, "register")
    /\ enqueued' = TRUE
    /\ UNCHANGED <<vars, regKey, crashes, termVars, row>>

RegisterSetKey ==
    /\ proc = "setKey"
    /\ proc' = "serving"
    /\ regKey' = TRUE
    /\ UNCHANGED <<vars, crashes, enqueued, termVars, fifo, row>>

RegisterWorkerPod == RegisterLookup \/ RegisterEnqueue \/ RegisterSetKey

----------------------------------------------------------------------------
(* SIGTERM.                                                                *)

\* handleShutdownSignal: only the first signal is acted upon.  A container
\* that is down when the pod is deleted handles none.
Sigterm ==
    /\ proc # "deleted"
    /\ sigterms < MaxSigterms
    /\ sigterms' = sigterms + 1
    /\ deleting' = TRUE
    /\ IF Alive /\ term = "idle"
       THEN term' = "setKey" /\ early' = (early \/ proc # "serving")
       ELSE UNCHANGED <<term, early>>
    /\ lost' = (lost \/ ~Alive)
    /\ UNCHANGED <<vars, bootVars, fifo, row>>

\* Mutant: an idle worker exits on SIGTERM without telling the backend.
SigtermExitsIdle ==
    /\ term = "setKey"
    /\ \/ ~active /\ term' = "handled" /\ UNCHANGED lost
       \/ active /\ term' = "enqueue" /\ UNCHANGED lost
    /\ UNCHANGED <<vars, bootVars, deleting, sigterms, early, fifo, row>>

\* EnqueueWorkerGracefulShutdown; an error is logged and never retried.
SigtermSetKey ==
    /\ term = "setKey"
    /\ \/ term' = "enqueue" /\ UNCHANGED lost
       \/ /\ RemoteMayFail
          /\ term' = "handled" /\ lost' = TRUE
    /\ UNCHANGED <<vars, bootVars, deleting, sigterms, early, fifo, row>>

SigtermEnqueue ==
    /\ term = "enqueue"
    /\ term' = "handled"
    /\ \/ fifo' = Append(fifo, "shutdown") /\ UNCHANGED lost
       \/ RemoteMayFail /\ lost' = TRUE /\ UNCHANGED fifo
    /\ UNCHANGED <<vars, bootVars, deleting, sigterms, early, row>>

EnqueueWorkerGracefulShutdown == SigtermSetKey \/ SigtermEnqueue

----------------------------------------------------------------------------
(* The backend and Kubernetes.                                             *)

\* register_worker_pod_db_ops and on_graceful_shutdown_initiated, in order;
\* the latter waits for the machine's call to be over.
FifoJob ==
    /\ fifo # <<>>
    /\ Head(fifo) = "shutdown" => db = "free"
    /\ fifo' = Tail(fifo)
    /\ row' = CASE Head(fifo) = "register" -> "present"
                [] OTHER -> IF row = "present" THEN "cleared" ELSE row
    /\ UNCHANGED <<vars, bootVars, termVars>>

\* The pod goes away once its row is cleared, or at the end of the termination
\* grace period, which is longer than any call.
DeletePod ==
    /\ deleting /\ proc # "deleted"
    /\ enqueuing = 0 /\ \A c \in Conv : run[c] = "none"
    /\ row = "cleared" \/ (term \in {"idle", "handled"} /\ fifo = <<>>)
    /\ Dies("deleted")
    /\ UNCHANGED <<regKey, crashes, enqueued, deleting, sigterms,
                   early, fifo, row>>

\* A request to a worker that does not listen is refused.
RequestRefused ==
    /\ proc # "serving"
    /\ \/ inTransit # {} /\ inTransit' = {} /\ UNCHANGED db
       \/ db = "reserving" /\ db' = "free" /\ UNCHANGED inTransit
    /\ UNCHANGED <<workerVars, safeToEvict, run, enqueuing, reservePC, sends,
                   jobs, history, podVars>>

Serve ==
    /\ proc = "serving"
    /\ \/ markReserved \/ pinReserved \/ EnqueueWorkerCleanup
       \/ \E c \in Conv : CreateWorkerRoom(c) \/ Run(c)
    /\ UNCHANGED podVars

Backend ==
    /\ \/ CleanupState
       \/ /\ proc # "deleted"
          /\ \/ row = "present" /\ DishaReserve
             \/ \E c \in Conv : DishaForward(c) \/ Resend(c)
    /\ UNCHANGED podVars

PodNext ==
    \/ Serve \/ Backend \/ RequestRefused
    \/ Crash \/ Restart \/ RegisterFails \/ RegisterWorkerPod
    \/ Sigterm \/ EnqueueWorkerGracefulShutdown
    \/ FifoJob \/ DeletePod

PodSpec == PodInit /\ [][PodNext]_allVars

\* Goroutines of a live process run, calls end, queued jobs are processed and
\* containers restarted.  Nobody has to reserve, forward, crash or delete.
PodFairSpec ==
    /\ PodSpec
    /\ WF_allVars(Serve)
    /\ WF_allVars(Backend /\ CleanupState)
    /\ WF_allVars(FifoJob)
    /\ WF_allVars(Restart \/ RegisterWorkerPod \/ EnqueueWorkerGracefulShutdown)

----------------------------------------------------------------------------
(* Properties.                                                             *)

\* A worker that serves is known to the backend: wherever an earlier start of
\* the process died, the idempotency key never stands for a registration that
\* was not enqueued.
ServingIsRegistered == proc = "serving" => enqueued

\* The guarantee of ReservedPinned holds as long as no re-sent create request
\* outlived its call and the process did not lose its memory: the previous
\* call's unpin and release cannot undo a reservation.
ReservedStaysPinned == Alive /\ ~late /\ crashes = 0 => ReservedPinned

\* A claimed worker is released and Disha hears about it, unless the one call
\* that would tell it failed or the process died first.
Released ==
    (\E c \in Conv : InCall(c))
      ~> (~active /\ db = "free") \/ failed \/ crashes > 0

\* A pod that is being deleted does not stay reservable: its free machine row
\* is cleared.  Excepted are a shutdown job that could not be enqueued (nothing
\* retries it) and a SIGTERM that overtook the registration of its own process.
ShutdownClearsMachine ==
    (deleting /\ row = "present" /\ db = "free")
      ~> (row # "present" \/ db # "free" \/ lost \/ early)
=============================================================================
