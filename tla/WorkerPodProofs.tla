-------------------------- MODULE WorkerPodProofs ---------------------------
(***************************************************************************)
(* Proofs, for any number of conversations, re-sent requests, crashes and  *)
(* SIGTERMs, of the safety of a worker process and its pod.                *)
(***************************************************************************)
EXTENDS WorkerPod, TLAPS

USE WorkerAssumption, PodAssumption

----------------------------------------------------------------------------
(* Types.                                                                  *)

\* The initial state has the types the code gives its variables.
LEMMA TypeInit == PodInit => PodTypeOK
<1> SUFFICES ASSUME PodInit PROVE PodTypeOK
  OBVIOUS
<1> USE DEF PodInit, Init
<1>1. /\ run \in [Conv -> RunState]
      /\ sends \in [Conv -> 0..MaxSends]
      /\ enqueuing \in Nat /\ jobs \in Nat
      /\ sigterms \in 0..MaxSigterms /\ crashes \in 0..MaxCrashes
      /\ fifo \in Seq({"register", "shutdown"})
  BY DEF RunState
<1> QED
  BY <1>1, Zenon DEF PodTypeOK, TypeOK

\* A Kubernetes PATCH that fails is noted and changes nothing else.
LEMMA PatchType ==
    ASSUME failed \in BOOLEAN, safeToEvict \in BOOLEAN,
           NEW safe \in BOOLEAN, SetSafeToEvict(safe)
    PROVE  failed' \in BOOLEAN /\ safeToEvict' \in BOOLEAN
BY Zenon DEF SetSafeToEvict

\* What the death of a process leaves behind is well typed.
LEMMA TypeDies ==
    ASSUME PodTypeOK, NEW state \in {"down", "deleted"}, Dies(state)
    PROVE  /\ TypeOK'
           /\ proc' = state /\ term' = "idle" /\ lost' \in BOOLEAN
<1>1. run' \in [Conv -> RunState]
  BY DEF Dies, RunState
<1> QED
  BY <1>1 DEF Dies, PodTypeOK, TypeOK, dishaVars, history

\* Every step of the process, the backend and Kubernetes preserves the types.
LEMMA TypeNext == PodTypeOK /\ [PodNext]_allVars => PodTypeOK'
<1> SUFFICES ASSUME PodTypeOK, [PodNext]_allVars PROVE PodTypeOK'
  OBVIOUS
<1> USE DEF PodTypeOK, TypeOK
<1>1. CASE Serve
  <2> USE DEF podVars, bootVars, termVars, workerVars, dishaVars, history
  <2>0. UNCHANGED podVars
    BY <1>1 DEF Serve
  <2>1. CASE markReserved
    BY <2>0, <2>1 DEF markReserved
  <2>2. CASE pinReserved
    <3>1. failed' \in BOOLEAN /\ safeToEvict' \in BOOLEAN
      BY <2>2, PatchType DEF pinReserved
    <3> QED
      BY <2>0, <2>2, <3>1 DEF pinReserved
  <2>3. CASE EnqueueWorkerCleanup
    <3>1. failed' \in BOOLEAN
      BY <2>3, Zenon DEF EnqueueWorkerCleanup
    <3>2. enqueuing' \in Nat /\ jobs' \in Nat
      BY <2>3 DEF EnqueueWorkerCleanup
    <3> QED
      BY <2>0, <2>3, <3>1, <3>2 DEF EnqueueWorkerCleanup
  <2>4. ASSUME NEW c \in Conv, CreateWorkerRoom(c) PROVE PodTypeOK'
    <3>1. run' \in [Conv -> RunState]
      BY <2>4 DEF CreateWorkerRoom, RunState
    <3>2. late' \in BOOLEAN
      BY <2>4, Zenon DEF CreateWorkerRoom
    <3>3. active' \in BOOLEAN /\ activeConv' \in Conv \cup {NoConv}
      BY <2>4, Zenon DEF CreateWorkerRoom
    <3> QED
      BY <2>0, <2>4, <3>1, <3>2, <3>3 DEF CreateWorkerRoom
  <2>5. ASSUME NEW c \in Conv, Run(c) PROVE PodTypeOK'
    <3>1. run' \in [Conv -> RunState]
      BY <2>5 DEF Run, pinPodAgainstEviction, prepareTask, prepareTaskFails,
                  setTask, unregisterTask, unpinPodAfterCall, finish, RunState
    <3>2. CASE pinPodAgainstEviction(c) \/ unpinPodAfterCall(c)
      <4>1. failed' \in BOOLEAN /\ safeToEvict' \in BOOLEAN
        BY <3>2, PatchType DEF pinPodAgainstEviction, unpinPodAfterCall
      <4>2. UNCHANGED <<workerVars, enqueuing, reservePC, dishaVars, late>>
        BY <3>2 DEF pinPodAgainstEviction, unpinPodAfterCall
      <4> QED
        BY <2>0, <3>1, <4>1, <4>2
    <3>3. CASE \/ prepareTask(c) \/ prepareTaskFails(c) \/ setTask(c)
               \/ unregisterTask(c)
      BY <2>0, <3>1, <3>3 DEF prepareTask, prepareTaskFails, setTask,
                              unregisterTask
    <3>4. CASE finish(c)
      <4>1. enqueuing' \in Nat
        BY <3>4 DEF finish
      <4>2. /\ active' \in BOOLEAN /\ reserved' \in BOOLEAN
            /\ task' = NoConv /\ activeConv' = NoConv
            /\ UNCHANGED <<sessions, safeToEvict, reservePC, dishaVars, history>>
        BY <3>4, Zenon DEF finish
      <4> QED
        BY <2>0, <3>1, <4>1, <4>2
    <3> QED
      BY <2>5, <3>2, <3>3, <3>4 DEF Run
  <2> QED
    BY <1>1, <2>1, <2>2, <2>3, <2>4, <2>5 DEF Serve
<1>2. CASE Backend
  <2> USE DEF podVars, bootVars, termVars, workerVars, dishaVars, history
  <2>0. UNCHANGED podVars
    BY <1>2 DEF Backend
  <2>1. CASE CleanupState
    BY <2>0, <2>1 DEF CleanupState
  <2>2. CASE DishaReserve
    BY <2>0, <2>2 DEF DishaReserve
  <2>3. ASSUME NEW c \in Conv, DishaForward(c) \/ Resend(c) PROVE PodTypeOK'
    <3>1. sends' \in [Conv -> 0..MaxSends]
      BY <2>3 DEF DishaForward, Resend
    <3> QED
      BY <2>0, <2>3, <3>1 DEF DishaForward, Resend
  <2> QED
    BY <1>2, <2>1, <2>2, <2>3 DEF Backend
<1>3. CASE RequestRefused
  BY <1>3 DEF RequestRefused, podVars, bootVars, termVars, workerVars, dishaVars,
              history
<1>4. CASE Crash \/ RegisterFails
  <2>1. Dies("down") /\ crashes' \in 0..MaxCrashes
    BY <1>4 DEF Crash, RegisterFails
  <2> QED
    BY <1>4, <2>1, TypeDies DEF Crash, RegisterFails
<1>5. CASE Restart \/ RegisterWorkerPod
  <2>1. fifo' \in Seq({"register", "shutdown"})
    <3>1. Append(fifo, "register") \in Seq({"register", "shutdown"})
      OBVIOUS
    <3> QED
      BY <1>5, <3>1, Zenon DEF Restart, RegisterWorkerPod, RegisterLookup,
                               RegisterEnqueue, RegisterSetKey
  <2>2. /\ regKey' \in BOOLEAN /\ enqueued' \in BOOLEAN
        /\ proc' \in {"lookup", "enqueue", "setKey", "serving"}
    BY <1>5, Zenon DEF Restart, RegisterWorkerPod, RegisterLookup,
                       RegisterEnqueue, RegisterSetKey
  <2>3. UNCHANGED <<vars, termVars, crashes, row>>
    BY <1>5 DEF Restart, RegisterWorkerPod, RegisterLookup, RegisterEnqueue,
                RegisterSetKey
  <2> QED
    BY <2>1, <2>2, <2>3 DEF vars, workerVars, dishaVars, history, termVars
<1>6. CASE Sigterm \/ EnqueueWorkerGracefulShutdown
  <2>0. sigterms' \in 0..MaxSigterms
    BY <1>6 DEF Sigterm, EnqueueWorkerGracefulShutdown, SigtermSetKey,
                SigtermEnqueue
  <2>1. fifo' \in Seq({"register", "shutdown"})
    <3>1. Append(fifo, "shutdown") \in Seq({"register", "shutdown"})
      OBVIOUS
    <3> QED
      BY <1>6, <3>1, Zenon DEF Sigterm, EnqueueWorkerGracefulShutdown,
                               SigtermSetKey, SigtermEnqueue
  <2>2. /\ term' \in {"idle", "setKey", "enqueue", "handled"}
        /\ deleting' \in BOOLEAN /\ lost' \in BOOLEAN /\ early' \in BOOLEAN
    BY <1>6 DEF Sigterm, EnqueueWorkerGracefulShutdown, SigtermSetKey,
                SigtermEnqueue
  <2>3. UNCHANGED <<vars, bootVars, row>>
    BY <1>6 DEF Sigterm, EnqueueWorkerGracefulShutdown, SigtermSetKey,
                SigtermEnqueue
  <2> QED
    BY <2>0, <2>1, <2>2, <2>3 DEF vars, workerVars, dishaVars, history, bootVars
<1>7. CASE FifoJob
  BY <1>7 DEF FifoJob, vars, workerVars, dishaVars, history, bootVars, termVars
<1>8. CASE DeletePod
  BY <1>8, TypeDies DEF DeletePod
<1>9. CASE UNCHANGED allVars
  BY <1>9 DEF allVars, podVars, bootVars, termVars, vars, workerVars, dishaVars,
              history
<1> QED
  BY <1>1, <1>2, <1>3, <1>4, <1>5, <1>6, <1>7, <1>8, <1>9 DEF PodNext

\* The variables of the worker, the pod and the backend keep their types.
THEOREM TypeCorrect == PodSpec => []PodTypeOK
BY TypeInit, TypeNext, PTL DEF PodSpec

----------------------------------------------------------------------------
(* Registration.                                                           *)

RegisteredInv ==
    /\ regKey => enqueued
    /\ proc \in {"setKey", "serving"} => enqueued

\* A step that is not one of registration neither starts to serve nor touches
\* the idempotency key.
LEMMA RegisteredNext == RegisteredInv /\ [PodNext]_allVars => RegisteredInv'
<1> SUFFICES ASSUME RegisteredInv, [PodNext]_allVars PROVE RegisteredInv'
  OBVIOUS
<1> USE DEF RegisteredInv
<1>1. CASE Serve \/ Backend \/ RequestRefused
  BY <1>1 DEF Serve, Backend, RequestRefused, podVars, bootVars
<1>2. CASE Crash \/ RegisterFails \/ DeletePod
  BY <1>2 DEF Crash, RegisterFails, DeletePod, Dies
<1>3. CASE Restart \/ RegisterWorkerPod
  BY <1>3 DEF Restart, RegisterWorkerPod, RegisterLookup, RegisterEnqueue,
              RegisterSetKey
<1>4. CASE Sigterm \/ EnqueueWorkerGracefulShutdown \/ FifoJob
  BY <1>4 DEF Sigterm, EnqueueWorkerGracefulShutdown, SigtermSetKey,
              SigtermEnqueue, FifoJob, bootVars
<1>5. CASE UNCHANGED allVars
  BY <1>5 DEF allVars, podVars, bootVars
<1> QED
  BY <1>1, <1>2, <1>3, <1>4, <1>5 DEF PodNext

\* However often the process dies during RegisterWorkerPod, a worker that serves
\* has its registration enqueued.
THEOREM Registration == PodSpec => []ServingIsRegistered
<1>1. PodInit => RegisteredInv
  BY DEF PodInit, RegisteredInv
<1>2. RegisteredInv => ServingIsRegistered
  BY DEF RegisteredInv, ServingIsRegistered
<1> QED
  BY <1>1, <1>2, RegisteredNext, PTL DEF PodSpec

----------------------------------------------------------------------------
(* One call at a time, and the pod pinned during it.                       *)

\* The registry and the stored task name a call that is at the right step.
CallInv ==
    \A c \in Conv :
        /\ InCall(c) => active /\ activeConv = c
        /\ c \in sessions => run[c] \in {"setTask", "running"}
        /\ task = c => run[c] \in {"running", "unpin", "finish"}

\* Two calls are never in progress together.
LEMMA OnlyCall ==
    ASSUME CallInv, NEW c \in Conv, NEW d \in Conv, InCall(c), InCall(d)
    PROVE  c = d
BY DEF CallInv

\* The death of the process ends its call.
LEMMA DiesClears ==
    ASSUME NEW state, Dies(state)
    PROVE  CallInv' /\ PinnedDuringCall'
BY DEF Dies, CallInv, PinnedDuringCall, InCall

\* Nothing but the handlers and goroutines of the worker touches its state.
LEMMA WorkerSteps ==
    ASSUME [PodNext]_allVars
    PROVE  \/ Serve
           \/ \E state \in {"down", "deleted"} : Dies(state)
           \/ UNCHANGED <<workerVars, safeToEvict, run, enqueuing, reservePC,
                          history>>
<1>1. CASE Serve
  BY <1>1
<1>2. CASE Backend \/ RequestRefused
  <2>1. UNCHANGED <<workerVars, safeToEvict, run, enqueuing, reservePC, history>>
    BY <1>2 DEF Backend, RequestRefused, CleanupState, DishaReserve,
                DishaForward, Resend
  <2> QED
    BY <2>1
<1>3. CASE Crash \/ RegisterFails \/ DeletePod
  BY <1>3 DEF Crash, RegisterFails, DeletePod
<1>4. CASE \/ Restart \/ RegisterWorkerPod \/ Sigterm
           \/ EnqueueWorkerGracefulShutdown \/ FifoJob \/ UNCHANGED allVars
  <2>1. UNCHANGED vars
    BY <1>4 DEF Restart, RegisterWorkerPod, RegisterLookup, RegisterEnqueue,
                RegisterSetKey, Sigterm, EnqueueWorkerGracefulShutdown,
                SigtermSetKey, SigtermEnqueue, FifoJob, allVars
  <2> QED
    BY <2>1 DEF vars
<1> QED
  BY <1>1, <1>2, <1>3, <1>4 DEF PodNext

\* A claim is granted only to a worker without a call, and each step of a call
\* leaves the registry and the stored task in accordance with it.
LEMMA CallNext ==
    PodTypeOK /\ CallInv /\ [PodNext]_allVars => CallInv'
<1> SUFFICES ASSUME PodTypeOK, CallInv, [PodNext]_allVars PROVE CallInv'
  OBVIOUS
<1> USE DEF PodTypeOK, TypeOK, workerVars, dishaVars, history
<1>1. CASE UNCHANGED <<workerVars, safeToEvict, run, enqueuing, reservePC, history>>
  BY <1>1 DEF CallInv, InCall
<1>2. ASSUME NEW state \in {"down", "deleted"}, Dies(state) PROVE CallInv'
  BY <1>2, DiesClears
<1>3. CASE Serve
  <2>1. CASE markReserved \/ pinReserved \/ EnqueueWorkerCleanup
    <3>1. UNCHANGED <<active, activeConv, task, sessions, run>>
      BY <2>1 DEF markReserved, pinReserved, EnqueueWorkerCleanup
    <3> QED
      BY <3>1 DEF CallInv, InCall
  <2>2. ASSUME NEW c \in Conv, CreateWorkerRoom(c) PROVE CallInv'
    <3>1. CASE active
      <4>1. UNCHANGED <<active, activeConv, task, sessions, run>>
        BY <2>2, <3>1 DEF CreateWorkerRoom
      <4> QED
        BY <4>1 DEF CallInv, InCall
    <3>2. CASE ~active
      <4>1. \A d \in Conv : ~InCall(d)
        BY <3>2 DEF CallInv
      <4>2. /\ active' /\ activeConv' = c /\ UNCHANGED <<task, sessions>>
            /\ run' = [run EXCEPT ![c] = "pin"]
        BY <2>2, <3>2 DEF CreateWorkerRoom
      <4> QED
        BY <4>1, <4>2 DEF CallInv, InCall
    <3> QED
      BY <3>1, <3>2
  <2>3. ASSUME NEW c \in Conv, Run(c) PROVE CallInv'
    <3>0. InCall(c)
      BY <2>3 DEF Run, pinPodAgainstEviction, prepareTask, prepareTaskFails,
                  setTask, unregisterTask, unpinPodAfterCall, finish, InCall
    <3>1. \A d \in Conv : d # c => run[d] = "none" /\ d \notin sessions /\ task # d
      BY <3>0, OnlyCall DEF CallInv, InCall
    <3>2. active /\ activeConv = c
      BY <3>0 DEF CallInv
    <3> USE DEF CallInv, InCall
    <3>3. CASE pinPodAgainstEviction(c) \/ prepareTaskFails(c) \/ unpinPodAfterCall(c)
      <4>1. /\ UNCHANGED <<active, activeConv, task, sessions>>
            /\ \/ run[c] = "pin" /\ run' = [run EXCEPT ![c] = "prepare"]
               \/ run[c] = "prepare" /\ run' = [run EXCEPT ![c] = "unpin"]
               \/ run[c] = "unpin" /\ run' = [run EXCEPT ![c] = "finish"]
        BY <3>3 DEF pinPodAgainstEviction, prepareTaskFails, unpinPodAfterCall
      <4> QED
        BY <3>1, <3>2, <4>1
    <3>4. CASE prepareTask(c)
      BY <3>1, <3>2, <3>4 DEF prepareTask
    <3>5. CASE setTask(c)
      BY <3>1, <3>2, <3>5 DEF setTask
    <3>6. CASE unregisterTask(c)
      BY <3>1, <3>2, <3>6 DEF unregisterTask
    <3>7. CASE finish(c)
      <4>1. \A d \in Conv : run'[d] = "none" /\ d \notin sessions /\ task' # d
        BY <3>1, <3>7 DEF finish
      <4> QED
        BY <3>7, <4>1 DEF finish
    <3> QED
      BY <2>3, <3>3, <3>4, <3>5, <3>6, <3>7 DEF Run
  <2> QED
    BY <1>3, <2>1, <2>2, <2>3 DEF Serve
<1> QED
  BY <1>1, <1>2, <1>3, WorkerSteps

\* CallInv holds from the start.
LEMMA CallInit == PodInit => CallInv
BY DEF PodInit, Init, CallInv, InCall

\* Two bots never run on one worker, and claim, registry and stored task name
\* the same call (workerRuntime.claim, runWorkerRoom, finish).
THEOREM Exclusion == PodSpec => []OneCall
<1>1. CallInv => OneCall
  BY DEF CallInv, OneCall, InCall
<1> QED
  BY <1>1, TypeInit, TypeNext, CallInit, CallNext, PTL DEF PodSpec

\* No step unpins the pod under a call: the only unpin is that of the call
\* itself.
LEMMA PinnedNext ==
    /\ PodTypeOK /\ CallInv /\ PinnedDuringCall /\ [PodNext]_allVars
    => PinnedDuringCall'
<1> SUFFICES ASSUME PodTypeOK, CallInv, PinnedDuringCall, [PodNext]_allVars,
                    ~failed', NEW d \in Conv,
                    run'[d] \in {"prepare", "setTask", "running"}
             PROVE  ~safeToEvict'
  BY DEF PinnedDuringCall
<1> USE DEF PodTypeOK, TypeOK, workerVars, dishaVars, history
<1>1. CASE UNCHANGED <<workerVars, safeToEvict, run, enqueuing, reservePC, history>>
  BY <1>1 DEF PinnedDuringCall
<1>2. ASSUME NEW state \in {"down", "deleted"}, Dies(state) PROVE FALSE
  BY <1>2 DEF Dies
<1>3. CASE Serve
  <2>1. CASE markReserved \/ EnqueueWorkerCleanup
    <3>1. UNCHANGED <<safeToEvict, run>> /\ (failed => failed')
      BY <2>1, Zenon DEF markReserved, EnqueueWorkerCleanup
    <3> QED
      BY <3>1 DEF PinnedDuringCall
  <2>2. CASE pinReserved
    BY <2>2, Zenon DEF pinReserved, SetSafeToEvict
  <2>3. ASSUME NEW c \in Conv, CreateWorkerRoom(c) PROVE ~safeToEvict'
    <3>1. UNCHANGED <<safeToEvict, failed>>
          /\ (run' = run \/ run' = [run EXCEPT ![c] = "pin"])
      BY <2>3, Zenon DEF CreateWorkerRoom
    <3> QED
      BY <3>1 DEF PinnedDuringCall
  <2>4. ASSUME NEW c \in Conv, pinPodAgainstEviction(c) PROVE ~safeToEvict'
    BY <2>4, Zenon DEF pinPodAgainstEviction, SetSafeToEvict
  <2>5. ASSUME NEW c \in Conv, unpinPodAfterCall(c) PROVE FALSE
    <3>1. InCall(c) /\ run[c] = "unpin" /\ run' = [run EXCEPT ![c] = "finish"]
      BY <2>5 DEF unpinPodAfterCall, InCall
    <3>2. d # c => InCall(d)
      BY <3>1 DEF InCall
    <3> QED
      BY <3>1, <3>2, OnlyCall
  <2>6. ASSUME NEW c \in Conv,
               \/ prepareTask(c) \/ prepareTaskFails(c) \/ setTask(c)
               \/ unregisterTask(c) \/ finish(c)
        PROVE  ~safeToEvict'
    <3>1. UNCHANGED <<safeToEvict, failed>>
      BY <2>6 DEF prepareTask, prepareTaskFails, setTask, unregisterTask, finish
    <3>2. run[d] \in {"prepare", "setTask", "running"}
      BY <2>6 DEF prepareTask, prepareTaskFails, setTask, unregisterTask, finish
    <3> QED
      BY <3>1, <3>2 DEF PinnedDuringCall
  <2> QED
    BY <1>3, <2>1, <2>2, <2>3, <2>4, <2>5, <2>6 DEF Serve, Run
<1> QED
  BY <1>1, <1>2, <1>3, WorkerSteps

\* While a bot runs a call the autoscaler may not evict its pod, unless a
\* Kubernetes patch failed: a call's unpin cannot undo the next call's pin.
THEOREM Pinning == PodSpec => []PinnedDuringCall
<1>1. PodInit => PinnedDuringCall
  BY DEF PodInit, Init, PinnedDuringCall
<1> QED
  BY <1>1, TypeInit, TypeNext, CallInit, CallNext, PinnedNext, PTL DEF PodSpec

----------------------------------------------------------------------------
(* Reservations.                                                           *)

\* First requests on the network: those of the conversation Disha reserved for.
Pending == {c \in inTransit : sends[c] = 1}

NoCall == \A c \in Conv : run[c] = "none"

Idle == NoCall /\ enqueuing = 0 /\ jobs = 0

\* Disha's view of the machine and what is under way agree: a machine that is
\* not busy has no request, call or cleanup under way, a busy one at most one.
HandoverInv ==
    /\ \A c \in inTransit : sends[c] # 0
    /\ db # "busy" => Pending = {} /\ Idle
    /\ \A c, d \in Pending : c = d
    /\ Pending # {} => Idle
    /\ ~NoCall => enqueuing = 0 /\ jobs = 0
    /\ enqueuing + jobs <= 1
    /\ reservePC = "pin" => db = "reserving" /\ reserved /\ proc = "serving"
    /\ ReservedPinned

\* The faults under which Disha and the worker may disagree.
Undisturbed == Alive /\ ~late /\ crashes = 0 /\ ~failed

ReservationInv ==
    /\ proc = "down" => crashes > 0
    /\ Undisturbed => HandoverInv

\* A fault, once it happened, stays.
LEMMA UndisturbedBefore ==
    ASSUME PodTypeOK, ReservationInv, [PodNext]_allVars, Undisturbed'
    PROVE  Undisturbed /\ crashes' = 0 /\ crashes = 0
<1> USE DEF PodTypeOK, TypeOK, Undisturbed, Alive
<1>1. CASE Serve
  <2>1. UNCHANGED podVars /\ (failed => failed') /\ (late => late')
    BY <1>1, Zenon DEF Serve, markReserved, pinReserved, EnqueueWorkerCleanup,
       CreateWorkerRoom, Run, pinPodAgainstEviction, prepareTask,
       prepareTaskFails, setTask, unregisterTask, unpinPodAfterCall, finish,
       SetSafeToEvict, history
  <2> QED
    BY <2>1 DEF podVars, bootVars
<1>2. CASE Backend \/ RequestRefused
  <2>1. UNCHANGED <<podVars, failed, late>>
    BY <1>2 DEF Backend, RequestRefused, CleanupState, DishaReserve,
                DishaForward, Resend, history
  <2> QED
    BY <2>1 DEF podVars, bootVars
<1>3. CASE Crash \/ RegisterFails \/ DeletePod
  BY <1>3 DEF Crash, RegisterFails, DeletePod, Dies
<1>4. CASE Restart
  BY <1>4 DEF Restart, ReservationInv
<1>5. CASE \/ RegisterWorkerPod \/ Sigterm \/ EnqueueWorkerGracefulShutdown
           \/ FifoJob \/ UNCHANGED allVars
  <2>1. UNCHANGED vars /\ crashes' = crashes
    BY <1>5 DEF RegisterWorkerPod, RegisterLookup, RegisterEnqueue,
                RegisterSetKey, Sigterm, EnqueueWorkerGracefulShutdown,
                SigtermSetKey, SigtermEnqueue, FifoJob, bootVars, allVars, podVars
  <2>2. proc' = proc \/ proc \in {"lookup", "enqueue", "setKey"}
    BY <1>5 DEF RegisterWorkerPod, RegisterLookup, RegisterEnqueue,
                RegisterSetKey, Sigterm, EnqueueWorkerGracefulShutdown,
                SigtermSetKey, SigtermEnqueue, FifoJob, bootVars, allVars, podVars
  <2> QED
    BY <2>1, <2>2 DEF vars, history
<1> QED
  BY <1>1, <1>2, <1>3, <1>4, <1>5 DEF PodNext

\* A step that only takes requests off the network keeps the agreement.
LEMMA HandoverKept ==
    ASSUME HandoverInv, Pending' \subseteq Pending,
           \A c \in inTransit' : sends'[c] # 0,
           UNCHANGED <<reserved, safeToEvict, run, enqueuing, reservePC, jobs,
                       failed>>,
           proc = "serving" => proc' = "serving",
           db' = db \/ (db = "reserving" /\ db' = "free" /\ reservePC # "pin")
    PROVE  HandoverInv'
<1>1. (Idle' <=> Idle) /\ (NoCall' <=> NoCall)
  BY DEF Idle, NoCall
<1>2. /\ db' # "busy" => Pending' = {} /\ Idle'
      /\ \A c, d \in Pending' : c = d
      /\ Pending' # {} => Idle'
      /\ ~NoCall' => enqueuing' = 0 /\ jobs' = 0
  BY <1>1 DEF HandoverInv
<1>3. enqueuing' + jobs' <= 1
  BY DEF HandoverInv
<1>4. (reservePC = "pin" => db = "reserving" /\ reserved /\ proc = "serving")'
  BY DEF HandoverInv
<1>5. ReservedPinned'
  <2>1. CASE db' = db /\ failed' = failed
    BY <2>1 DEF HandoverInv, ReservedPinned
  <2>2. CASE db' = "free"
    BY <2>2 DEF ReservedPinned
  <2> QED
    BY <2>1, <2>2
<1> QED
  BY <1>2, <1>3, <1>4, <1>5 DEF HandoverInv

\* Without faults, every step of Disha and of the worker hands the machine over
\* in order.
LEMMA ReservationNext ==
    PodTypeOK /\ CallInv /\ ReservationInv /\ [PodNext]_allVars => ReservationInv'
<1> SUFFICES ASSUME PodTypeOK, CallInv, ReservationInv, [PodNext]_allVars
             PROVE  ReservationInv'
  OBVIOUS
<1> USE DEF PodTypeOK, TypeOK
<1>1. proc' = "down" => crashes' > 0
  <2>1. CASE proc' = proc /\ crashes' = crashes
    BY <2>1 DEF ReservationInv
  <2>2. CASE Crash \/ RegisterFails
    BY <2>2 DEF Crash, RegisterFails
  <2>3. CASE DeletePod \/ Restart \/ RegisterWorkerPod
    BY <2>3 DEF DeletePod, Dies, Restart, RegisterWorkerPod, RegisterLookup,
                RegisterEnqueue, RegisterSetKey
  <2> QED
    BY <2>1, <2>2, <2>3 DEF PodNext, Serve, Backend, RequestRefused, Sigterm,
       EnqueueWorkerGracefulShutdown, SigtermSetKey, SigtermEnqueue, FifoJob,
       allVars, podVars, bootVars
<1> SUFFICES ASSUME Undisturbed' PROVE HandoverInv'
  BY <1>1 DEF ReservationInv
<1>2. HandoverInv /\ Undisturbed /\ crashes = 0 /\ crashes' = 0
  BY UndisturbedBefore DEF ReservationInv
<1> USE DEF HandoverInv, Idle, NoCall, ReservedPinned
<1>3. CASE UNCHANGED vars /\ (proc = "serving" => proc' = "serving")
  BY <1>2, <1>3 DEF vars, workerVars, dishaVars, history, Pending
<1>4. CASE Serve
  <2> USE DEF workerVars, dishaVars, history
  <2>0. proc' = "serving" /\ proc = "serving"
    BY <1>4 DEF Serve, podVars, bootVars
  <2>1. CASE markReserved
    BY <1>2, <2>0, <2>1 DEF markReserved, Pending
  <2>2. CASE pinReserved
    <3>1. ~safeToEvict'
      BY <2>2, Zenon DEF pinReserved, SetSafeToEvict, Undisturbed
    <3>2. db' = "reserved" /\ db = "reserving" /\ reserved
      BY <1>2, <2>2 DEF pinReserved
    <3> QED
      BY <1>2, <2>2, <3>1, <3>2 DEF pinReserved, Pending
  <2>3. CASE EnqueueWorkerCleanup
    <3>1. jobs' = jobs + 1 /\ enqueuing' = enqueuing - 1 /\ enqueuing > 0
      BY <2>3, Zenon DEF EnqueueWorkerCleanup, Undisturbed
    <3>2. UNCHANGED <<workerVars, safeToEvict, run, reservePC, sends, inTransit, db>>
      BY <2>3 DEF EnqueueWorkerCleanup
    <3> QED
      BY <1>2, <2>0, <3>1, <3>2 DEF Pending
  <2>4. ASSUME NEW c \in Conv, CreateWorkerRoom(c) PROVE HandoverInv'
    <3>0. /\ inTransit' = inTransit \ {c} /\ c \in inTransit
          /\ UNCHANGED <<reserved, safeToEvict, enqueuing, reservePC, sends, db, jobs,
                         failed>>
      BY <2>4 DEF CreateWorkerRoom
    <3>1. Pending' \subseteq Pending /\ \A d \in inTransit' : sends'[d] # 0
      BY <1>2, <3>0 DEF Pending
    <3>2. CASE active
      <4>1. run' = run
        BY <2>4, <3>2 DEF CreateWorkerRoom
      <4> QED
        BY <1>2, <2>0, <3>0, <3>1, <4>1, HandoverKept
    <3>3. CASE ~active
      <4>1. sends[c] <= 1
        <5>1. ~(sends[c] > 1 /\ ~(active /\ activeConv = c))
          BY <2>4, Zenon DEF CreateWorkerRoom, Undisturbed
        <5> QED
          BY <3>3, <5>1
      <4>2. c \in Pending
        <5>1. sends[c] # 0
          BY <1>2, <3>0
        <5> QED
          BY <3>0, <4>1, <5>1 DEF Pending
      <4>3. db = "busy" /\ Idle
        BY <1>2, <4>2
      <4>4. Pending' = {}
        <5>1. c \notin Pending'
          BY <3>0 DEF Pending
        <5> QED
          BY <1>2, <3>1, <4>2, <5>1
      <4> QED
        BY <1>2, <2>0, <3>0, <3>1, <4>3, <4>4
    <3> QED
      BY <3>2, <3>3
  <2>5. ASSUME NEW c \in Conv, Run(c) PROVE HandoverInv'
    <3>0. InCall(c)
      BY <2>5 DEF Run, pinPodAgainstEviction, prepareTask, prepareTaskFails,
                  setTask, unregisterTask, unpinPodAfterCall, finish, InCall
    <3>1. ~NoCall /\ db = "busy" /\ Pending = {} /\ enqueuing = 0 /\ jobs = 0
      BY <1>2, <3>0 DEF InCall
    <3>2. UNCHANGED <<sends, inTransit, db, jobs, reservePC>>
      BY <2>5 DEF Run, pinPodAgainstEviction, prepareTask, prepareTaskFails,
                  setTask, unregisterTask, unpinPodAfterCall, finish
    <3>3. CASE finish(c)
      <4>1. enqueuing' = 1
        BY <3>1, <3>3 DEF finish
      <4>2. \A d \in Conv : d # c => run[d] = "none"
        BY <3>0, OnlyCall DEF InCall
      <4>3. NoCall'
        BY <3>3, <4>2 DEF finish
      <4> QED
        BY <1>2, <2>0, <3>1, <3>2, <4>1, <4>3 DEF Pending
    <3>4. CASE ~finish(c)
      <4>1. enqueuing' = enqueuing
        BY <2>5, <3>4 DEF Run, pinPodAgainstEviction, prepareTask,
           prepareTaskFails, setTask, unregisterTask, unpinPodAfterCall
      <4> QED
        BY <1>2, <2>0, <3>1, <3>2, <4>1 DEF Pending
    <3> QED
      BY <3>3, <3>4
  <2> QED
    BY <1>4, <2>1, <2>2, <2>3, <2>4, <2>5 DEF Serve
<1>5. CASE Backend
  <2> USE DEF workerVars, dishaVars, history
  <2>0. proc' = proc
    BY <1>5 DEF Backend, podVars, bootVars
  <2>1. CASE CleanupState
    <3>1. /\ jobs > 0 /\ jobs' = jobs - 1 /\ db' = "free"
          /\ UNCHANGED <<workerVars, safeToEvict, run, enqueuing, reservePC, sends,
                         inTransit>>
      BY <2>1 DEF CleanupState
    <3>2. db = "busy" /\ NoCall /\ Pending = {} /\ jobs = 1 /\ enqueuing = 0
      BY <1>2, <3>1
    <3> QED
      BY <1>2, <2>0, <3>1, <3>2 DEF Pending
  <2>2. CASE DishaReserve
    BY <1>2, <2>0, <2>2 DEF DishaReserve, Pending
  <2>3. ASSUME NEW c \in Conv, DishaForward(c) PROVE HandoverInv'
    <3>1. /\ db = "reserved" /\ db' = "busy"
          /\ sends' = [sends EXCEPT ![c] = 1] /\ inTransit' = inTransit \cup {c}
          /\ UNCHANGED <<workerVars, safeToEvict, run, enqueuing, reservePC, jobs>>
      BY <2>3 DEF DishaForward
    <3>2. Idle /\ Pending = {} /\ reservePC # "pin"
      BY <1>2, <3>1
    <3>3. Pending' = {c} /\ \A d \in inTransit' : sends'[d] # 0
      BY <1>2, <3>1, <3>2 DEF Pending
    <3> QED
      BY <1>2, <2>0, <3>1, <3>2, <3>3
  <2>4. ASSUME NEW c \in Conv, Resend(c) PROVE HandoverInv'
    <3>1. /\ sends' = [sends EXCEPT ![c] = @ + 1] /\ inTransit' = inTransit \cup {c}
          /\ sends[c] >= 1
          /\ UNCHANGED <<workerVars, safeToEvict, run, enqueuing, reservePC, db, jobs,
                         failed>>
      BY <2>4 DEF Resend
    <3>2. Pending' \subseteq Pending /\ \A d \in inTransit' : sends'[d] # 0
      BY <1>2, <3>1 DEF Pending
    <3> QED
      BY <1>2, <2>0, <3>1, <3>2, HandoverKept
  <2> QED
    BY <1>5, <2>1, <2>2, <2>3, <2>4 DEF Backend
<1>6. CASE RequestRefused
  <2>1. /\ UNCHANGED <<workerVars, safeToEvict, run, enqueuing, reservePC, sends, jobs,
                       failed>>
        /\ \/ inTransit' = {} /\ db' = db
           \/ db = "reserving" /\ db' = "free" /\ inTransit' = inTransit
        /\ proc # "serving"
    BY <1>6 DEF RequestRefused, history
  <2>2. Pending' \subseteq Pending /\ \A d \in inTransit' : sends'[d] # 0
    BY <1>2, <2>1 DEF Pending
  <2> QED
    BY <1>2, <2>1, <2>2, HandoverKept DEF workerVars
<1>7. CASE Crash \/ RegisterFails \/ DeletePod
  BY <1>2, <1>7 DEF Crash, RegisterFails, DeletePod, Dies, Undisturbed, Alive
<1>8. CASE \/ Restart \/ RegisterWorkerPod \/ Sigterm
           \/ EnqueueWorkerGracefulShutdown \/ FifoJob \/ UNCHANGED allVars
  <2>1. UNCHANGED vars /\ (proc = "serving" => proc' = "serving")
    BY <1>8 DEF Restart, RegisterWorkerPod, RegisterLookup, RegisterEnqueue,
                RegisterSetKey, Sigterm, EnqueueWorkerGracefulShutdown,
                SigtermSetKey, SigtermEnqueue, FifoJob, bootVars, allVars, podVars
  <2> QED
    BY <1>3, <2>1
<1> QED
  BY <1>4, <1>5, <1>6, <1>7, <1>8 DEF PodNext

\* A worker Disha has reserved stays pinned and marked reserved, as long as no
\* patch failed, no re-sent request outlived its call and the process lives.
THEOREM Reservation == PodSpec => []ReservedStaysPinned
<1>1. PodInit => ReservationInv
  BY DEF PodInit, Init, ReservationInv, HandoverInv, Pending, Idle, NoCall,
         ReservedPinned
<1>2. PodTypeOK /\ ReservationInv => ReservedStaysPinned
  BY DEF ReservationInv, Undisturbed, HandoverInv, ReservedStaysPinned,
         ReservedPinned
<1> QED
  BY <1>1, <1>2, TypeInit, TypeNext, CallInit, CallNext, ReservationNext, PTL
     DEF PodSpec
=============================================================================
