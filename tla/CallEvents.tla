----------------------------- MODULE CallEvents -----------------------------
(***************************************************************************)
(* The dispatcher of call-event callbacks (voicepipelinecore/call_events.go*)
(* callEventDispatcher).  Processor and transport goroutines fire events;  *)
(* one goroutine runs the callbacks in order; stopAndDrain closes the      *)
(* queue and waits until the callbacks already accepted have run.          *)
(*                                                                         *)
(* An event is an element of Event: one of the five one-shot events (bot   *)
(* joined, user joined, user first speech, bot first speech, first user    *)
(* audio), each behind a sync.Once and possibly fired by several           *)
(* goroutines, or one committed turn or tool result.                       *)
(***************************************************************************)
EXTENDS Naturals, Sequences, FiniteSets

CONSTANTS
    Event,
    Producer,     \* goroutines that fire events
    EventCap,     \* callEventQueueSize (512)
    NoOne, NoEvent

ASSUME EventAssumption ==
    /\ EventCap \in Nat \ {0}
    /\ NoOne \notin Producer
    /\ NoEvent \notin Event

VARIABLES
    mu,         \* holder of the mutex
    firing,     \* firing[p]: the event producer p holds the mutex for
    fired,      \* events that were fired; a one-shot event's Once is then spent
    evQueue,    \* the channel
    closing,    \* l.closing, set together with close(queue)
    running,    \* the event whose callback is executing
    evDone,     \* close(done): run() returned
    accepted,   \* history: events that entered the queue, in order
    ran         \* history: callbacks that were started, in order

evVars == <<mu, firing, fired, evQueue, closing, running, evDone,
            accepted, ran>>

EvTypeOK ==
    /\ mu \in Producer \cup {NoOne}
    /\ firing \in [Producer -> Event \cup {NoEvent}]
    /\ fired \subseteq Event
    /\ evQueue \in Seq(Event)
    /\ closing \in BOOLEAN
    /\ running \in Event \cup {NoEvent}
    /\ evDone \in BOOLEAN
    /\ accepted \in Seq(Event) /\ ran \in Seq(Event)

EvInit ==
    /\ mu = NoOne
    /\ firing = [p \in Producer |-> NoEvent]
    /\ fired = {}
    /\ evQueue = <<>>
    /\ closing = FALSE
    /\ running = NoEvent
    /\ evDone = FALSE
    /\ accepted = <<>> /\ ran = <<>>

\* fireX: the once guard (a turn event exists once, so it is fired once), then
\* dispatch takes the mutex and reads closing.
Fire(p, e) ==
    /\ firing[p] = NoEvent
    /\ e \notin fired
    /\ mu = NoOne
    /\ fired' = fired \cup {e}
    /\ IF closing THEN UNCHANGED <<mu, firing>>
       ELSE mu' = p /\ firing' = [firing EXCEPT ![p] = e]
    /\ UNCHANGED <<evQueue, closing, running, evDone, accepted, ran>>

\* Mutant: a full queue loses its oldest event instead of the new one.
DispatchDropsOldest(p) ==
    /\ firing[p] # NoEvent
    /\ evQueue' = IF Len(evQueue) < EventCap THEN Append(evQueue, firing[p])
                  ELSE Append(Tail(evQueue), firing[p])
    /\ accepted' = Append(accepted, firing[p])
    /\ mu' = NoOne
    /\ firing' = [firing EXCEPT ![p] = NoEvent]
    /\ UNCHANGED <<fired, closing, running, evDone, ran>>

\* The non-blocking send; a full queue drops the event.  Then unlock.
Dispatch(p) ==
    /\ firing[p] # NoEvent
    /\ IF Len(evQueue) < EventCap
       THEN /\ evQueue' = Append(evQueue, firing[p])
            /\ accepted' = Append(accepted, firing[p])
       ELSE UNCHANGED <<evQueue, accepted>>
    /\ mu' = NoOne
    /\ firing' = [firing EXCEPT ![p] = NoEvent]
    /\ UNCHANGED <<fired, closing, running, evDone, ran>>

\* run: the next callback starts; runSafely also returns if it panics.
RunCallback ==
    /\ running = NoEvent
    /\ evQueue # <<>>
    /\ running' = Head(evQueue)
    /\ ran' = Append(ran, Head(evQueue))
    /\ evQueue' = Tail(evQueue)
    /\ UNCHANGED <<mu, firing, fired, closing, evDone, accepted>>

CallbackReturns ==
    /\ running # NoEvent
    /\ running' = NoEvent
    /\ UNCHANGED <<mu, firing, fired, evQueue, closing, evDone, accepted,
                   ran>>

\* The range over the closed queue ends when it is empty.
RunExits ==
    /\ closing /\ evQueue = <<>> /\ running = NoEvent /\ ~evDone
    /\ evDone' = TRUE
    /\ UNCHANGED <<mu, firing, fired, evQueue, closing, running, accepted,
                   ran>>

\* Mutant: the queue is closed without taking the mutex.
StopWithoutMutex ==
    /\ ~closing
    /\ closing' = TRUE
    /\ UNCHANGED <<mu, firing, fired, evQueue, running, evDone, accepted,
                   ran>>

\* stopAndDrain up to the receive from done; stopOnce makes repeats no-ops.
StopQueue ==
    /\ mu = NoOne
    /\ ~closing
    /\ closing' = TRUE
    /\ UNCHANGED <<mu, firing, fired, evQueue, running, evDone, accepted,
                   ran>>

DispatcherStep == RunCallback \/ CallbackReturns \/ RunExits

----------------------------------------------------------------------------
(* Properties.                                                             *)

\* A send on the closed queue would panic and kill the process: a producer
\* that passed the closing check still finds the queue open when it sends.
NoSendOnClosed == \A p \in Producer : firing[p] # NoEvent => ~closing

\* Callbacks run in the order their events were accepted, none is skipped and
\* none runs twice: what ran is always a prefix of what was accepted.
CallbacksInOrder ==
    accepted = ran \o evQueue /\ Len(evQueue) <= EventCap
=============================================================================
