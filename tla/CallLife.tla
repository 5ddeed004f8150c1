------------------------------ MODULE CallLife ------------------------------
(***************************************************************************)
(* What a PipelineTask promises its bot and its worker, whatever happens   *)
(* inside: the call has one end with one reason, that of a request that    *)
(* was accepted; callbacks run only before the end is reported; the worker *)
(* is handed back last, when nothing of the call is at work any more.      *)
(***************************************************************************)
EXTENDS Naturals, Sequences, FiniteSets

CONSTANTS Reason, Callback, NoReason

VARIABLES
    accepted,   \* reason of the accepted request to end the call
    announced,  \* reason the end of the pipeline has been told
    atWork,     \* some goroutine of the pipeline is at work
    called,     \* callbacks made
    reported,   \* reasons reported through OnCallEnded
    handedBack  \* OnCleanup was called

vars == <<accepted, announced, atWork, called, reported, handedBack>>

Init ==
    /\ accepted = NoReason /\ announced = NoReason
    /\ atWork = FALSE /\ called = {} /\ reported = <<>> /\ handedBack = FALSE

Accept ==
    /\ accepted = NoReason
    /\ \E r \in Reason : accepted' = r
    /\ UNCHANGED <<announced, atWork, called, reported, handedBack>>

Announce ==
    /\ accepted # NoReason /\ announced = NoReason
    /\ announced' = accepted
    /\ UNCHANGED <<accepted, atWork, called, reported, handedBack>>

Work ==
    /\ atWork' = ~atWork
    /\ reported = <<>>
    /\ UNCHANGED <<accepted, announced, called, reported, handedBack>>

Call ==
    /\ reported = <<>>
    /\ \E e \in Callback \ called : called' = called \cup {e}
    /\ UNCHANGED <<accepted, announced, atWork, reported, handedBack>>

Report ==
    /\ announced # NoReason /\ ~atWork /\ reported = <<>>
    /\ reported' = <<accepted>>
    /\ UNCHANGED <<accepted, announced, atWork, called, handedBack>>

HandBack ==
    /\ reported # <<>> /\ ~handedBack
    /\ handedBack' = TRUE
    /\ UNCHANGED <<accepted, announced, atWork, called, reported>>

Next == Accept \/ Announce \/ Work \/ Call \/ Report \/ HandBack

Spec == Init /\ [][Next]_vars
=============================================================================
