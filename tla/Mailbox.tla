------------------------------ MODULE Mailbox ------------------------------
(***************************************************************************)
(* What a processor promises those who send it data frames, whatever       *)
(* goroutines, channels and interrupts it is made of: each frame is        *)
(* handled at most once, in the order of arrival, and none is lost but to  *)
(* an interrupt, which removes the interruptible ones within its reach and *)
(* no others, or to the end of the processor.                              *)
(***************************************************************************)
EXTENDS Naturals, SequencesExt

CONSTANTS
    Message,   \* data frames
    Durable    \* those that survive interrupts

VARIABLES
    accepted,     \* messages ever accepted
    waiting,      \* accepted messages an interrupt does not reach, in order
    admitted,     \* those it does reach, in order
    handled,      \* messages whose handler was started
    interrupted,  \* an interrupt is being handled
    closed        \* the processor is cancelled

vars == <<accepted, waiting, admitted, handled, interrupted, closed>>

Init ==
    /\ accepted = {} /\ waiting = <<>> /\ admitted = <<>> /\ handled = {}
    /\ interrupted = FALSE /\ closed = FALSE

Accept ==
    /\ \E m \in Message \ accepted :
          accepted' = accepted \cup {m} /\ waiting' = Append(waiting, m)
    /\ UNCHANGED <<admitted, handled, interrupted, closed>>

Admit ==
    /\ waiting # <<>> /\ ~interrupted
    /\ admitted' = Append(admitted, Head(waiting))
    /\ waiting' = Tail(waiting)
    /\ UNCHANGED <<accepted, handled, interrupted, closed>>

Handle ==
    /\ admitted # <<>>
    /\ handled' = handled \cup {Head(admitted)}
    /\ admitted' = Tail(admitted)
    /\ UNCHANGED <<accepted, waiting, interrupted, closed>>

Interrupt ==
    /\ ~interrupted
    /\ interrupted' = TRUE
    /\ UNCHANGED <<accepted, waiting, admitted, handled, closed>>

Purge ==
    /\ interrupted
    /\ \E n \in DOMAIN admitted :
          admitted[n] \notin Durable /\ admitted' = RemoveAt(admitted, n)
    /\ UNCHANGED <<accepted, waiting, handled, interrupted, closed>>

Resume ==
    /\ interrupted /\ \A n \in DOMAIN admitted : admitted[n] \in Durable
    /\ interrupted' = FALSE
    /\ UNCHANGED <<accepted, waiting, admitted, handled, closed>>

Close ==
    /\ closed' = TRUE
    /\ UNCHANGED <<accepted, waiting, admitted, handled, interrupted>>

\* A closed mailbox may drop the next message and the last ones.
Drop ==
    /\ closed
    /\ \/ waiting # <<>> /\ waiting' = Tail(waiting) /\ UNCHANGED admitted
       \/ \E n \in 0..Len(admitted) :
             admitted' = SubSeq(admitted, 1, n) /\ UNCHANGED waiting
    /\ UNCHANGED <<accepted, handled, interrupted, closed>>

Next == Accept \/ Admit \/ Handle \/ Interrupt \/ Purge \/ Resume \/ Close \/ Drop

Spec == Init /\ [][Next]_vars
=============================================================================
