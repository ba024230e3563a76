------------------------------ MODULE LogStream ------------------------------
(***************************************************************************)
(* What the run log promises to the rest of microHiL, without threads or   *)
(* ring: samples are offered one by one and either enter a bounded buffer, *)
(* in order, or are lost because it is full; buffered samples are stored   *)
(* in that order until the sink fails and lost from then on; the verdict   *)
(* is "complete" only when no sample was lost and no sink call failed.     *)
(***************************************************************************)
EXTENDS Integers, Sequences

CONSTANT Depth   \* samples the buffer holds; the consumer may hold one more

VARIABLES offered, pending, stored, lost, failed, verdict

vars == <<offered, pending, stored, lost, failed, verdict>>

Init ==
    /\ offered = 0 /\ pending = <<>> /\ stored = <<>>
    /\ lost = 0 /\ failed = FALSE /\ verdict = "open"

\* The log could not be started: samples offered to it go nowhere.
Refuse ==
    /\ verdict = "open" /\ offered = 0
    /\ verdict' = "refused"
    /\ UNCHANGED <<offered, pending, stored, lost, failed>>

OfferIgnored ==
    /\ verdict = "refused"
    /\ offered' = offered + 1
    /\ UNCHANGED <<pending, stored, lost, failed, verdict>>

OfferAccepted ==
    /\ verdict = "open" /\ Len(pending) <= Depth
    /\ offered' = offered + 1
    /\ pending' = Append(pending, offered + 1)
    /\ UNCHANGED <<stored, lost, failed, verdict>>

OfferDropped ==
    /\ verdict = "open" /\ Len(pending) >= Depth
    /\ offered' = offered + 1 /\ lost' = lost + 1
    /\ UNCHANGED <<pending, stored, failed, verdict>>

Store ==
    /\ verdict = "open" /\ ~failed /\ pending # <<>>
    /\ stored' = Append(stored, Head(pending))
    /\ pending' = Tail(pending)
    /\ UNCHANGED <<offered, lost, failed, verdict>>

Discard ==
    /\ verdict = "open" /\ pending # <<>>
    /\ failed' = TRUE /\ lost' = lost + 1
    /\ pending' = Tail(pending)
    /\ UNCHANGED <<offered, stored, verdict>>

\* A sink call that carries no sample fails.
SinkFailure ==
    /\ verdict = "open"
    /\ failed' = TRUE
    /\ UNCHANGED <<offered, pending, stored, lost, verdict>>

Close ==
    /\ verdict = "open" /\ pending = <<>>
    /\ verdict' = IF lost = 0 /\ ~failed THEN "complete" ELSE "incomplete"
    /\ UNCHANGED <<offered, pending, stored, lost, failed>>

Next ==
    \/ Refuse \/ OfferIgnored \/ OfferAccepted \/ OfferDropped
    \/ Store \/ Discard \/ SinkFailure \/ Close

Spec == Init /\ [][Next]_vars
=============================================================================
