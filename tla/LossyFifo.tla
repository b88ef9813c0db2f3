------------------------------ MODULE LossyFifo ------------------------------
(***************************************************************************)
(* What the peripheral output promises: a two-place buffer of events that  *)
(* never refuses one, so that it may have to drop, in a clock cycle, one   *)
(* of the events it holds or is given: at most one, and only in a cycle in *)
(* which the consumer keeps an event waiting.  Whatever leaves it has come *)
(* in, it leaves once, and events leave in the order in which they came.   *)
(* Nothing but a reset, an input seen from outside, empties the buffer.    *)
(***************************************************************************)
EXTENDS Naturals, SequencesExt

CONSTANT Event

VARIABLES
    queue,    \* the events held, oldest first
    offer,    \* the event that arrives in this cycle: <<event>> or <<>>
    take,     \* the consumer takes the oldest event: there is one on the output
    reset     \* the reset is active: it was since the last clock edge

lossyVars == <<queue, offer, take, reset>>

LossyTypeOK ==
    /\ queue \in Seq(Event) /\ Len(queue) <= 2
    /\ offer \in {<<>>} \cup {<<e>> : e \in Event}
    /\ take \in BOOLEAN /\ (take => queue # <<>>)
    /\ reset \in BOOLEAN

LossyInit == LossyTypeOK /\ queue = <<>>

Remaining == IF take THEN Tail(queue) ELSE queue
Present   == Remaining \o offer

DropOne ==
    /\ queue # <<>> /\ ~ take
    /\ \E i \in DOMAIN Present : queue' = RemoveAt(Present, i)

LossyCycle ==
    /\ ~ reset'
    /\ queue' = Present \/ DropOne
    /\ LossyTypeOK'

LossyReset == reset' /\ queue' = <<>> /\ LossyTypeOK'

LossySpec == LossyInit /\ [][LossyCycle \/ LossyReset]_lossyVars

============================================================================
