------------------------------ MODULE EventFifo ------------------------------
(***************************************************************************)
(* What one peripheral input pipe promises the router: a first-in          *)
(* first-out buffer of at most Depth routing keys.  In a clock cycle the   *)
(* consumer may take the oldest key, and the key on offer is accepted      *)
(* exactly when the buffer says it is ready.  Nothing is lost, duplicated  *)
(* or overtaken, and the buffer never says ready without having room.      *)
(* Only a reset, which is seen from outside as the input it is, empties    *)
(* the buffer: in every other cycle each key held or accepted stays until  *)
(* the consumer takes it.                                                  *)
(***************************************************************************)
EXTENDS Naturals, Sequences

CONSTANTS Key, Depth

VARIABLES
    queue,    \* the keys held, oldest first
    offer,    \* the key on offer in this cycle: <<key>>, or <<>> for none
    ready,    \* the buffer accepts the offer of this cycle
    take,     \* the consumer takes the oldest key, if there is one
    reset     \* the reset is active: it was since the last clock edge

fifoVars == <<queue, offer, ready, take, reset>>

Offer == {<<>>} \cup {<<k>> : k \in Key}

FifoTypeOK ==
    /\ queue \in Seq(Key) /\ Len(queue) <= Depth
    /\ offer \in Offer
    /\ ready \in BOOLEAN
    /\ take \in BOOLEAN
    /\ reset \in BOOLEAN

FifoInit == FifoTypeOK /\ queue = <<>>

Remaining == IF take /\ queue # <<>> THEN Tail(queue) ELSE queue
Accepted  == IF ready THEN offer ELSE <<>>

FifoCycle ==
    /\ ~ reset'
    /\ queue' = Remaining \o Accepted
    /\ FifoTypeOK'

FifoReset ==
    /\ reset'
    /\ queue' = <<>>
    /\ FifoTypeOK'

FifoNext == FifoCycle \/ FifoReset

FifoSpec == FifoInit /\ [][FifoNext]_fifoVars

============================================================================
