-------------------------- MODULE MCEvtDispatcher --------------------------
(* EvtDispatcher on one-bit words: one distiller that passes its key, and  *)
(* packets for it and for an index that names no distiller.                *)
EXTENDS EvtDispatcher

MCDistillers == {[i \in {0} |-> [key |-> {}, msk |-> {0}, sft |-> 0]]}
MCPackets    == [dis : {0, 1}, key : {{0}}]

============================================================================
