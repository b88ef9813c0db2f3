----------------------------- MODULE MCSpiffer -----------------------------
(* Spiffer with cameras of one family, or of both. *)
EXTENDS Spiffer

AllCAER == [c \in Cameras |-> "CAER"]
AllMETA == [c \in Cameras |-> "META"]

============================================================================
