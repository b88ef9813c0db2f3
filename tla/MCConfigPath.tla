---------------------------- MODULE MCConfigPath -----------------------------
(* Two pipes with two mapper fields each and one routing entry of two, on  *)
(* two-bit words with one-bit routes and shifts.                           *)
EXTENDS ConfigPath

MCIfDefault  == [a \in IfRegs |-> IF a \in {2, 6} THEN 3 ELSE 0]
MCFieldMask  == [f \in 0 .. 1 |-> IF f = 0 THEN 3 ELSE 1]
MCFieldShift == [f \in 0 .. 1 |-> f]

(* The host sets the tick, and reads a routing key that the program sets. *)
MCApbRequests ==
    { [wr |-> TRUE,  addr |-> 5,  data |-> 1],
      [wr |-> FALSE, addr |-> 16, data |-> 0] }

=============================================================================
