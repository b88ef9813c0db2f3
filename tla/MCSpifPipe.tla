----------------------------- MODULE MCSpifPipe -----------------------------
(* SpifPipe with two clients that contend for the pipe. *)
EXTENDS SpifPipe

CONSTANTS c1, c2

============================================================================
