---------------------------- MODULE MCOutputPath ----------------------------
(* Requests for OutputPath: those of spif_output_client.c and some others. *)
EXTENDS OutputPath

MCRequests ==
    { <<"SET_LEN", "SET_TICK", "START">>, <<"STOP">>, <<>>,
      <<"SET_TICK">>, <<"START", "unknown", "STOP">> }

=============================================================================
