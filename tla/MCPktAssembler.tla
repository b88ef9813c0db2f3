--------------------------- MODULE MCPktAssembler ---------------------------
(* PktAssembler on two-bit words: a pipe that passes every event but 0 and *)
(* one whose limit also drops event {1}, so that a configuration write may *)
(* change the fate of an event that is already waiting.                    *)
EXTENDS PktAssembler

PassThrough ==
    [flVal |-> <<{}>>, flMsk |-> <<Bit>>, mpKey |-> {},
     mpMsk |-> <<Bit>>, mpSft |-> <<0>>, mpLmt |-> <<Bit>>]

Based == [PassThrough EXCEPT !.mpKey = {1}, !.mpLmt = <<{0}>>]

MCConfigs == {PassThrough, Based}
MCEvents  == {{}, {0}, {1}}

============================================================================
