---------------------------- MODULE PktAssembler ----------------------------
(***************************************************************************)
(* One peripheral input pipe: the packet assembler (pkt_assembler.sv) with *)
(* the gating of its AXI stream by the link hand-shake (dvs_on_hssl_top.sv *)
(* lines 428-439).                                                         *)
(*                                                                         *)
(* An event accepted in a cycle goes to the output register, or is parked  *)
(* when the output is busy.  evt_rdy_out is a register, so the assembler   *)
(* learns one cycle late that its output is blocked: parking is what makes *)
(* up for that cycle.                                                      *)
(*                                                                         *)
(* A state is a clock cycle just before the rising edge: the registers and *)
(* the input wires that the edge samples.  The action Clock is the edge.   *)
(***************************************************************************)
EXTENDS EventMapper, Sequences

CONSTANTS
    Configs,     \* the pipe configurations that the register bank may hold
    Events       \* the event words that the peripheral may send

ASSUME InputsAssumption ==
    /\ Configs # {} /\ Configs \subseteq PipeConfig
    /\ Events # {} /\ Events \subseteq Word

VARIABLES
    evt_rdy_out,      \* registers of the assembler
    parked_int,
    parked_data_int,
    pkt_vld_out,
    pkt_key_out,      \* the key field of pkt_data_out
    cfg,              \* input wires: the filter and mapper registers,
    axi_evt_vld,      \* the AXI stream,
    axi_evt_data,
    handshake,        \* hi_handshake_complete_int,
    pkt_rdy_in,       \* the arbiter's or the router's ready
    reset             \* and hi_reset_int

registers == <<evt_rdy_out, parked_int, parked_data_int, pkt_vld_out, pkt_key_out>>
inputs    == <<cfg, axi_evt_vld, axi_evt_data, handshake, pkt_rdy_in>>
vars      == <<registers, inputs, reset>>

TypeOK ==
    /\ evt_rdy_out \in BOOLEAN
    /\ parked_int \in BOOLEAN
    /\ parked_data_int \in Word
    /\ pkt_vld_out \in BOOLEAN
    /\ pkt_key_out \in Word
    /\ cfg \in Configs
    /\ axi_evt_vld \in BOOLEAN
    /\ axi_evt_data \in Events
    /\ handshake \in BOOLEAN
    /\ pkt_rdy_in \in BOOLEAN
    /\ reset \in BOOLEAN

---------------------------------------------------------------------------
(* Wires *)

evt_vld_in == axi_evt_vld /\ handshake

AxiReadyUngated == evt_rdy_out
axi_evt_rdy     == evt_rdy_out \/ ~ handshake

evt_present_int ==
    evt_vld_in /\ Wanted(cfg, axi_evt_data) /\ evt_rdy_out

pkt_busy_int == pkt_vld_out /\ ~ pkt_rdy_in

parking == evt_present_int /\ pkt_busy_int

pkt_key_int == IF parked_int THEN parked_data_int ELSE MappedKey(cfg, axi_evt_data)

---------------------------------------------------------------------------
(* The next value of each register: one operator per always block *)

Parked == parking \/ (parked_int /\ ~ pkt_rdy_in)

ParkedData ==
    IF parking THEN MappedKey(cfg, axi_evt_data) ELSE parked_data_int

EvtReadyWhileParked == ~ (pkt_busy_int /\ evt_present_int)
EvtReady            == ~ (pkt_busy_int /\ (evt_present_int \/ parked_int))

PktKey ==
    IF ~ pkt_busy_int /\ (parked_int \/ evt_present_int) THEN pkt_key_int ELSE pkt_key_out

PktValid == parked_int \/ evt_present_int \/ pkt_busy_int

---------------------------------------------------------------------------
(* The environment may change every input in every cycle, except that an   *)
(* AXI stream holds what it offers until it is accepted.                   *)
Sample ==
    /\ cfg' \in Configs
    /\ axi_evt_vld' \in BOOLEAN
    /\ axi_evt_data' \in Events
    /\ axi_evt_vld /\ ~ axi_evt_rdy =>
          axi_evt_vld' /\ axi_evt_data' = axi_evt_data
    /\ handshake' \in BOOLEAN
    /\ pkt_rdy_in' \in BOOLEAN

(* A rising clock edge with reset low. *)
Clock ==
    /\ parked_int'      = Parked
    /\ parked_data_int' = ParkedData
    /\ evt_rdy_out'     = EvtReady
    /\ pkt_key_out'     = PktKey
    /\ pkt_vld_out'     = PktValid
    /\ reset' = FALSE
    /\ Sample

(* The asynchronous reset: the data registers keep their value. *)
Reset ==
    /\ parked_int'  = FALSE
    /\ evt_rdy_out' = FALSE
    /\ pkt_vld_out' = FALSE
    /\ UNCHANGED <<parked_data_int, pkt_key_out>>
    /\ reset' = TRUE
    /\ Sample

Init ==
    /\ TypeOK
    /\ reset
    /\ ~ parked_int /\ ~ evt_rdy_out /\ ~ pkt_vld_out

Next == Clock \/ Reset

Spec     == Init /\ [][Next]_vars
FairSpec == Spec /\ WF_vars(Clock)

---------------------------------------------------------------------------
(* The comments at pkt_assembler.sv:140 and 144: an event is never present *)
(* while another one is parked, because its data would be lost.  (Column   *)
(* 3'b11x of the table.)                                                   *)
NoDataLoss == ~ (parked_int /\ evt_present_int)

(* An event can only be parked behind a valid packet, and the assembler    *)
(* never says it is ready while it has something parked.  With NoDataLoss  *)
(* as a consequence, this is inductive.                                    *)
SkidInv ==
    /\ parked_int => pkt_vld_out
    /\ evt_rdy_out => ~ parked_int

(* The comment at pkt_assembler.sv:162: a valid packet that has not been   *)
(* taken stays on the output, unchanged, until it is (or until a reset).   *)
PktHeldWhileBusy ==
    [][pkt_busy_int /\ ~ reset' => pkt_vld_out' /\ UNCHANGED pkt_key_out]_vars

(* The keys held, oldest first. *)
Held ==
    IF ~ pkt_vld_out THEN <<>>
    ELSE IF parked_int THEN <<pkt_key_out, parked_data_int>> ELSE <<pkt_key_out>>

Fifo == INSTANCE EventFifo WITH
    Key   <- Word,
    Depth <- 2,
    queue <- Held,
    offer <- IF evt_vld_in /\ Wanted(cfg, axi_evt_data)
                THEN <<MappedKey(cfg, axi_evt_data)>> ELSE <<>>,
    ready <- evt_rdy_out,
    take  <- pkt_rdy_in,
    reset <- reset

(* The assembler is a two-place buffer of the keys of the wanted events:   *)
(* but for a reset of the link none is lost, and none is repeated or       *)
(* overtaken, whatever the configuration, the hand-shake and the consumer  *)
(* do.                                                                     *)
ImplementsFifo == Fifo!FifoSpec

(* dvs_on_hssl_top.sv:428, "avoid AXI deadlock": as long as resets cease   *)
(* and the consumer keeps taking packets whenever the link stays up, the   *)
(* AXI stream is never blocked for good.                                   *)
NoAxiDeadlock ==
    (<>[]~ reset /\ (<>[]handshake => []<>pkt_rdy_in)) => []<>axi_evt_rdy

============================================================================
