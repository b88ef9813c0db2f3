----------------------------- MODULE PktReceiver -----------------------------
(***************************************************************************)
(* The packet receiver (pkt_receiver.sv): it tells peripheral from         *)
(* configuration packets, writes the register bank or replies with a       *)
(* counter, and feeds two of the counters.                                 *)
(*                                                                         *)
(* The packet switch is in a submodule: it is modelled as a register for   *)
(* one packet, which takes the next one when its own packet leaves.        *)
(***************************************************************************)
EXTENDS HsslRegBank

(* A packet: whether there is one, whether it is for the configuration and  *)
(* has a payload, the register its key names and the payload.              *)
Idle == [vld |-> FALSE, cfg |-> FALSE, pld |-> FALSE, addr |-> 0, data |-> 0]

VARIABLES
    pkt,        \* input wires: the packet of the link,
    dcp_rdy,    \* the ready of the reply channel
    per_rdy,    \* and of the event dispatcher
    swi         \* the packet in the switch

receiverVars == <<pkt, dcp_rdy, per_rdy, swi>>

---------------------------------------------------------------------------
(* Wires *)

cfg_vld == swi.vld /\ swi.cfg
per_vld == swi.vld /\ ~ swi.cfg

CfgRdyAlways == cfg_vld
cfg_rdy      == cfg_vld /\ (swi.pld \/ dcp_rdy)

swi_rdy     == IF swi.cfg THEN cfg_rdy ELSE per_rdy
pkt_rdy_out == ~ swi.vld \/ swi_rdy

Accepted == pkt.vld /\ pkt_rdy_out

(* The packet port of the register bank *)
Prx == [en |-> cfg_vld /\ swi.pld, addr |-> swi.addr, data |-> swi.data]

(* The reply: its key is the or of the reply key and the address, which    *)
(* the low eight bits of the reply key leave room for.                     *)
REPLY_KEY == 2
dcp_vld == cfg_vld /\ ~ swi.pld
ctr_ok  == swi.addr \in CtrAddrs
Reply   ==
    [key |-> bank[REPLY_KEY], off |-> swi.addr,
     pld |-> IF ctr_ok THEN ctr[swi.addr - CtrAddr(0)] ELSE BadReg]

(* dvs_on_hssl_top.sv:447: counter 4 counts configuration packets, counter *)
(* 1 peripheral ones; the others are fed by other components.              *)
CountedHere == {i \in {1, 4} : Accepted /\ pkt.cfg = (i = 4)}

---------------------------------------------------------------------------
Switch == swi' = IF pkt_rdy_out THEN pkt ELSE swi

(* The link holds what it offers until it is accepted.  A ready that no    *)
(* packet waits for makes no difference, and is low.                       *)
ReceiverClock ==
    /\ Switch
    /\ dcp_rdy' \in BOOLEAN /\ (dcp_rdy' => dcp_vld')
    /\ per_rdy' \in BOOLEAN /\ (per_rdy' => per_vld')
    /\ pkt.vld /\ ~ pkt_rdy_out => UNCHANGED pkt

ReceiverReset ==
    /\ swi' = Idle /\ pkt' = Idle
    /\ UNCHANGED <<dcp_rdy, per_rdy>>

ReceiverInit == pkt = Idle /\ swi = Idle /\ dcp_rdy = FALSE /\ per_rdy = FALSE

=============================================================================
