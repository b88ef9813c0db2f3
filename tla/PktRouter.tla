------------------------------ MODULE PktRouter ------------------------------
(***************************************************************************)
(* The packet router (pkt_router.sv): a ternary routing table whose first  *)
(* hit tells the channel of a packet, and a counter that gives a packet    *)
(* whose channel is blocked a number of cycles before it is dropped.       *)
(*                                                                         *)
(* The packet switch is in a submodule: it is modelled as one register per *)
(* channel, which takes a packet when it is empty or being emptied.  A     *)
(* packet without a hit selects no channel, is consumed and counted as     *)
(* dropped (the note at line 193).                                         *)
(***************************************************************************)
EXTENDS Naturals

CONSTANTS
    Keys,         \* packet keys
    NumChans,     \* NUM_CHANS
    NumRt,        \* NUM_RTREGS
    Tables,       \* the contents that the routing registers may have
    Waits         \* and those of the drop wait register

Channels == 0 .. NumChans - 1
NoRoute  == NumChans          \* a miss

(* An entry is the set of keys that its key and mask match, with a route.  *)
Entry == [hits : SUBSET Keys, route : Channels]

ASSUME RouterAssumption ==
    /\ Keys # {} /\ NumChans \in Nat \ {0}
    /\ NumRt \in Nat
    /\ Tables \subseteq [1 .. NumRt -> Entry] /\ Tables # {}
    /\ Waits \subseteq Nat /\ Waits # {}

VARIABLES
    wait_cnt,     \* register of the router
    held,         \* registers of the switch: the channels with a packet,
    key_out,      \* and the keys of those packets
    table,        \* input wires: the routing registers,
    drop_wait_in, \* the drop wait register,
    pkt_vld,      \* the packet of the arbiter
    pkt_key,
    rdy,          \* the channels that take their packet
    reset,
    waited,       \* history: cycles that the packet on the input has waited
    granted       \* history: the drop wait when it began to wait

routerVars ==
    <<wait_cnt, held, key_out, table, drop_wait_in, pkt_vld, pkt_key, rdy, reset,
      waited, granted>>

RouterTypeOK ==
    /\ wait_cnt \in Nat
    /\ held \subseteq Channels
    /\ key_out \in [Channels -> Keys]
    /\ table \in Tables /\ drop_wait_in \in Waits
    /\ pkt_vld \in BOOLEAN /\ pkt_key \in Keys
    /\ rdy \subseteq Channels /\ reset \in BOOLEAN
    /\ waited \in Nat /\ granted \in Nat

---------------------------------------------------------------------------
(* Wires *)

Hits(key) == {i \in 1 .. NumRt : key \in table[i].hits}

(* The priority encoder: the hit with no hit before it. *)
Deciding(key) == {i \in Hits(key) : \A j \in 1 .. i - 1 : j \notin Hits(key)}

Route(key) ==
    IF Deciding(key) = {} THEN NoRoute ELSE table[CHOOSE i \in Deciding(key) : TRUE].route

blocked ==
    pkt_vld /\ Route(pkt_key) \in held \ rdy

DropLate == blocked /\ wait_cnt = 1
drop_pkt == blocked /\ wait_cnt = 0

pkt_in_rdy == ~ blocked \/ drop_pkt

Leaves  == pkt_vld /\ ~ blocked /\ Route(pkt_key) # NoRoute

---------------------------------------------------------------------------
(* The next value of each register *)

WaitCount ==
    IF wait_cnt = 0 \/ ~ blocked THEN drop_wait_in ELSE wait_cnt - 1

(* The registers of the switch *)
Held   == (held \ rdy) \cup (IF Leaves THEN {Route(pkt_key)} ELSE {})
KeyOut == IF Leaves THEN [key_out EXCEPT ![Route(pkt_key)] = pkt_key] ELSE key_out

(* The arbiter holds what it offers until it is accepted. *)
RouterSample ==
    /\ table' \in Tables /\ drop_wait_in' \in Waits
    /\ pkt_vld' \in BOOLEAN /\ pkt_key' \in Keys
    /\ pkt_vld /\ ~ pkt_in_rdy => pkt_vld' /\ pkt_key' = pkt_key
    /\ rdy' \in SUBSET Channels

(* A wait that is overdue is not counted further. *)
RememberWait ==
    /\ waited'  = IF ~ blocked \/ drop_pkt THEN 0
                  ELSE IF waited > granted THEN waited ELSE waited + 1
    /\ granted' = IF blocked /\ ~ drop_pkt THEN granted ELSE drop_wait_in

RouterClock ==
    /\ wait_cnt' = WaitCount
    /\ held' = Held /\ key_out' = KeyOut
    /\ reset' = FALSE
    /\ RouterSample /\ RememberWait

RouterReset ==
    /\ wait_cnt' = 0
    /\ held' = {} /\ UNCHANGED key_out
    /\ reset' = TRUE
    /\ waited' = 0 /\ granted' = 0
    /\ RouterSample

RouterInit ==
    /\ wait_cnt = 0 /\ held = {}
    /\ \E k \in Keys : key_out = [c \in Channels |-> k]
    /\ table \in Tables /\ drop_wait_in \in Waits
    /\ pkt_vld \in BOOLEAN /\ pkt_key \in Keys
    /\ rdy \in SUBSET Channels /\ reset = TRUE
    /\ waited = 0 /\ granted = 0

RouterNext == RouterClock \/ RouterReset

RouterSpec == RouterInit /\ [][RouterNext]_routerVars
RouterFairSpec == RouterSpec /\ WF_routerVars(RouterClock)

---------------------------------------------------------------------------
(* Whatever is written to the drop wait register, and whatever packets     *)
(* come and go, a packet that waits for its channel has been granted the   *)
(* value of the register in the cycle before it began to wait, and the     *)
(* counter tells how much of it is left.                                   *)
WaitCounted == blocked => waited + wait_cnt = granted

(* ... so that a packet is dropped when it has waited exactly so long: no  *)
(* cycle earlier and no cycle later.                                       *)
DroppedOnTime == drop_pkt => waited = granted

(* The router takes its next packet in the end, although no channel ever   *)
(* takes one: SpiNNaker does not block the peripherals for good.           *)
NeverBlocks == []<>pkt_in_rdy

(* A packet that comes to a channel has come by the first entry of the     *)
(* table that hits it, and no other one.                                   *)
FirstHit ==
    [][\A c \in Channels : (c \in held' /\ c \notin held \ rdy)
          => \E i \in 1 .. NumRt :
                /\ table[i].route = c /\ key_out'[c] \in table[i].hits
                /\ \A j \in 1 .. i - 1 : key_out'[c] \notin table[j].hits]_routerVars

=============================================================================
