------------------------------ MODULE SpifLocal ------------------------------
(***************************************************************************)
(* How SpiNNaker configures spif (spif_local.h, spif.h): each call sends   *)
(* one packet whose key holds the address of a register, with the value as *)
(* its payload, or asks for a register with a packet without payload.      *)
(*                                                                         *)
(* The calls that configure the router of the SpiNNaker board (local       *)
(* configuration packets) do not reach spif and are left out; so is        *)
(* spif_set_mapper_field_limit, which no program uses.                     *)
(***************************************************************************)
EXTENDS Integers, Sequences

CONSTANTS
    MpRegsNum,   \* SPIF_MPREGS_NUM, the same as NUM_MPREGS_PIPE of the bank
    FlRegsNum    \* SPIF_FLREGS_NUM

SPIF_SOFT_RESET == 1
SPIF_IN_DROP_WAIT == 3
SPIF_ROUTER_KEY == 16
SPIF_ROUTER_MASK == 32
SPIF_ROUTER_ROUTE == 48
SPIF_COUNT_OUT_DROP == 64
SPIF_COUNT_IN_DROP == 66
SPIF_COUNT_IN == 67
SPIF_DCREGS_NUM == 5
SPIF_MAPPER_KEY == 80
SPIF_MAPPER_MASK == 96
SPIF_MAPPER_SHIFT == 112
SPIF_FILTER_VALUE == 144
SPIF_FILTER_MASK == 176

(* The loop of every call repeats until the packet has been sent. *)
RcfgWrite(reg, value) ==
    [vld |-> TRUE, cfg |-> TRUE, pld |-> TRUE, addr |-> reg, data |-> value]
RcfgRead(reg) ==
    [vld |-> TRUE, cfg |-> TRUE, pld |-> FALSE, addr |-> reg, data |-> 0]

spif_set_routing_key(entry, key)     == RcfgWrite(SPIF_ROUTER_KEY + entry, key)
spif_set_routing_mask(entry, mask)   == RcfgWrite(SPIF_ROUTER_MASK + entry, mask)
spif_set_routing_route(entry, route) == RcfgWrite(SPIF_ROUTER_ROUTE + entry, route)
spif_set_input_drop_wait(wait)       == RcfgWrite(SPIF_IN_DROP_WAIT, wait)
spif_set_mapper_key(pipe, key)       == RcfgWrite(SPIF_MAPPER_KEY + pipe, key)

MaskPerPipe(pipe, field, mask) == RcfgWrite(SPIF_MAPPER_MASK + pipe + field, mask)
spif_set_mapper_field_mask(pipe, field, mask) ==
    RcfgWrite(SPIF_MAPPER_MASK + MpRegsNum * pipe + field, mask)
spif_set_mapper_field_shift(pipe, field, shift) ==
    RcfgWrite(SPIF_MAPPER_SHIFT + MpRegsNum * pipe + field, shift)
spif_set_filter_value(pipe, filter, value) ==
    RcfgWrite(SPIF_FILTER_VALUE + FlRegsNum * pipe + filter, value)
spif_set_filter_mask(pipe, filter, mask) ==
    RcfgWrite(SPIF_FILTER_MASK + FlRegsNum * pipe + filter, mask)

spif_read_counter(counter) == RcfgRead(counter)
spif_reset_counters ==
    [i \in 1 .. SPIF_DCREGS_NUM |-> RcfgWrite(SPIF_COUNT_OUT_DROP + i - 1, 0)]
spif_soft_reset == RcfgWrite(SPIF_SOFT_RESET, 0)

(* The loops of start_spif of count_events.c, for as many routing entries  *)
(* and pipes: three calls for each entry, a key and the fields for each    *)
(* pipe.                                                                   *)
SetRouting(entries, mask) ==
    [n \in 1 .. 3 * entries |->
        LET i == (n - 1) \div 3
        IN  CASE (n - 1) % 3 = 0 -> spif_set_routing_key(i, i)
              [] (n - 1) % 3 = 1 -> spif_set_routing_mask(i, mask)
              [] (n - 1) % 3 = 2 -> spif_set_routing_route(i, i)]

MapperCalls == 1 + 2 * MpRegsNum

SetMappers(pipes, key, fieldMask, fieldShift) ==
    [n \in 1 .. MapperCalls * pipes |->
        LET p == (n - 1) \div MapperCalls
            call == (n - 1) % MapperCalls
            mask == call - 1
            shift == call - 1 - MpRegsNum
        IN  IF call = 0 THEN spif_set_mapper_key(p, key)
            ELSE IF call <= MpRegsNum
            THEN spif_set_mapper_field_mask(p, mask, fieldMask[mask])
            ELSE spif_set_mapper_field_shift(p, shift, fieldShift[shift])]

StartSpif(entries, pipes, mask, key, fieldMask, fieldShift, wait) ==
    <<spif_soft_reset>> \o spif_reset_counters
    \o SetRouting(entries, mask)
    \o SetMappers(pipes, key, fieldMask, fieldShift)
    \o <<spif_set_input_drop_wait(wait)>>

=============================================================================
