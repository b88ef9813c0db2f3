---------------------------- MODULE EventMapper ----------------------------
(***************************************************************************)
(* The combinational half of a peripheral input pipe (pkt_assembler.sv):   *)
(* the event filters, and the mapper that turns an event into the routing  *)
(* key of a multicast packet by extracting, shifting and OR-ing fields.    *)
(*                                                                         *)
(* A field's shift register has one bit more than a shift amount needs: it *)
(* holds a two's complement number whose top bit selects a left shift.     *)
(***************************************************************************)
EXTENDS Words

CONSTANTS
    NumFilters,  \* `NUM_FLREGS_PIPE: 8
    NumFields    \* `NUM_MPREGS_PIPE: 4

ASSUME CountsAssumption == NumFilters \in Nat /\ NumFields \in Nat

ShiftReg == 0 .. 2 * WordBits - 1

(* The configuration registers of one pipe that reach the assembler. *)
PipeConfig ==
    [flVal : [1 .. NumFilters -> Word], flMsk : [1 .. NumFilters -> Word],
     mpKey : Word,
     mpMsk : [1 .. NumFields -> Word], mpSft : [1 .. NumFields -> ShiftReg],
     mpLmt : [1 .. NumFields -> Word]]

---------------------------------------------------------------------------
(* Shifts *)

IsNegative(sft) == sft >= WordBits

(* left_shift: the two's complement of the low bits, without the sign bit *)
LeftAmountNoPlusOne(sft) == (WordBits - 1) - (sft % WordBits)
LeftAmount(sft)          == (WordBits - (sft % WordBits)) % WordBits

---------------------------------------------------------------------------
(* Filter, fields, limits and key *)

Filtered(cfg, evt) ==
    \E i \in 1 .. NumFilters : cfg.flVal[i] = evt \cap cfg.flMsk[i]

Field(cfg, evt, i) ==
    LET extracted == evt \cap cfg.mpMsk[i]
        sft       == cfg.mpSft[i]
    IN  IF IsNegative(sft) THEN ShiftLeft(extracted, LeftAmount(sft))
                           ELSE ShiftRight(extracted, sft)

OffLimitsOrAt(cfg, evt) ==
    \E i \in 1 .. NumFields : ~ Exceeds(cfg.mpLmt[i], Field(cfg, evt, i))

OffLimits(cfg, evt) ==
    \E i \in 1 .. NumFields : Exceeds(Field(cfg, evt, i), cfg.mpLmt[i])

MappedKey(cfg, evt) ==
    cfg.mpKey \cup UNION {Field(cfg, evt, i) : i \in 1 .. NumFields}

(* An event becomes a packet unless a filter or a field limit drops it. *)
Wanted(cfg, evt) == ~ Filtered(cfg, evt) /\ ~ OffLimits(cfg, evt)

============================================================================
