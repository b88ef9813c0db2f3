-------------------------- MODULE MapperArithmetic --------------------------
(***************************************************************************)
(* The set-of-bits operators of EventMapper beside the arithmetic          *)
(* pseudocode of doc/spif_config/spif_config.tex (algorithms "event        *)
(* filtering" and "event to SpiNNaker packet mapping"), for every event    *)
(* that reaches a pipe in any of a set of configurations.                  *)
(***************************************************************************)
EXTENDS EventMapper

CONSTANT MapperConfigs

ASSUME MapperConfigsAssumption == MapperConfigs \subseteq PipeConfig

VARIABLES config, event

mapperVars == <<config, event>>

MapperInit == config \in MapperConfigs /\ event \in Word

NextEvent == event' \in Word /\ UNCHANGED config

MapperSpec == MapperInit /\ [][NextEvent]_mapperVars

---------------------------------------------------------------------------
(* The documented algorithm, on numbers *)

Pow2[n \in Nat] == IF n = 0 THEN 1 ELSE 2 * Pow2[n - 1]

(* The number that the lowest bits of a word make. *)
LowBits(w) ==
    LET low[n \in Nat] ==
            IF n = 0 THEN 0 ELSE low[n - 1] + (IF n - 1 \in w THEN Pow2[n - 1] ELSE 0)
    IN  low

Number(w) == LowBits(w)[WordBits]

SignedShift(sft) == IF sft >= WordBits THEN sft - 2 * WordBits ELSE sft

DocField(cfg, evt, i) ==
    LET extracted == Number(evt \cap cfg.mpMsk[i])
        sft       == SignedShift(cfg.mpSft[i])
    IN  IF sft < 0 THEN (extracted * Pow2[- sft]) % Pow2[WordBits]
                   ELSE extracted \div Pow2[sft]

DocDropped(cfg, evt) ==
    \/ \E i \in 1 .. NumFilters :
          Number(evt \cap cfg.flMsk[i]) = Number(cfg.flVal[i])
    \/ \E i \in 1 .. NumFields : DocField(cfg, evt, i) > Number(cfg.mpLmt[i])

LowestShift == WordBits    \* the register value that encodes -WordBits

(* Every field of an event is the masked event shifted right by the signed *)
(* shift register, or left by its magnitude when it is negative, for every *)
(* shift but the most negative one (pkt_assembler.sv:96-104).              *)
FieldsAreArithmeticShifts ==
    \A i \in 1 .. NumFields :
       config.mpSft[i] # LowestShift
          => Number(Field(config, event, i)) = DocField(config, event, i)

(* The hardware drops exactly the events that the documented algorithms    *)
(* drop: those a filter matches, and those with a field above its limit    *)
(* (pkt_assembler.sv:73, 88, 107).                                         *)
DroppedAsDocumented ==
    (\A i \in 1 .. NumFields : config.mpSft[i] # LowestShift)
       => (Wanted(config, event) <=> ~ DocDropped(config, event))

=============================================================================
