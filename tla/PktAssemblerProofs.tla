------------------------- MODULE PktAssemblerProofs -------------------------
(* Theorems about one peripheral input pipe, for every word width, number  *)
(* of filters and fields, set of configurations and set of events.         *)
EXTENDS PktAssembler, MapperArithmetic, SequenceTheorems, WellFoundedInduction, TLAPS

(* A field is a word, whatever its mask and shift. *)
LEMMA FieldIsWord ==
    ASSUME NEW c, NEW e, NEW i
    PROVE  Field(c, e, i) \in Word
  BY DEF Field, ShiftLeft, ShiftRight, Word

(* The mapper produces a word: a routing key has no bit outside the word. *)
LEMMA MappedKeyIsWord ==
    ASSUME NEW c \in PipeConfig, NEW e
    PROVE  MappedKey(c, e) \in Word
<1>1. c.mpKey \in Word
  BY DEF PipeConfig
<1>2. \A i \in 1 .. NumFields : Field(c, e, i) \subseteq Bit
  BY FieldIsWord DEF Word
<1>3. UNION {Field(c, e, i) : i \in 1 .. NumFields} \subseteq Bit
  BY <1>2
<1> QED
  BY <1>1, <1>3 DEF MappedKey, Word

(* Every register and input wire keeps its type. *)
THEOREM TypeCorrect == Spec => []TypeOK
<1>1. Init => TypeOK
  BY DEF Init
<1>2. TypeOK /\ [Next]_vars => TypeOK'
  <2> SUFFICES ASSUME TypeOK, [Next]_vars PROVE TypeOK'
    OBVIOUS
  <2>1. MappedKey(cfg, axi_evt_data) \in Word
    BY MappedKeyIsWord, InputsAssumption DEF TypeOK
  <2>2. CASE Clock
    <3>1. parked_int' \in BOOLEAN /\ evt_rdy_out' \in BOOLEAN /\ pkt_vld_out' \in BOOLEAN
      BY <2>2 DEF TypeOK, Clock, Parked, EvtReady, PktValid
    <3>2. parked_data_int' \in Word /\ pkt_key_out' \in Word
      BY <2>1, <2>2 DEF TypeOK, Clock, ParkedData, PktKey, pkt_key_int
    <3> QED
      BY <3>1, <3>2, <2>2 DEF TypeOK, Clock, Sample
  <2>3. CASE Reset
    BY <2>3 DEF TypeOK, Reset, Sample
  <2>4. CASE UNCHANGED vars
    BY <2>4 DEF TypeOK, vars, registers, inputs
  <2> QED
    BY <2>2, <2>3, <2>4 DEF Next
<1> QED
  BY <1>1, <1>2, PTL DEF Spec

(* What parking relies on: something parked is behind a valid packet, and  *)
(* the assembler is not ready while something is parked.                   *)
THEOREM SkidInvariant == Spec => []SkidInv
<1>1. Init => SkidInv
  BY DEF Init, SkidInv
<1>2. TypeOK /\ SkidInv /\ [Next]_vars => SkidInv'
  <2> SUFFICES ASSUME TypeOK, SkidInv, [Next]_vars PROVE SkidInv'
    OBVIOUS
  <2>1. CASE Clock
    <3>1. parked_int' => pkt_vld_out'
      BY <2>1 DEF Clock, Parked, PktValid, parking
    <3>2. evt_rdy_out' => ~ parked_int'
      BY <2>1 DEF SkidInv, Clock, Parked, EvtReady, parking, pkt_busy_int,
                  evt_present_int
    <3> QED
      BY <3>1, <3>2 DEF SkidInv
  <2>2. CASE Reset
    BY <2>2 DEF SkidInv, Reset
  <2>3. CASE UNCHANGED vars
    BY <2>3 DEF SkidInv, vars, registers
  <2> QED
    BY <2>1, <2>2, <2>3 DEF Next
<1> QED
  BY <1>1, <1>2, TypeCorrect, PTL DEF Spec

(* The two cases that the comments of the ready and valid tables exclude   *)
(* (pkt_assembler.sv:140, 144) never happen: no accepted event is lost.    *)
THEOREM DataIsNeverLost == Spec => []NoDataLoss
<1>1. SkidInv => NoDataLoss
  BY DEF SkidInv, NoDataLoss, evt_present_int
<1> QED
  BY <1>1, SkidInvariant, PTL

(* A packet offered to the router does not change until it is taken        *)
(* (pkt_assembler.sv:162).                                                 *)
THEOREM PacketIsHeld == Spec => PktHeldWhileBusy
<1>1. [Next]_vars =>
        [pkt_busy_int /\ ~ reset' => pkt_vld_out' /\ UNCHANGED pkt_key_out]_vars
  BY DEF Next, Clock, Reset, PktValid, PktKey, vars
<1> QED
  BY <1>1, PTL DEF Spec, PktHeldWhileBusy

---------------------------------------------------------------------------
(* The refinement *)

Offered ==
    IF evt_vld_in /\ Wanted(cfg, axi_evt_data)
       THEN <<MappedKey(cfg, axi_evt_data)>> ELSE <<>>

(* The refinement mapping yields a typed state of the buffer. *)
LEMMA MappingIsTyped ==
    ASSUME TypeOK
    PROVE  Fifo!FifoTypeOK
<1>1. MappedKey(cfg, axi_evt_data) \in Word
  BY MappedKeyIsWord, InputsAssumption DEF TypeOK
<1>2. Held \in Seq(Word) /\ Len(Held) <= 2
  BY DEF TypeOK, Held
<1>3. Offered \in Fifo!Offer
  BY <1>1 DEF Offered, Fifo!Offer
<1> QED
  BY <1>2, <1>3 DEF TypeOK, Fifo!FifoTypeOK, Offered

(* Concatenation of the short sequences that the buffer can hold. *)
LEMMA ShortConcatenations ==
    ASSUME NEW a, NEW b
    PROVE  /\ <<>> \o <<>> = <<>>
           /\ <<a>> \o <<>> = <<a>>
           /\ <<>> \o <<b>> = <<b>>
           /\ <<a>> \o <<b>> = <<a, b>>
           /\ <<a, b>> \o <<>> = <<a, b>>
<1>1. <<>> \o <<>> = <<>>
  OBVIOUS
<1>2. <<a>> \o <<>> = <<a>>
  OBVIOUS
<1>3. <<>> \o <<b>> = <<b>>
  OBVIOUS
<1>4. <<a>> \o <<b>> = <<a, b>>
  <2>1. <<a>> \in Seq({a, b}) /\ b \in {a, b}
    OBVIOUS
  <2>2. Append(<<a>>, b) = <<a>> \o <<b>>
    BY <2>1, AppendIsConcat
  <2>3. /\ Append(<<a>>, b) \in Seq({a, b}) /\ Len(Append(<<a>>, b)) = 2
        /\ Append(<<a>>, b)[1] = a /\ Append(<<a>>, b)[2] = b
    BY <2>1, AppendProperties
  <2>4. <<a, b>> \in Seq({a, b}) /\ Len(<<a, b>>) = 2
    OBVIOUS
  <2>5. \A i \in 1 .. 2 : Append(<<a>>, b)[i] = <<a, b>>[i]
    BY <2>3
  <2> QED
    BY <2>2, <2>3, <2>4, <2>5, SeqEqual
<1>5. <<a, b>> \o <<>> = <<a, b>>
  OBVIOUS
<1> QED
  BY <1>1, <1>2, <1>3, <1>4, <1>5

(* A clock edge takes and accepts keys as a cycle of the buffer does. *)
LEMMA CycleImplementsFifoCycle ==
    ASSUME TypeOK, TypeOK', SkidInv, Clock
    PROVE  Fifo!FifoCycle
<1> DEFINE key == MappedKey(cfg, axi_evt_data)
<1>1. Fifo!Remaining = IF pkt_busy_int THEN Held
                       ELSE IF parked_int THEN <<parked_data_int>> ELSE <<>>
  BY DEF Fifo!Remaining, Held, TypeOK, SkidInv, pkt_busy_int
<1>2. Fifo!Accepted = IF evt_present_int THEN <<key>> ELSE <<>>
  BY DEF Fifo!Accepted, evt_present_int
<1>3. Held' = Fifo!Remaining \o Fifo!Accepted
  <2>1. CASE parked_int
    <3>1. ~ evt_present_int /\ pkt_vld_out
      BY <2>1 DEF SkidInv, evt_present_int
    <3>2. CASE pkt_busy_int
      <4>1. Held = <<pkt_key_out, parked_data_int>> /\ Held' = Held
        BY <2>1, <3>1, <3>2
           DEF Clock, Held, Parked, ParkedData, PktKey, PktValid, parking, pkt_busy_int
      <4> QED
        BY <1>1, <1>2, <3>1, <3>2, <4>1, ShortConcatenations
    <3>3. CASE ~ pkt_busy_int
      <4>1. Held' = <<parked_data_int>>
        BY <2>1, <3>1, <3>3
           DEF Clock, Held, Parked, ParkedData, PktKey, PktValid, parking,
               pkt_busy_int, pkt_key_int
      <4> QED
        BY <1>1, <1>2, <2>1, <3>1, <3>3, <4>1, ShortConcatenations
    <3> QED
      BY <3>2, <3>3
  <2>2. CASE ~ parked_int
    <3>1. CASE pkt_busy_int
      <4>1. Held = <<pkt_key_out>>
        BY <2>2, <3>1 DEF Held, pkt_busy_int
      <4>2. Held' = IF evt_present_int THEN <<pkt_key_out, key>> ELSE <<pkt_key_out>>
        BY <2>2, <3>1
           DEF Clock, Held, Parked, ParkedData, PktKey, PktValid, parking
      <4> QED
        BY <1>1, <1>2, <3>1, <4>1, <4>2, ShortConcatenations
    <3>2. CASE ~ pkt_busy_int
      <4>1. Held' = IF evt_present_int THEN <<key>> ELSE <<>>
        BY <2>2, <3>2
           DEF Clock, Held, Parked, PktKey, PktValid, parking, pkt_key_int
      <4> QED
        BY <1>1, <1>2, <2>2, <3>2, <4>1, ShortConcatenations
    <3> QED
      BY <3>1, <3>2
  <2> QED
    BY <2>1, <2>2
<1>4. Fifo!FifoTypeOK'
  BY MappingIsTyped, PTL
<1> QED
  BY <1>3, <1>4 DEF Fifo!FifoCycle, Clock

(* The assembler implements a two-place buffer of routing keys that only a *)
(* reset of the link empties.                                              *)
THEOREM AssemblerImplementsFifo == Spec => ImplementsFifo
<1>1. Init => Fifo!FifoInit
  BY MappingIsTyped DEF Init, Fifo!FifoInit, Held
<1>2. TypeOK /\ TypeOK' /\ SkidInv /\ [Next]_vars => [Fifo!FifoNext]_Fifo!fifoVars
  <2> SUFFICES ASSUME TypeOK, TypeOK', SkidInv, [Next]_vars
               PROVE  [Fifo!FifoNext]_Fifo!fifoVars
    OBVIOUS
  <2>1. CASE Clock
    BY <2>1, CycleImplementsFifoCycle DEF Fifo!FifoNext
  <2>2. CASE Reset
    <3>1. Fifo!FifoTypeOK'
      BY MappingIsTyped, PTL
    <3> QED
      BY <2>2, <3>1 DEF Fifo!FifoNext, Fifo!FifoReset, Reset, Held
  <2>3. CASE UNCHANGED vars
    BY <2>3 DEF vars, registers, inputs, Fifo!fifoVars, Held, evt_vld_in
  <2> QED
    BY <2>1, <2>2, <2>3 DEF Next
<1> QED
  BY <1>1, <1>2, TypeCorrect, SkidInvariant, PTL DEF Spec, ImplementsFifo, Fifo!FifoSpec

---------------------------------------------------------------------------
(* The mapper, for words of any width                                      *)
(*                                                                         *)
(* What follows is by induction on the bits of a word: not by a theorem    *)
(* about a property P(_), which the provers cannot instantiate, but by the *)
(* least element of the set of the numbers that lack the property.         *)

(* Every set of numbers that is not empty has a least one. *)
LEMMA Least ==
    ASSUME NEW T, T \subseteq Nat, T # {}
    PROVE  \E x \in T : \A y \in T : x <= y
<1> DEFINE R == OpToRel(<, Nat)
<1>1. IsWellFoundedOn(R, Nat)
  BY NatLessThanWellFounded
<1>2. \A x, y \in Nat : x < y => <<x, y>> \in R
  BY DEF OpToRel
<1> HIDE DEF R
<1>3. PICK x \in T : \A y \in T : ~ (<<y, x>> \in R)
  BY <1>1, WFMin
<1>4. ASSUME NEW y \in T PROVE x <= y
  <2>1. x \in Nat /\ y \in Nat
    OBVIOUS
  <2>2. ~ (y < x)
    BY <1>2, <1>3, <2>1
  <2> QED BY <2>1, <2>2
<1> QED BY <1>4

(* Induction, on a set. *)
LEMMA Induction ==
    ASSUME NEW T, T \subseteq Nat, 0 \in T, \A n \in T : n + 1 \in T
    PROVE  T = Nat
<1> SUFFICES ASSUME Nat \ T # {} PROVE FALSE
  OBVIOUS
<1>1. PICK x \in Nat \ T : \A y \in Nat \ T : x <= y
  <2>1. Nat \ T \subseteq Nat
    OBVIOUS
  <2> QED BY <2>1, Least
<1>2. x # 0 /\ x - 1 \in Nat
  BY <1>1
<1>3. x - 1 \in T
  BY <1>1, <1>2
<1>4. x - 1 + 1 = x
  BY <1>1
<1> QED BY <1>1, <1>3, <1>4

(* A function that is given at 0 and from each number to the next exists.  *)
Computes(f, V, a, st) ==
    /\ f \in [Nat -> V] /\ f[0] = a
    /\ \A n \in Nat : f[n + 1] = st[n][f[n]]

LEMMA Recursion ==
    ASSUME NEW V, NEW a, a \in V, NEW st, st \in [Nat -> [V -> V]]
    PROVE  \E f : Computes(f, V, a, st)
<1> DEFINE Starts(g, n) ==
               /\ g \in [0 .. n -> V] /\ g[0] = a
               /\ \A i \in 0 .. n - 1 : g[i + 1] = st[i][g[i]]
           T == {n \in Nat : \E g : Starts(g, n)}
<1>1. T = Nat
  <2>1. 0 \in T
    <3>1. Starts([i \in 0 .. 0 |-> a], 0)
      OBVIOUS
    <3> QED BY <3>1
  <2>2. ASSUME NEW n \in T PROVE n + 1 \in T
    <3>1. PICK g : Starts(g, n)
      OBVIOUS
    <3> DEFINE h == [i \in 0 .. n + 1 |-> IF i <= n THEN g[i] ELSE st[n][g[n]]]
    <3>2. n \in Nat /\ g[n] \in V /\ st[n] \in [V -> V]
      BY <3>1
    <3>3. h \in [0 .. n + 1 -> V]
      <4>1. ASSUME NEW i \in 0 .. n + 1 PROVE h[i] \in V
        <5>1. CASE i <= n
          BY <3>1, <3>2, <5>1
        <5>2. CASE ~ i <= n
          BY <3>2, <5>2
        <5> QED BY <5>1, <5>2
      <4> QED BY <4>1
    <3>4. h[0] = a
      BY <3>1, <3>2
    <3>5. ASSUME NEW i \in 0 .. (n + 1) - 1 PROVE h[i + 1] = st[i][h[i]]
      <4>1. h[i] = g[i]
        BY <3>2
      <4>2. CASE i = n
        <5>1. i + 1 \in 0 .. n + 1 /\ ~ (i + 1 <= n)
          BY <3>2, <4>2
        <5>2. h[i + 1] = st[n][g[n]]
          BY <5>1
        <5> HIDE DEF h
        <5> QED BY <4>1, <4>2, <5>2
      <4>3. CASE i # n
        <5>1. i \in 0 .. n - 1 /\ i + 1 \in 0 .. n + 1 /\ i + 1 <= n
          BY <3>2, <4>3
        <5>2. h[i + 1] = g[i + 1]
          BY <5>1
        <5> QED BY <3>1, <4>1, <5>1, <5>2
      <4> QED BY <4>2, <4>3
    <3>6. Starts(h, n + 1)
      BY <3>3, <3>4, <3>5
    <3>7. n + 1 \in Nat
      BY <3>2
    <3> HIDE DEF Starts, h
    <3> QED BY <3>6, <3>7
  <2> HIDE DEF T
  <2>3. T \subseteq Nat
    BY DEF T
  <2> QED BY <2>1, <2>2, <2>3, Induction
<1>2. ASSUME NEW n \in Nat, NEW m \in Nat, NEW g, NEW h, Starts(g, n), Starts(h, m), n <= m
      PROVE  g[n] = h[n]
  <2> DEFINE A == {i \in Nat : i <= n => g[i] = h[i]}
  <2>1. 0 \in A
    BY <1>2
  <2>2. ASSUME NEW i \in A PROVE i + 1 \in A
    <3> SUFFICES ASSUME i + 1 <= n PROVE g[i + 1] = h[i + 1]
      OBVIOUS
    <3>1. i \in 0 .. n - 1 /\ i \in 0 .. m - 1 /\ i <= n
      BY <1>2
    <3>2. g[i] = h[i]
      BY <3>1
    <3>3. g[i + 1] = st[i][g[i]]
      BY <1>2, <3>1
    <3>4. h[i + 1] = st[i][h[i]]
      BY <1>2, <3>1
    <3> QED BY <3>2, <3>3, <3>4
  <2> HIDE DEF A
  <2>3. A = Nat
    <3>1. A \subseteq Nat
      BY DEF A
    <3> QED BY <2>1, <2>2, <3>1, Induction
  <2> QED BY <2>3 DEF A
<1> DEFINE G(n) == CHOOSE g : Starts(g, n)
           f == [n \in Nat |-> G(n)[n]]
<1>3. ASSUME NEW n \in Nat PROVE Starts(G(n), n)
  <2>1. \E g : Starts(g, n)
    BY <1>1
  <2> HIDE DEF Starts
  <2> QED BY <2>1, Zenon
<1>4. f \in [Nat -> V]
  <2> SUFFICES ASSUME NEW n \in Nat PROVE G(n)[n] \in V
    OBVIOUS
  <2> HIDE DEF G
  <2> QED BY <1>3
<1>5. f[0] = a
  <2>1. Starts(G(0), 0)
    BY <1>3
  <2> HIDE DEF G
  <2> QED BY <2>1
<1>6. ASSUME NEW n \in Nat PROVE f[n + 1] = st[n][f[n]]
  <2>1. Starts(G(n), n) /\ Starts(G(n + 1), n + 1)
    <3> HIDE DEF Starts, G
    <3>1. n + 1 \in Nat
      OBVIOUS
    <3> QED BY <1>3, <3>1
  <2> HIDE DEF G
  <2>2. G(n)[n] = G(n + 1)[n]
    <3> HIDE DEF Starts
    <3>1. n + 1 \in Nat /\ n <= n + 1
      OBVIOUS
    <3> QED BY <1>2, <2>1, <3>1
  <2>3. G(n + 1)[n + 1] = st[n][G(n + 1)[n]]
    BY <2>1
  <2> QED BY <2>2, <2>3
<1>7. Computes(f, V, a, st)
  <2> HIDE DEF f
  <2> QED BY <1>4, <1>5, <1>6 DEF Computes
<1> QED BY <1>7

---------------------------------------------------------------------------
(* The recursive definitions of MapperArithmetic mean what they say.       *)
LEMMA Pow2Is ==
    /\ Pow2 \in [Nat -> Nat] /\ Pow2[0] = 1
    /\ \A n \in Nat : Pow2[n + 1] = 2 * Pow2[n]
<1> DEFINE st == [n \in Nat |-> [v \in Nat |-> 2 * v]]
           Is(f) == f = [n \in Nat |-> IF n = 0 THEN 1 ELSE 2 * f[n - 1]]
<1>1. st \in [Nat -> [Nat -> Nat]]
  OBVIOUS
<1>2. PICK f : Computes(f, Nat, 1, st)
  <2> HIDE DEF st
  <2>1. 1 \in Nat
    OBVIOUS
  <2> QED BY <1>1, <2>1, Recursion, Zenon
<1>3. \A n \in Nat : f[n + 1] = 2 * f[n]
  BY <1>2 DEF Computes
<1>4. Is(f)
  <2>1. ASSUME NEW n \in Nat PROVE f[n] = IF n = 0 THEN 1 ELSE 2 * f[n - 1]
    <3>1. CASE n = 0
      BY <1>2, <3>1 DEF Computes
    <3>2. CASE n # 0
      <4>1. n - 1 \in Nat /\ n - 1 + 1 = n
        BY <3>2
      <4> QED BY <1>3, <3>2, <4>1
    <3> QED BY <3>1, <3>2
  <2>2. f \in [Nat -> Nat]
    BY <1>2 DEF Computes
  <2> QED BY <2>1, <2>2
<1>5. Pow2 = CHOOSE g : Is(g)
  BY DEF Pow2
<1>6. Is(Pow2)
  <2> HIDE DEF Is
  <2> QED BY <1>4, <1>5, Zenon
<1>7. \A n \in Nat : Pow2[n] = IF n = 0 THEN 1 ELSE 2 * Pow2[n - 1]
  <2>1. Pow2 = [n \in Nat |-> IF n = 0 THEN 1 ELSE 2 * Pow2[n - 1]]
    BY <1>6
  <2> QED BY <2>1, Zenon
<1>8. Pow2[0] = 1 /\ \A n \in Nat : Pow2[n + 1] = 2 * Pow2[n]
  <2>1. Pow2[0] = 1
    BY <1>7
  <2>2. ASSUME NEW n \in Nat PROVE Pow2[n + 1] = 2 * Pow2[n]
    <3>1. n + 1 \in Nat /\ n + 1 # 0 /\ n + 1 - 1 = n
      OBVIOUS
    <3> QED BY <1>7, <3>1
  <2> QED BY <2>1, <2>2
<1> DEFINE T == {n \in Nat : Pow2[n] \in Nat}
<1>9. T = Nat
  <2>1. 0 \in T /\ T \subseteq Nat
    BY <1>8
  <2>2. ASSUME NEW n \in T PROVE n + 1 \in T
    BY <1>8
  <2> HIDE DEF T
  <2> QED BY <2>1, <2>2, Induction
<1>10. Pow2 \in [Nat -> Nat]
  <2>1. Pow2 = [n \in Nat |-> IF n = 0 THEN 1 ELSE 2 * Pow2[n - 1]]
    BY <1>6
  <2>2. \A n \in Nat : Pow2[n] \in Nat
    BY <1>9
  <2>3. DOMAIN Pow2 = Nat /\ Pow2 = [n \in Nat |-> Pow2[n]]
    BY <2>1, Zenon
  <2> QED BY <2>2, <2>3, Zenon
<1> QED BY <1>8, <1>10, Zenon

LEMMA LowBitsIs ==
    ASSUME NEW w
    PROVE  /\ LowBits(w) \in [Nat -> Nat] /\ LowBits(w)[0] = 0
           /\ \A n \in Nat :
                 LowBits(w)[n + 1] = LowBits(w)[n] + (IF n \in w THEN Pow2[n] ELSE 0)
<1> DEFINE st == [n \in Nat |-> [v \in Nat |-> v + (IF n \in w THEN Pow2[n] ELSE 0)]]
           Is(f) == f = [n \in Nat |-> IF n = 0 THEN 0
                                      ELSE f[n - 1] + (IF n - 1 \in w THEN Pow2[n - 1] ELSE 0)]
           L == LowBits(w)
<1>1. st \in [Nat -> [Nat -> Nat]]
  <2>1. ASSUME NEW n \in Nat, NEW v \in Nat PROVE v + (IF n \in w THEN Pow2[n] ELSE 0) \in Nat
    BY Pow2Is
  <2> QED BY <2>1
<1>2. PICK f : Computes(f, Nat, 0, st)
  <2> HIDE DEF st
  <2>1. 0 \in Nat
    OBVIOUS
  <2> QED BY <1>1, <2>1, Recursion, Zenon
<1>3. f \in [Nat -> Nat] /\ f[0] = 0
  BY <1>2 DEF Computes
<1>4. ASSUME NEW n \in Nat PROVE f[n + 1] = f[n] + (IF n \in w THEN Pow2[n] ELSE 0)
  <2>1. f[n + 1] = st[n][f[n]]
    BY <1>2 DEF Computes
  <2> QED BY <1>3, <2>1
<1> HIDE DEF st
<1>5. Is(f)
  <2>1. ASSUME NEW n \in Nat
        PROVE  f[n] = IF n = 0 THEN 0 ELSE f[n - 1] + (IF n - 1 \in w THEN Pow2[n - 1] ELSE 0)
    <3>1. CASE n = 0
      BY <1>3, <3>1
    <3>2. CASE n # 0
      <4>1. n - 1 \in Nat /\ n - 1 + 1 = n
        BY <3>2
      <4>2. f[n - 1 + 1] = f[n - 1] + (IF n - 1 \in w THEN Pow2[n - 1] ELSE 0)
        BY <1>4, <4>1
      <4> QED BY <3>2, <4>1, <4>2
    <3> QED BY <3>1, <3>2
  <2> QED BY <1>3, <2>1
<1>6. L = CHOOSE g : Is(g)
  BY DEF LowBits
<1>7. Is(L)
  <2> HIDE DEF Is, L
  <2> QED BY <1>5, <1>6, Zenon
<1> HIDE DEF L
<1>8. \A n \in Nat : L[n] = IF n = 0 THEN 0
                              ELSE L[n - 1] + (IF n - 1 \in w THEN Pow2[n - 1] ELSE 0)
  <2>1. L = [n \in Nat |-> IF n = 0 THEN 0
                            ELSE L[n - 1] + (IF n - 1 \in w THEN Pow2[n - 1] ELSE 0)]
    BY <1>7
  <2> QED BY <2>1, Zenon
<1>9. L[0] = 0
  BY <1>8
<1>10. ASSUME NEW n \in Nat PROVE L[n + 1] = L[n] + (IF n \in w THEN Pow2[n] ELSE 0)
  <2>1. n + 1 \in Nat /\ n + 1 # 0 /\ n + 1 - 1 = n
    OBVIOUS
  <2> QED BY <1>8, <2>1
<1> DEFINE T == {n \in Nat : L[n] \in Nat}
<1>11. T = Nat
  <2>1. 0 \in T /\ T \subseteq Nat
    BY <1>9
  <2>2. ASSUME NEW n \in T PROVE n + 1 \in T
    BY <1>10, Pow2Is
  <2> HIDE DEF T
  <2> QED BY <2>1, <2>2, Induction
<1>12. L \in [Nat -> Nat]
  <2>1. L = [n \in Nat |-> IF n = 0 THEN 0
                            ELSE L[n - 1] + (IF n - 1 \in w THEN Pow2[n - 1] ELSE 0)]
    BY <1>7
  <2>2. \A n \in Nat : L[n] \in Nat
    BY <1>11
  <2>3. DOMAIN L = Nat /\ L = [n \in Nat |-> L[n]]
    BY <2>1, Zenon
  <2> QED BY <2>2, <2>3, Zenon
<1> QED BY <1>9, <1>10, <1>12, Zenon DEF L

---------------------------------------------------------------------------
(* The laws of powers, and of the number that the low bits make.           *)
LEMMA PowAdds ==
    ASSUME NEW n \in Nat, NEW k \in Nat
    PROVE  Pow2[n + k] = Pow2[n] * Pow2[k]
<1> DEFINE T == {j \in Nat : Pow2[n + j] = Pow2[n] * Pow2[j]}
<1>1. 0 \in T
  BY Pow2Is
<1>2. ASSUME NEW j \in T PROVE j + 1 \in T
  <2>1. n + j \in Nat /\ n + (j + 1) = n + j + 1 /\ Pow2[n] \in Nat /\ Pow2[j] \in Nat
    BY Pow2Is
  <2>2. Pow2[n + (j + 1)] = 2 * (Pow2[n] * Pow2[j])
    BY <2>1, Pow2Is
  <2>3. Pow2[j + 1] = 2 * Pow2[j]
    BY Pow2Is
  <2>4. 2 * (Pow2[n] * Pow2[j]) = Pow2[n] * (2 * Pow2[j])
    BY <2>1
  <2> QED BY <2>2, <2>3, <2>4
<1>3. T = Nat
  <2>1. T \subseteq Nat
    OBVIOUS
  <2> HIDE DEF T
  <2> QED BY <1>1, <1>2, <2>1, Induction
<1> QED BY <1>3

LEMMA PowPositive == ASSUME NEW n \in Nat PROVE Pow2[n] \in Nat \ {0}
<1> DEFINE T == {j \in Nat : Pow2[j] # 0}
<1>1. 0 \in T /\ T \subseteq Nat
  BY Pow2Is
<1>2. ASSUME NEW j \in T PROVE j + 1 \in T
  BY Pow2Is
<1>3. T = Nat
  <2> HIDE DEF T
  <2> QED BY <1>1, <1>2, Induction
<1> QED BY <1>3, Pow2Is

LEMMA LowBounded ==
    ASSUME NEW w, NEW n \in Nat
    PROVE  LowBits(w)[n] \in 0 .. Pow2[n] - 1
<1> DEFINE T == {j \in Nat : LowBits(w)[j] <= Pow2[j] - 1}
<1>1. 0 \in T /\ T \subseteq Nat
  BY LowBitsIs, Pow2Is
<1>2. ASSUME NEW j \in T PROVE j + 1 \in T
  <2>1. LowBits(w)[j] \in Nat /\ Pow2[j] \in Nat
    BY LowBitsIs, Pow2Is
  <2>2. LowBits(w)[j + 1] = LowBits(w)[j] + (IF j \in w THEN Pow2[j] ELSE 0)
    BY LowBitsIs
  <2>3. LowBits(w)[j + 1] <= LowBits(w)[j] + Pow2[j]
    <3>1. CASE j \in w
      BY <2>1, <2>2, <3>1
    <3>2. CASE j \notin w
      <4>1. LowBits(w)[j + 1] = LowBits(w)[j]
        BY <2>1, <2>2, <3>2
      <4> QED BY <2>1, <4>1
    <3> QED BY <3>1, <3>2
  <2>4. Pow2[j + 1] = 2 * Pow2[j]
    BY Pow2Is
  <2>5. LowBits(w)[j + 1] \in Nat
    BY LowBitsIs
  <2> QED BY <2>1, <2>3, <2>4, <2>5
<1>3. T = Nat
  <2> HIDE DEF T
  <2> QED BY <1>1, <1>2, Induction
<1>4. LowBits(w)[n] \in Nat /\ Pow2[n] \in Nat
  BY LowBitsIs, Pow2Is
<1>5. LowBits(w)[n] <= Pow2[n] - 1
  BY <1>3
<1> QED BY <1>4, <1>5

(* The bits of a word from the n-th on. *)
Upper(w, n) == {b \in Nat : b + n \in w}

LEMMA SplitAt ==
    ASSUME NEW w, NEW n \in Nat, NEW k \in Nat
    PROVE  LowBits(w)[n + k] = LowBits(w)[n] + Pow2[n] * LowBits(Upper(w, n))[k]
<1> DEFINE u == Upper(w, n)
           T == {j \in Nat : LowBits(w)[n + j] = LowBits(w)[n] + Pow2[n] * LowBits(u)[j]}
<1>1. /\ LowBits(w) \in [Nat -> Nat] /\ LowBits(u) \in [Nat -> Nat]
      /\ Pow2 \in [Nat -> Nat]
  BY LowBitsIs, Pow2Is
<1>2. 0 \in T
  <2>1. LowBits(u)[0] = 0
    BY LowBitsIs
  <2> HIDE DEF u
  <2> QED BY <1>1, <2>1
<1>3. ASSUME NEW j \in T PROVE j + 1 \in T
  <2>1. n + j \in Nat /\ n + (j + 1) = n + j + 1 /\ j + n = n + j
    OBVIOUS
  <2>2. LowBits(w)[n + (j + 1)]
          = LowBits(w)[n + j] + (IF n + j \in w THEN Pow2[n + j] ELSE 0)
    BY <2>1, LowBitsIs
  <2>3. LowBits(u)[j + 1] = LowBits(u)[j] + (IF j \in u THEN Pow2[j] ELSE 0)
    BY LowBitsIs
  <2>4. j \in u <=> n + j \in w
    BY <2>1 DEF Upper
  <2>5. Pow2[n + j] = Pow2[n] * Pow2[j]
    BY PowAdds
  <2>6. /\ LowBits(w)[n + j] = LowBits(w)[n] + Pow2[n] * LowBits(u)[j]
        /\ j \in Nat
    OBVIOUS
  <2> HIDE DEF T, u
  <2> DEFINE p == Pow2[n]
             a == LowBits(u)[j]
             q == Pow2[j]
  <2>7. p \in Nat /\ a \in Nat /\ q \in Nat /\ LowBits(w)[n] \in Nat
    BY <1>1, <2>6
  <2>8. CASE n + j \in w
    <3>1. LowBits(u)[j + 1] = a + q
      BY <2>3, <2>4, <2>8
    <3>2. LowBits(w)[n + (j + 1)] = LowBits(w)[n] + p * a + p * q
      BY <2>2, <2>5, <2>6, <2>8
    <3>3. p * (a + q) = p * a + p * q /\ p * a \in Nat /\ p * q \in Nat
      BY <2>7
    <3> HIDE DEF p, a, q
    <3>4. LowBits(w)[n + (j + 1)] = LowBits(w)[n] + p * LowBits(u)[j + 1]
      BY <2>7, <3>1, <3>2, <3>3
    <3> QED BY <2>6, <3>4 DEF T, p
  <2>9. CASE n + j \notin w
    <3>1. LowBits(u)[j + 1] = a
      BY <2>3, <2>4, <2>9, <2>7
    <3>2. LowBits(w)[n + (j + 1)] = LowBits(w)[n] + p * a
      <4>1. LowBits(w)[n + j] \in Nat
        BY <1>1, <2>1
      <4> QED BY <2>2, <2>6, <2>9, <4>1
    <3> QED BY <2>6, <3>1, <3>2 DEF T
  <2> QED BY <2>8, <2>9
<1>4. T = Nat
  <2>1. T \subseteq Nat
    OBVIOUS
  <2> HIDE DEF T
  <2> QED BY <1>2, <1>3, <2>1, Induction
<1> QED BY <1>4

(* More bits make no smaller number.                                       *)
LEMMA Monotone ==
    ASSUME NEW w, NEW v, NEW n \in Nat, \A b \in 0 .. n - 1 : b \in w => b \in v
    PROVE  LowBits(w)[n] <= LowBits(v)[n]
<1> DEFINE T == {j \in Nat : j <= n => LowBits(w)[j] <= LowBits(v)[j]}
<1>1. 0 \in T /\ T \subseteq Nat
  BY LowBitsIs
<1>2. ASSUME NEW j \in T PROVE j + 1 \in T
  <2> SUFFICES ASSUME j + 1 <= n PROVE LowBits(w)[j + 1] <= LowBits(v)[j + 1]
    OBVIOUS
  <2>1. j \in w => j \in v
    OBVIOUS
  <2>2. LowBits(w)[j] <= LowBits(v)[j]
    OBVIOUS
  <2> QED BY <2>1, <2>2, LowBitsIs, Pow2Is
<1>3. T = Nat
  <2> HIDE DEF T
  <2> QED BY <1>1, <1>2, Induction
<1> QED BY <1>3

LEMMA SameBits ==
    ASSUME NEW w, NEW v, NEW n \in Nat, \A b \in 0 .. n - 1 : b \in w <=> b \in v
    PROVE  LowBits(w)[n] = LowBits(v)[n]
<1>1. LowBits(w)[n] <= LowBits(v)[n] /\ LowBits(v)[n] <= LowBits(w)[n]
  BY Monotone
<1>2. LowBits(w)[n] \in Nat /\ LowBits(v)[n] \in Nat
  <2>1. LowBits(w) \in [Nat -> Nat] /\ LowBits(v) \in [Nat -> Nat]
    BY LowBitsIs
  <2> QED BY <2>1
<1> QED BY <1>1, <1>2

LEMMA NoBits ==
    ASSUME NEW w, NEW n \in Nat, \A b \in 0 .. n - 1 : b \notin w
    PROVE  LowBits(w)[n] = 0
<1> DEFINE T == {j \in Nat : j <= n => LowBits(w)[j] = 0}
<1>1. 0 \in T /\ T \subseteq Nat
  BY LowBitsIs
<1>2. ASSUME NEW j \in T PROVE j + 1 \in T
  <2> SUFFICES ASSUME j + 1 <= n PROVE LowBits(w)[j + 1] = 0
    OBVIOUS
  <2>1. j \notin w /\ LowBits(w)[j] = 0
    OBVIOUS
  <2> QED BY <2>1, LowBitsIs
<1>3. T = Nat
  <2> HIDE DEF T
  <2> QED BY <1>1, <1>2, Induction
<1> QED BY <1>3

---------------------------------------------------------------------------
(* Division by a number that is not a constant.                            *)
LEMMA Larger == ASSUME NEW w \in Nat \ {0}, NEW d \in Int, d >= 1 PROVE w * d >= w
  OBVIOUS

LEMMA OnlyZero ==
    ASSUME NEW w \in Nat \ {0}, NEW d \in Int, w * d < w, - w < w * d PROVE d = 0
<1>1. CASE d >= 1
  BY <1>1, Larger
<1>2. CASE d <= -1
  <2>1. w * (- d) >= w
    BY <1>2, Larger
  <2>2. w * (- d) = - (w * d)
    OBVIOUS
  <2> QED BY <2>1, <2>2
<1> QED BY <1>1, <1>2

LEMMA DivMod ==
    ASSUME NEW w \in Nat \ {0}, NEW p \in Nat, NEW k \in 0 .. w - 1
    PROVE  (w * p + k) \div w = p /\ (w * p + k) % w = k
<1> DEFINE n == w * p + k
           q == n \div w
           r == n % w
<1>1. n \in Nat /\ k \in Nat
  OBVIOUS
<1>2. q \in Int /\ r \in 0 .. w - 1 /\ n = w * q + r
  BY <1>1
<1>3. w * (q - p) = k - r
  <2>1. w * (q - p) = w * q - w * p
    BY <1>2
  <2>2. n = w * p + k /\ w * q \in Int /\ w * p \in Int
    BY <1>2
  <2> HIDE DEF n, q, r
  <2> QED BY <1>1, <1>2, <2>1, <2>2
<1>4. q - p = 0
  BY <1>1, <1>2, <1>3, OnlyZero
<1>5. q = p
  BY <1>2, <1>4
<1>6. r = k
  BY <1>1, <1>2, <1>3, <1>5
<1> QED BY <1>5, <1>6

(* A word as a number.                                                     *)
LEMMA WordIs ==
    ASSUME NEW w \in Word
    PROVE  /\ WordBits \in Nat \ {0} /\ w \subseteq 0 .. WordBits - 1
           /\ Number(w) = LowBits(w)[WordBits] /\ Number(w) \in Nat
<1>1. WordBits \in Nat \ {0}
  BY WordBitsAssumption
<1> QED BY <1>1, LowBitsIs DEF Word, Bit, Number

(* A shift to the right divides.                                           *)
LEMMA RightShift ==
    ASSUME NEW e \in Word, NEW n \in 0 .. WordBits - 1
    PROVE  Number(ShiftRight(e, n)) = Number(e) \div Pow2[n]
<1> DEFINE m == WordBits - n
           s == ShiftRight(e, n)
           q == LowBits(Upper(e, n))[m]
<1>1. m \in Nat /\ n \in Nat /\ n + m = WordBits /\ m + n = WordBits
  BY WordBitsAssumption
<1>2. s \subseteq Bit /\ \A b \in Bit : b \in s <=> b + n \in e
  BY DEF ShiftRight
<1>3. e \subseteq Bit
  BY DEF Word
<1> HIDE DEF m, s
<1>4. LowBits(e)[WordBits] = LowBits(e)[n] + Pow2[n] * q
  BY <1>1, SplitAt
<1>5. LowBits(s)[WordBits] = LowBits(s)[m] + Pow2[m] * LowBits(Upper(s, m))[n]
  BY <1>1, SplitAt
<1>6. LowBits(Upper(s, m))[n] = 0
  <2>1. ASSUME NEW b \in 0 .. n - 1, b \in Upper(s, m) PROVE FALSE
    <3>1. b + m \in s
      BY <2>1 DEF Upper
    <3>2. b + m + n \in Bit
      BY <1>2, <1>3, <3>1
    <3> QED BY <1>1, <3>2 DEF Bit
  <2> QED BY <1>1, <2>1, NoBits
<1>7. LowBits(s)[m] = q
  <2>1. ASSUME NEW b \in 0 .. m - 1 PROVE b \in s <=> b \in Upper(e, n)
    <3>1. b \in Bit /\ b \in Nat
      BY <1>1 DEF Bit
    <3> QED BY <1>2, <3>1 DEF Upper
  <2> QED BY <1>1, <2>1, SameBits
<1>8. /\ q \in Nat /\ Pow2[n] \in Nat \ {0} /\ Pow2[m] \in Nat
      /\ LowBits(e)[n] \in 0 .. Pow2[n] - 1
  BY <1>1, LowBitsIs, PowPositive, LowBounded
<1> HIDE DEF q
<1>9. Number(s) = q
  BY <1>5, <1>6, <1>7, <1>8 DEF Number
<1>10. Number(e) \div Pow2[n] = q
  <2>1. Number(e) = Pow2[n] * q + LowBits(e)[n]
    BY <1>4, <1>8 DEF Number
  <2> QED BY <1>8, <2>1, DivMod
<1> QED BY <1>9, <1>10 DEF s

(* A shift to the left multiplies, and drops what leaves the word.         *)
LEMMA LeftShift ==
    ASSUME NEW e \in Word, NEW n \in 1 .. WordBits - 1
    PROVE  Number(ShiftLeft(e, n)) = (Number(e) * Pow2[n]) % Pow2[WordBits]
<1> DEFINE m == WordBits - n
           s == ShiftLeft(e, n)
           x == LowBits(e)[m]
           y == LowBits(Upper(e, m))[n]
           p == Pow2[n]
           r == Pow2[m]
<1>1. m \in Nat /\ n \in Nat /\ n + m = WordBits /\ m + n = WordBits
  BY WordBitsAssumption
<1>2. \A b \in Bit : b \in s <=> b - n \in e
  BY DEF ShiftLeft
<1>3. e \subseteq Bit /\ s \subseteq Bit
  BY DEF Word, ShiftLeft
<1> HIDE DEF m, s
<1>4. LowBits(s)[WordBits] = LowBits(s)[n] + p * LowBits(Upper(s, n))[m]
  BY <1>1, SplitAt
<1>5. LowBits(s)[n] = 0
  <2>1. ASSUME NEW b \in 0 .. n - 1, b \in s PROVE FALSE
    <3>1. b - n \in Bit
      BY <1>2, <1>3, <2>1
    <3> QED BY <3>1 DEF Bit
  <2> QED BY <1>1, <2>1, NoBits
<1>6. LowBits(Upper(s, n))[m] = x
  <2>1. ASSUME NEW b \in 0 .. m - 1 PROVE b \in Upper(s, n) <=> b \in e
    <3>1. b + n \in Bit /\ b \in Nat /\ b + n - n = b
      BY <1>1 DEF Bit
    <3>2. b + n \in s <=> b \in e
      BY <1>2, <3>1
    <3> QED BY <3>1, <3>2 DEF Upper
  <2> QED BY <1>1, <2>1, SameBits
<1>7. LowBits(e)[WordBits] = x + r * y
  BY <1>1, SplitAt
<1>8. Pow2[WordBits] = p * r
  BY <1>1, PowAdds
<1>9. /\ x \in 0 .. r - 1 /\ y \in Nat /\ p \in Nat \ {0} /\ r \in Nat \ {0}
  BY <1>1, LowBitsIs, PowPositive, LowBounded
<1> HIDE DEF x, y, p, r
<1>10. Number(s) = p * x
  BY <1>4, <1>5, <1>6, <1>9 DEF Number
<1>11. (Number(e) * p) % Pow2[WordBits] = p * x
  <2>1. p * x \in 0 .. p * r - 1
    <3>1. x + 1 <= r /\ x \in Nat
      BY <1>9
    <3>2. p * (x + 1) <= p * r
      BY <1>9, <3>1
    <3>3. p * (x + 1) = p * x + p /\ p * x \in Nat /\ p * r \in Nat
      BY <1>9, <3>1
    <3> QED BY <1>9, <3>2, <3>3
  <2>2. p * r \in Nat \ {0}
    BY <1>9
  <2>3. Number(e) * p = (p * r) * y + p * x
    <3>1. Number(e) = x + r * y
      BY <1>7 DEF Number
    <3>2. x \in Nat
      BY <1>9
    <3>3. (x + r * y) * p = (p * r) * y + p * x
      BY <1>9, <3>2
    <3> QED BY <3>1, <3>3
  <2>4. ((p * r) * y + p * x) % (p * r) = p * x
    BY <1>9, <2>1, <2>2, DivMod
  <2> QED BY <1>8, <2>3, <2>4
<1> QED BY <1>10, <1>11 DEF s, p

---------------------------------------------------------------------------
(* The shift register selects the side and the amount of the shift, by its *)
(* two's complement, for all its values but the lowest.                    *)
LEMMA FieldShift ==
    ASSUME NEW c \in PipeConfig, NEW e \in Word, NEW i \in 1 .. NumFields,
           c.mpSft[i] # LowestShift
    PROVE  Number(Field(c, e, i)) = DocField(c, e, i)
<1> DEFINE x == e \cap c.mpMsk[i]
           sft == c.mpSft[i]
<1>1. WordBits \in Nat \ {0} /\ sft \in 0 .. 2 * WordBits - 1 /\ sft # WordBits
  BY WordBitsAssumption DEF PipeConfig, ShiftReg, LowestShift
<1>2. x \in Word
  BY DEF Word
<1>3. DocField(c, e, i) = IF SignedShift(sft) < 0
                          THEN (Number(x) * Pow2[- SignedShift(sft)]) % Pow2[WordBits]
                          ELSE Number(x) \div Pow2[SignedShift(sft)]
  BY DEF DocField
<1>4. Field(c, e, i) = IF IsNegative(sft) THEN ShiftLeft(x, LeftAmount(sft))
                                          ELSE ShiftRight(x, sft)
  BY DEF Field
<1> HIDE DEF x, sft
<1>5. CASE sft >= WordBits
  <2> DEFINE n == 2 * WordBits - sft
  <2>1. n \in 1 .. WordBits - 1 /\ SignedShift(sft) = - n /\ - n < 0 /\ - (- n) = n
    BY <1>1, <1>5 DEF SignedShift
  <2>2. LeftAmount(sft) = n
    <3>1. sft - WordBits \in 0 .. WordBits - 1 /\ sft = WordBits * 1 + (sft - WordBits)
      BY <1>1, <1>5
    <3>2. (WordBits * 1 + (sft - WordBits)) % WordBits = sft - WordBits
      BY <1>1, <3>1, DivMod
    <3>3. sft % WordBits = sft - WordBits
      BY <3>1, <3>2
    <3>4. WordBits - (sft - WordBits) = WordBits * 0 + n /\ n \in 0 .. WordBits - 1
      BY <1>1, <2>1
    <3>5. (WordBits * 0 + n) % WordBits = n
      <4> HIDE DEF n
      <4> QED BY <1>1, <3>4, DivMod
    <3> QED BY <3>3, <3>4, <3>5 DEF LeftAmount
  <2>3. IsNegative(sft)
    BY <1>5 DEF IsNegative
  <2> HIDE DEF n
  <2>4. Number(ShiftLeft(x, n)) = (Number(x) * Pow2[n]) % Pow2[WordBits]
    BY <1>2, <2>1, LeftShift
  <2>5. Field(c, e, i) = ShiftLeft(x, n)
    BY <1>4, <2>2, <2>3
  <2>6. DocField(c, e, i) = (Number(x) * Pow2[n]) % Pow2[WordBits]
    BY <1>3, <2>1
  <2> QED BY <2>4, <2>5, <2>6, Zenon
<1>6. CASE ~ (sft >= WordBits)
  <2>1. sft \in 0 .. WordBits - 1 /\ SignedShift(sft) = sft /\ ~ (sft < 0)
    BY <1>1, <1>6 DEF SignedShift
  <2>2. ~ IsNegative(sft)
    BY <1>6 DEF IsNegative
  <2>3. Number(ShiftRight(x, sft)) = Number(x) \div Pow2[sft]
    BY <1>2, <2>1, RightShift
  <2>4. Field(c, e, i) = ShiftRight(x, sft)
    BY <1>4, <2>2
  <2>5. DocField(c, e, i) = Number(x) \div Pow2[sft]
    BY <1>3, <2>1
  <2> QED BY <2>3, <2>4, <2>5, Zenon
<1> QED BY <1>5, <1>6

(* The word with the highest bit in which they differ is the greater one.  *)
LEMMA ExceedingIsGreater ==
    ASSUME NEW a \in Word, NEW b \in Word, Exceeds(a, b)
    PROVE  Number(a) > Number(b)
<1>1. PICK i \in a \ b : \A j \in b \ a : j < i
  BY DEF Exceeds
<1> DEFINE m == WordBits - (i + 1)
           n == i + 1
           p == Pow2[i]
           xa == LowBits(Upper(a, n))[m]
           xb == LowBits(Upper(b, n))[m]
<1>2. /\ i \in Nat /\ i < WordBits /\ WordBits \in Nat
      /\ a \subseteq 0 .. WordBits - 1
      /\ b \subseteq 0 .. WordBits - 1
  BY <1>1, WordIs
<1>3. m \in Nat /\ n \in Nat /\ n + m = WordBits
  BY <1>2
<1>4. /\ LowBits(a)[WordBits] = LowBits(a)[n] + Pow2[n] * xa
      /\ LowBits(b)[WordBits] = LowBits(b)[n] + Pow2[n] * xb
  <2> HIDE DEF m, n
  <2> QED BY <1>3, SplitAt
<1>5. xb <= xa
  <2>1. ASSUME NEW k \in 0 .. m - 1, k \in Upper(b, n) PROVE k \in Upper(a, n)
    <3>1. k \in Nat /\ k + n \in b /\ ~ (k + n < i)
      BY <1>2, <1>3, <2>1 DEF Upper
    <3>2. k + n \in a
      BY <1>1, <3>1
    <3> QED BY <3>1, <3>2 DEF Upper
  <2> HIDE DEF m, n
  <2> QED BY <1>3, <2>1, Monotone
<1>6. /\ LowBits(a)[n] = LowBits(a)[i] + p
      /\ LowBits(b)[n] = LowBits(b)[i]
  <2>1. LowBits(a)[n] = LowBits(a)[i] + (IF i \in a THEN p ELSE 0)
    BY <1>2, LowBitsIs
  <2>2. LowBits(b)[n] = LowBits(b)[i] + (IF i \in b THEN p ELSE 0)
    BY <1>2, LowBitsIs
  <2>3. LowBits(b)[i] \in Nat
    BY <1>2, LowBitsIs
  <2>4. LowBits(b)[n] = LowBits(b)[i] + 0
    BY <1>1, <2>2
  <2> QED BY <1>1, <2>1, <2>3, <2>4
<1>7. /\ LowBits(a)[i] \in Nat /\ LowBits(b)[i] \in 0 .. p - 1
      /\ p \in Nat /\ xa \in Nat /\ xb \in Nat /\ Pow2[n] \in Nat
  BY <1>2, <1>3, LowBitsIs, Pow2Is, LowBounded
<1>8. Pow2[n] * xb <= Pow2[n] * xa /\ Pow2[n] * xa \in Nat /\ Pow2[n] * xb \in Nat
  <2> HIDE DEF n, xa, xb
  <2> QED BY <1>5, <1>7
<1> HIDE DEF m, n, p, xa, xb
<1> QED BY <1>4, <1>6, <1>7, <1>8 DEF Number

(* Of two words that differ one exceeds the other.                         *)
LEMMA OneExceeds ==
    ASSUME NEW a \in Word, NEW b \in Word, a # b
    PROVE  Exceeds(a, b) \/ Exceeds(b, a)
<1> DEFINE D == (a \ b) \cup (b \ a)
           T == {n \in Nat : WordBits - n \in D}
<1>1. WordBits \in Nat /\ a \subseteq 0 .. WordBits - 1 /\ b \subseteq 0 .. WordBits - 1
  BY WordIs
<1>2. T # {} /\ T \subseteq Nat
  <2>1. PICK d : d \in D
    OBVIOUS
  <2>2. d \in 0 .. WordBits - 1
    BY <1>1, <2>1
  <2>3. WordBits - d \in Nat /\ WordBits - (WordBits - d) = d
    BY <1>1, <2>2
  <2>4. WordBits - d \in T
    BY <2>1, <2>3
  <2> QED BY <2>4
<1>3. PICK n \in T : \A k \in T : n <= k
  <2> HIDE DEF T
  <2> QED BY <1>2, Least
<1> DEFINE i == WordBits - n
<1>4. i \in D /\ \A j \in D : j <= i
  <2>1. ASSUME NEW j \in D PROVE j <= i
    <3>1. j \in 0 .. WordBits - 1
      BY <1>1
    <3>2. WordBits - j \in Nat /\ WordBits - (WordBits - j) = j
      BY <1>1, <3>1
    <3>3. WordBits - j \in T
      BY <3>2
    <3>4. n <= WordBits - j
      BY <1>3, <3>3
    <3>5. n \in Nat
      OBVIOUS
    <3> QED BY <1>1, <3>1, <3>4, <3>5
  <2> QED BY <2>1
<1> HIDE DEF i
<1>5. D \subseteq Nat
  BY <1>1
<1>6. CASE i \in a \ b
  <2>1. ASSUME NEW j \in b \ a PROVE j < i
    BY <1>4, <1>5, <1>6
  <2> QED BY <1>6, <2>1 DEF Exceeds
<1>7. CASE i \in b \ a
  <2>1. ASSUME NEW j \in a \ b PROVE j < i
    BY <1>4, <1>5, <1>7
  <2> QED BY <1>7, <2>1 DEF Exceeds
<1> QED BY <1>4, <1>6, <1>7

(* Words are equal, and greater, as the numbers are.                       *)
LEMMA NumbersCompare ==
    ASSUME NEW a \in Word, NEW b \in Word
    PROVE  (Exceeds(a, b) <=> Number(a) > Number(b)) /\ (a = b <=> Number(a) = Number(b))
<1>1. Number(a) \in Nat /\ Number(b) \in Nat
  BY WordIs
<1>2. Exceeds(a, b) => Number(a) > Number(b)
  BY ExceedingIsGreater
<1>3. Exceeds(b, a) => Number(b) > Number(a)
  BY ExceedingIsGreater
<1>4. a = b \/ Exceeds(a, b) \/ Exceeds(b, a)
  BY OneExceeds
<1> QED BY <1>1, <1>2, <1>3, <1>4

MapperInv == config \in PipeConfig /\ event \in Word

LEMMA MapperAlways == MapperSpec => []MapperInv
<1>1. MapperInit => MapperInv
  BY MapperConfigsAssumption DEF MapperInit, MapperInv
<1>2. MapperInv /\ [NextEvent]_mapperVars => MapperInv'
  BY DEF MapperInv, NextEvent, mapperVars
<1> QED BY <1>1, <1>2, PTL DEF MapperSpec

(* A field is the masked event shifted as the documented algorithm says,   *)
(* for words of any width, every mask and every shift but the lowest       *)
(* (pkt_assembler.sv:96-104).                                              *)
THEOREM FieldsAreShifted == MapperSpec => []FieldsAreArithmeticShifts
<1>1. MapperInv => FieldsAreArithmeticShifts
  BY FieldShift DEF MapperInv, FieldsAreArithmeticShifts
<1> QED BY <1>1, MapperAlways, PTL

(* The filters and the limits drop the events that the documented          *)
(* algorithms drop, and no others (pkt_assembler.sv:73, 88, 107).          *)
THEOREM DropsAreDocumented == MapperSpec => []DroppedAsDocumented
<1>1. MapperInv => DroppedAsDocumented
  <2> SUFFICES ASSUME MapperInv,
                      \A i \in 1 .. NumFields : config.mpSft[i] # LowestShift
               PROVE  Wanted(config, event) <=> ~ DocDropped(config, event)
    BY DEF DroppedAsDocumented
  <2>1. config \in PipeConfig /\ event \in Word
    BY DEF MapperInv
  <2>2. ASSUME NEW i \in 1 .. NumFilters
        PROVE  config.flVal[i] = event \cap config.flMsk[i]
                 <=> Number(event \cap config.flMsk[i]) = Number(config.flVal[i])
    <3>1. config.flVal[i] \in Word
      BY <2>1 DEF PipeConfig
    <3>2. event \cap config.flMsk[i] \in Word
      BY <2>1 DEF Word
    <3> QED BY <3>1, <3>2, NumbersCompare
  <2>3. ASSUME NEW i \in 1 .. NumFields
        PROVE  Exceeds(Field(config, event, i), config.mpLmt[i])
                 <=> DocField(config, event, i) > Number(config.mpLmt[i])
    <3>1. config.mpLmt[i] \in Word
      BY <2>1 DEF PipeConfig
    <3>2. Field(config, event, i) \in Word
      BY DEF Field, ShiftLeft, ShiftRight, Word
    <3>3. Number(Field(config, event, i)) = DocField(config, event, i)
      BY <2>1, FieldShift
    <3> QED BY <3>1, <3>2, <3>3, NumbersCompare
  <2> QED BY <2>2, <2>3 DEF Wanted, Filtered, OffLimits, DocDropped
<1> QED BY <1>1, MapperAlways, PTL

============================================================================
