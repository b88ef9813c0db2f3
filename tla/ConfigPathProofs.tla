--------------------------- MODULE ConfigPathProofs ---------------------------
(***************************************************************************)
(* Proofs about the two ports of the register bank, whatever the program   *)
(* and the host send: what the host reads is current, and what it writes   *)
(* is lost only when packets crowd it out of every cycle of its transfer.  *)
(*                                                                         *)
(* And proofs about the configuration of spif by a program: the calls of   *)
(* the program write every register that is to differ from its default,    *)
(* each with what is asked for, and the receiver and the bank do what they *)
(* ask, whatever the host does meanwhile to other registers.               *)
(***************************************************************************)
EXTENDS ConfigPath, TLAPS

(* In the second cycle of a read, and in those a conflict adds, the data   *)
(* register holds what the register had one cycle before.                  *)
ReadBehind == penable => psel /\ (~ req.wr => prdata \in seen)

(* A write that no cycle has done so far met a packet in every one.        *)
Overtaken == missed \in BOOLEAN /\ crowded \in BOOLEAN /\ (missed => crowded)

IInv == ReadBehind /\ Overtaken

---------------------------------------------------------------------------
(* Without a packet in its cycle a write is done in that cycle.            *)
LEMMA LandsAlone ==
    ASSUME NEW prx, apb_write, ~ prx.en
    PROVE  Lands(prx)
<1>1. ASSUME ~ IsSoftReset(prx), req.addr \in RegAddrs
      PROVE  Bank(prx)[req.addr] = Fit(req.addr, req.data)
  <2>1. Bank(prx) = Written(req.addr, req.data)
    BY <1>1 DEF Bank, apb_write
  <2> QED BY <1>1, <2>1 DEF Written
<1>2. ASSUME req.addr \in CtrAddrs
      PROVE  Count(req.addr - CtrAddr(0), prx, {}) = req.data
  <2>1. PICK i \in Counters : req.addr = CtrAddr(i)
    BY <1>2 DEF CtrAddrs
  <2>2. req.addr - CtrAddr(0) = i /\ i \in Int
    BY <2>1 DEF CtrAddr, Address, DCCNT, Counters
  <2>3. Count(i, prx, {}) = req.data
    BY <2>1 DEF Count
  <2> QED BY <2>2, <2>3
<1> QED BY <1>1, <1>2 DEF Lands

LEMMA InitEstablishes == Init => IInv
  BY DEF Init, BankInit, IInv, ReadBehind, Overtaken

LEMMA StepPreserves == IInv /\ [Next]_vars => IInv'
<1> SUFFICES ASSUME ReadBehind, Overtaken, [Next]_vars PROVE IInv'
  BY DEF IInv
<1>1. ASSUME NEW prx, NEW counted, BankClock(prx, counted) PROVE IInv'
  <2>1. BankClock(prx, counted)
    BY <1>1
  <2>2. ReadBehind'
    <3> SUFFICES ASSUME penable' PROVE psel' /\ (~ req'.wr => prdata' \in seen')
      BY DEF ReadBehind
    <3>1. psel /\ ~ ApbEnds /\ UNCHANGED <<psel, req>>
      BY <2>1 DEF BankClock, Master
    <3>2. CASE ~ req.wr
      <4>1. apb_read
        BY <3>1, <3>2 DEF apb_read
      <4>2. prdata' = ReadValue(req.addr) /\ seen' = seen \cup {ReadValue(req.addr)}
        BY <2>1, <3>1, <4>1 DEF BankClock, PRData, Remember
      <4> QED BY <3>1, <4>2
    <3> QED BY <3>1, <3>2
  <2>3. Overtaken'
    <3>1. CASE apb_write /\ ~ ApbEnds
      <4>1. missed' = (missed /\ ~ Lands(prx)) /\ crowded' = (crowded /\ prx.en)
        BY <2>1, <3>1 DEF BankClock, Remember
      <4>2. ~ prx.en => Lands(prx)
        BY <3>1, LandsAlone
      <4> QED BY <4>1, <4>2, Zenon DEF Overtaken
    <3>2. CASE ~ (apb_write /\ ~ ApbEnds)
      <4>1. missed' = TRUE /\ crowded' = TRUE
        BY <2>1, <3>2 DEF BankClock, Remember
      <4> QED BY <4>1 DEF Overtaken
    <3> QED BY <3>1, <3>2
  <2> QED BY <2>2, <2>3 DEF IInv
<1>2. CASE Clock
  <2>1. PICK counted : BankClock(Prx, counted)
    BY <1>2 DEF Clock
  <2> QED BY <1>1, <2>1
<1>3. CASE Reset
  <2>1. CASE BankReset
    BY <2>1 DEF BankReset, IInv, ReadBehind, Overtaken
  <2>2. ASSUME NEW counted, BankClock(NoPacket, counted) PROVE IInv'
    BY <1>1, <2>2
  <2> QED BY <1>3, <2>1, <2>2 DEF Reset
<1>4. CASE UNCHANGED vars
  BY <1>4 DEF vars, bankVars, registers, master, history, IInv, ReadBehind, Overtaken
<1> QED BY <1>2, <1>3, <1>4 DEF Next

LEMMA Always == Spec => []IInv
  BY InitEstablishes, StepPreserves, PTL DEF Spec

---------------------------------------------------------------------------
(* A read of the host returns a value that the register had during the     *)
(* transfer, however the conflicts with packets stretch it                 *)
(* (ApbReadIsCurrent).                                                     *)
THEOREM ReadsAreCurrent == Spec => []ApbReadIsCurrent
<1>1. IInv => ApbReadIsCurrent
  BY DEF IInv, ReadBehind, ApbReadIsCurrent, ApbEnds
<1> QED BY Always, <1>1, PTL

(* A write of the host takes effect unless a packet is written in every    *)
(* cycle of its transfer (ApbWriteLandsUnlessCrowded).                     *)
THEOREM WritesLandUnlessCrowded == Spec => []ApbWriteLandsUnlessCrowded
<1>1. IInv => ApbWriteLandsUnlessCrowded
  <2> SUFFICES ASSUME IInv, LostNow(Prx) PROVE crowded /\ Prx.en
    BY DEF ApbWriteLandsUnlessCrowded
  <2>1. apb_write /\ missed /\ ~ Lands(Prx)
    BY DEF LostNow, ApbEnds, apb_write
  <2>2. crowded
    BY <2>1 DEF IInv, Overtaken
  <2>3. Prx.en
    BY <2>1, LandsAlone
  <2> QED BY <2>2, <2>3
<1> QED BY Always, <1>1, PTL

---------------------------------------------------------------------------
(* Division, for numbers of registers that are not constants *)

LEMMA Larger == ASSUME NEW w \in Nat \ {0}, NEW d \in Int, d >= 1 PROVE w * d >= w
  OBVIOUS

LEMMA OnlyZero ==
    ASSUME NEW w \in Nat \ {0}, NEW d \in Int, w * d < w, - w < w * d PROVE d = 0
<1>1. CASE d >= 1
  BY <1>1, Larger
<1>2. CASE d <= -1
  <2>1. w * (- d) >= w
    BY <1>2, Larger
  <2>2. w * (- d) = - (w * d)
    OBVIOUS
  <2> QED BY <2>1, <2>2
<1> QED BY <1>1, <1>2

LEMMA DivMod ==
    ASSUME NEW w \in Nat \ {0}, NEW p \in Nat, NEW k \in 0 .. w - 1
    PROVE  (w * p + k) \div w = p /\ (w * p + k) % w = k
<1> DEFINE n == w * p + k
           q == n \div w
           r == n % w
<1>1. n \in Nat /\ k \in Nat
  OBVIOUS
<1>2. q \in Int /\ r \in 0 .. w - 1 /\ n = w * q + r
  BY <1>1
<1>3. w * (q - p) = k - r
  <2>1. w * (q - p) = w * q - w * p
    BY <1>2
  <2>2. n = w * p + k /\ w * q \in Int /\ w * p \in Int
    BY <1>2
  <2> HIDE DEF n, q, r
  <2> QED BY <1>1, <1>2, <2>1, <2>2
<1>4. q - p = 0
  BY <1>1, <1>2, <1>3, OnlyZero
<1>5. q = p
  BY <1>2, <1>4
<1>6. r = k
  BY <1>1, <1>2, <1>3, <1>5
<1> QED BY <1>5, <1>6

(* The turn of a loop, and the call in it.                                 *)
LEMMA TurnOf ==
    ASSUME NEW w \in Nat \ {0}, NEW m \in Nat, NEW n \in 1 .. w * m
    PROVE  /\ (n - 1) \div w \in 0 .. m - 1 /\ (n - 1) % w \in 0 .. w - 1
           /\ n = w * ((n - 1) \div w) + ((n - 1) % w) + 1
<1> DEFINE q == (n - 1) \div w
           r == (n - 1) % w
<1>1. n \in Int /\ w * m \in Int /\ n - 1 >= 0 /\ n <= w * m
  OBVIOUS
<1>2. q \in Nat /\ r \in 0 .. w - 1 /\ n - 1 = w * q + r
  BY <1>1
<1>3. q < m
  <2>1. CASE q >= m
    <3>1. w * q >= w * m
      BY <1>2, <2>1
    <3> HIDE DEF q, r
    <3> QED BY <1>1, <1>2, <3>1
  <2> QED BY <1>2, <2>1
<1> HIDE DEF q, r
<1>4. n = w * q + r + 1
  BY <1>1, <1>2
<1> QED BY <1>2, <1>3, <1>4 DEF q, r

(* And back: each call of each turn is made.                               *)
LEMMA CallMade ==
    ASSUME NEW w \in Nat \ {0}, NEW m \in Nat, NEW p \in 0 .. m - 1, NEW k \in 0 .. w - 1
    PROVE  /\ w * p + k + 1 \in 1 .. w * m
           /\ (w * p + k + 1 - 1) \div w = p /\ (w * p + k + 1 - 1) % w = k
<1>1. w * p \in Nat /\ w * p + w <= w * m
  <2>1. w * (p + 1) <= w * m
    OBVIOUS
  <2>2. w * (p + 1) = w * p + w
    OBVIOUS
  <2> QED BY <2>1, <2>2
<1>2. w * p + k + 1 - 1 = w * p + k
  BY <1>1
<1> QED BY <1>1, <1>2, DivMod

---------------------------------------------------------------------------
(* What the program asks for *)

LEMMA Sections ==
    ASSUME NEW s \in Nat, NEW r \in 0 .. 15
    PROVE  Sec(16 * s + r) = s /\ (16 * s + r) % 16 = r
<1>1. 16 \in Nat \ {0} /\ r \in 0 .. 16 - 1
  OBVIOUS
<1>2. (16 * s + r) \div 16 = s /\ (16 * s + r) % 16 = r
  BY <1>1, DivMod, Zenon
<1> QED BY <1>2 DEF Sec

LEMMA AskedIs ==
    ASSUME NEW s \in 0 .. 15, NEW r \in 0 .. 15
    PROVE  LET a == 16 * s + r IN
           /\ s \in {1, 3} /\ r < Entries => Asked(a) = Fit(a, r)
           /\ s = 2 /\ r < Entries => Asked(a) = RoutingMask
           /\ s = 5 => Asked(a) = MprKey
           /\ s = 6 => Asked(a) = FieldMask[r % NumMp]
           /\ s = 7 => Asked(a) = Fit(a, FieldShift[r % NumMp])
           /\ s = 9 /\ r = NumFl * FilteredPipe => Asked(a) = FilterValue
           /\ s = 11 /\ r = NumFl * FilteredPipe => Asked(a) = FilterMask
           /\ s = 0 /\ r = 3 => Asked(a) = DropWait
           /\ \/ s \in {1, 2, 3} /\ r < Entries
              \/ s \in {5, 6, 7}
              \/ s \in {9, 11} /\ r = NumFl * FilteredPipe
              \/ s = 0 /\ r = 3
              \/ Asked(a) = Default(a)
<1>1. Sec(16 * s + r) = s /\ (16 * s + r) % 16 = r
  <2>1. s \in Nat
    OBVIOUS
  <2> QED BY <2>1, Sections, Zenon
<1>2. 16 * s + r = SPIF_IN_DROP_WAIT <=> s = 0 /\ r = 3
  BY DEF SPIF_IN_DROP_WAIT
<1> QED
  BY <1>1, <1>2
  DEF Asked, RTKEY, RTMSK, RTRTE, MPKEY, MPMSK, MPSFT, FLVAL, FLMSK

---------------------------------------------------------------------------
(* The packets of the program                                              *)

Packet == [vld : BOOLEAN, cfg : BOOLEAN, pld : BOOLEAN, addr : Nat, data : Nat]

(* A packet that sets a register as asked, or a counter. *)
Sets(p) ==
    /\ p \in Packet /\ p.vld /\ p.cfg /\ p.pld
    /\ p.addr # SOFT_RES
    /\ p.addr \in RegAddrs => Fit(p.addr, p.data) = Asked(p.addr)

AllSet(s)    == s \in Seq(Packet) /\ \A i \in 1 .. Len(s) : Sets(s[i])
Writes(s, a) == \E i \in 1 .. Len(s) : s[i].addr = a

(* A soft reset and packets that set registers after it. *)
Opened(s) ==
    /\ s \in Seq(Packet) /\ Len(s) >= 1
    /\ s[1] = spif_soft_reset
    /\ \A i \in 2 .. Len(s) : Sets(s[i])

LEMMA MoreOpened ==
    ASSUME NEW s, NEW t, Opened(s), AllSet(t)
    PROVE  Opened(s \o t)
<1>1. s \in Seq(Packet) /\ t \in Seq(Packet) /\ Len(s) \in Nat /\ Len(t) \in Nat
  BY DEF Opened, AllSet
<1>2. s \o t \in Seq(Packet) /\ Len(s \o t) = Len(s) + Len(t)
  BY <1>1
<1>3. ASSUME NEW i \in 1 .. Len(s) + Len(t)
      PROVE  (s \o t)[i] = IF i <= Len(s) THEN s[i] ELSE t[i - Len(s)]
  BY <1>1
<1>4. (s \o t)[1] = spif_soft_reset
  BY <1>1, <1>3 DEF Opened
<1>5. ASSUME NEW i \in 2 .. Len(s \o t) PROVE Sets((s \o t)[i])
  <2>1. CASE i <= Len(s)
    BY <1>1, <1>2, <1>3, <2>1 DEF Opened
  <2>2. CASE i > Len(s)
    <3>1. i - Len(s) \in 1 .. Len(t)
      BY <1>1, <1>2, <2>2
    <3>2. (s \o t)[i] = t[i - Len(s)]
      BY <1>1, <1>2, <1>3, <2>2
    <3> QED BY <3>1, <3>2 DEF AllSet
  <2> QED BY <1>1, <2>1, <2>2
<1>6. Len(s \o t) >= 1
  BY <1>1, <1>2 DEF Opened
<1> QED BY <1>2, <1>4, <1>5, <1>6 DEF Opened

LEMMA MoreWritten ==
    ASSUME NEW s \in Seq(Packet), NEW t \in Seq(Packet), NEW a, Writes(s, a) \/ Writes(t, a)
    PROVE  Writes(s \o t, a)
<1>1. Len(s) \in Nat /\ Len(t) \in Nat /\ Len(s \o t) = Len(s) + Len(t)
  OBVIOUS
<1>2. CASE Writes(s, a)
  <2>1. PICK i \in 1 .. Len(s) : s[i].addr = a
    BY <1>2 DEF Writes
  <2>2. (s \o t)[i] = s[i] /\ i \in 1 .. Len(s \o t)
    BY <1>1
  <2> QED BY <2>1, <2>2 DEF Writes
<1>3. CASE Writes(t, a)
  <2>1. PICK i \in 1 .. Len(t) : t[i].addr = a
    BY <1>3 DEF Writes
  <2>2. (s \o t)[Len(s) + i] = t[i] /\ Len(s) + i \in 1 .. Len(s \o t)
    BY <1>1
  <2> QED BY <2>1, <2>2 DEF Writes
<1> QED BY <1>2, <1>3

---------------------------------------------------------------------------
(* The registers                                                           *)

LEMMA Places ==
    ASSUME NEW a \in RegAddrs
    PROVE  \/ a \in IfRegs
           \/ \E s \in 1 .. 15, r \in 0 .. 15 :
                 /\ a = 16 * s + r /\ s # 4
                 /\ s \in {1, 2, 3} => r < NumRt
                 /\ s = 5 => r < NumPipes
                 /\ s \in {6, 7} => r < NumMp * NumPipes
<1>1. /\ NumPipes \in 1 .. 16 /\ NumRt \in 0 .. 16 /\ NumDs \in 0 .. 16
      /\ NumMp * NumPipes \in 0 .. 16 /\ NumFl * NumPipes \in 0 .. 16
  <2>1. NumPipes \in 1 .. 16 /\ NumMp \in Nat /\ NumFl \in Nat
    BY BankAssumption
  <2>2. NumMp * NumPipes \in Nat /\ NumFl * NumPipes \in Nat
    BY <2>1
  <2> QED BY <2>2, BankAssumption
<1> DEFINE In(s, num) == \E r \in 0 .. num - 1 : a = 16 * s + r
<1>2. \/ a \in IfRegs
      \/ \E s \in {1, 2, 3} : In(s, NumRt)
      \/ In(5, NumPipes)
      \/ \E s \in {6, 7, 8} : In(s, NumMp * NumPipes)
      \/ \E s \in {9, 11} : In(s, NumFl * NumPipes)
      \/ \E s \in {13, 14, 15} : In(s, NumDs)
  BY DEF RegAddrs, Addresses, Address, RTKEY, RTMSK, RTRTE, MPKEY, MPMSK, MPSFT, MPLMT,
         FLVAL, FLMSK, DSKEY, DSMSK, DSSFT
<1>3. ASSUME NEW num \in 0 .. 16, NEW s \in 1 .. 15, In(s, num)
      PROVE  \E r \in 0 .. 15 : r < num /\ a = 16 * s + r
  <2>1. PICK r \in 0 .. num - 1 : a = 16 * s + r
    BY <1>3
  <2> QED BY <2>1
<1> HIDE DEF In
<1>4. CASE a \in IfRegs
  BY <1>4
<1>5. CASE \E s \in {1, 2, 3} : In(s, NumRt)
  BY <1>1, <1>3, <1>5
<1>6. CASE In(5, NumPipes)
  <2>1. \E r \in 0 .. 15 : r < NumPipes /\ a = 16 * 5 + r
    BY <1>1, <1>3, <1>6
  <2> QED BY <2>1
<1>7. CASE \E s \in {6, 7, 8} : In(s, NumMp * NumPipes)
  BY <1>1, <1>3, <1>7
<1>8. CASE \E s \in {9, 11} : In(s, NumFl * NumPipes)
  BY <1>1, <1>3, <1>8
<1>9. CASE \E s \in {13, 14, 15} : In(s, NumDs)
  BY <1>1, <1>3, <1>9
<1> QED BY <1>2, <1>4, <1>5, <1>6, <1>7, <1>8, <1>9

LEMMA CountersApart ==
    /\ \A i \in 0 .. 15 : 64 + i \notin RegAddrs
    /\ SOFT_RES \notin RegAddrs
<1>1. ASSUME NEW a \in RegAddrs PROVE a # 1 /\ \A i \in 0 .. 15 : a # 64 + i
  <2>1. CASE a \in IfRegs
    BY <2>1 DEF IfRegs
  <2>2. ASSUME NEW s \in 1 .. 15, NEW r \in 0 .. 15, a = 16 * s + r, s # 4
        PROVE a # 1 /\ \A i \in 0 .. 15 : a # 64 + i
    BY <2>2
  <2> QED BY <2>1, <2>2, Places
<1> QED BY <1>1 DEF SOFT_RES

LEMMA Fits ==
    ASSUME NEW s \in 0 .. 15, NEW r \in 0 .. 15, NEW v, s \notin {3, 7, 15}
    PROVE  Fit(16 * s + r, v) = v
<1>1. Sec(16 * s + r) = s
  <2>1. s \in Nat
    OBVIOUS
  <2> QED BY <2>1, Sections, Zenon
<1> QED BY <1>1 DEF Fit, RTRTE, MPSFT, DSSFT

---------------------------------------------------------------------------
(* What each call of the program sets                                      *)

LEMMA SetsOne ==
    ASSUME NEW reg \in Nat, NEW value \in Nat, reg # SOFT_RES,
           reg \in RegAddrs => Fit(reg, value) = Asked(reg)
    PROVE  Sets(RcfgWrite(reg, value)) /\ RcfgWrite(reg, value).addr = reg
  BY DEF Sets, RcfgWrite, Packet

LEMMA Numbers ==
    /\ NumPipes \in 1 .. 16 /\ Entries \in 0 .. 16
    /\ NumMp \in Nat \ {0} /\ NumFl \in Nat \ {0}
    /\ NumMp * NumPipes <= 16 /\ NumFl * NumPipes <= 16
    /\ MpRegsNum = NumMp /\ FlRegsNum = NumFl
  BY BankAssumption, ProgramAssumption

LEMMA Values ==
    /\ RoutingMask \in Nat /\ MprKey \in Nat /\ DropWait \in Nat
    /\ FilterValue \in Nat /\ FilterMask \in Nat
    /\ \A f \in 0 .. NumMp - 1 : FieldMask[f] \in Nat /\ FieldShift[f] \in Nat
<1>1. Word \subseteq Nat
  BY BankAssumption DEF Word, AllOnes
<1> QED BY <1>1, ProgramAssumption

LEMMA CountersSet ==
    /\ AllSet(spif_reset_counters)
<1>1. ASSUME NEW i \in 1 .. 5 PROVE Sets(RcfgWrite(64 + i - 1, 0))
  <2>1. 64 + i - 1 = 64 + (i - 1) /\ i - 1 \in 0 .. 15
    OBVIOUS
  <2>2. 64 + i - 1 \notin RegAddrs
    BY <2>1, CountersApart
  <2> QED BY <2>2, SetsOne DEF SOFT_RES
<1>2. spif_reset_counters = [i \in 1 .. 5 |-> RcfgWrite(64 + i - 1, 0)]
  BY DEF spif_reset_counters, SPIF_DCREGS_NUM, SPIF_COUNT_OUT_DROP
<1>3. ASSUME NEW i \in 1 .. 5 PROVE RcfgWrite(64 + i - 1, 0) \in Packet
  BY <1>1 DEF Sets
<1>4. spif_reset_counters \in Seq(Packet) /\ Len(spif_reset_counters) = 5
  BY <1>2, <1>3
<1> QED BY <1>1, <1>2, <1>4 DEF AllSet

LEMMA RoutingSet ==
    /\ AllSet(SetRouting(Entries, RoutingMask))
    /\ \A s \in {1, 2, 3}, r \in 0 .. Entries - 1 :
          Writes(SetRouting(Entries, RoutingMask), 16 * s + r)
<1> DEFINE R == SetRouting(Entries, RoutingMask)
           Call(i, k) == CASE k = 0 -> RcfgWrite(16 * 1 + i, i)
                           [] k = 1 -> RcfgWrite(16 * 2 + i, RoutingMask)
                           [] k = 2 -> RcfgWrite(16 * 3 + i, i)
<1>1. /\ R = [n \in 1 .. 3 * Entries |-> Call((n - 1) \div 3, (n - 1) % 3)]
      /\ Entries \in 0 .. 16
  BY Numbers
  DEF SetRouting, spif_set_routing_key, spif_set_routing_mask, spif_set_routing_route,
      SPIF_ROUTER_KEY, SPIF_ROUTER_MASK, SPIF_ROUTER_ROUTE
<1>2. ASSUME NEW i \in 0 .. Entries - 1, NEW k \in 0 .. 2
      PROVE  Sets(Call(i, k)) /\ Call(i, k).addr = 16 * (k + 1) + i
  <2>1. i \in 0 .. 15 /\ i < Entries /\ RoutingMask \in Nat
    <3>1. Entries \in 0 .. 16
      BY Numbers, Zenon
    <3>2. i \in 0 .. 15 /\ i < Entries
      BY <3>1
    <3> QED BY <3>2, Values, Zenon
  <2>2. CASE k = 0
    <3>1. Call(i, k) = RcfgWrite(16 * 1 + i, i)
      BY <2>2
    <3>2. Asked(16 * 1 + i) = Fit(16 * 1 + i, i)
      BY <2>1, AskedIs
    <3>3. Sets(RcfgWrite(16 * 1 + i, i)) /\ RcfgWrite(16 * 1 + i, i).addr = 16 * 1 + i
      <4>1. 16 * 1 + i \in Nat /\ i \in Nat /\ 16 * 1 + i # SOFT_RES
        BY <2>1 DEF SOFT_RES
      <4> QED BY <4>1, <3>2, SetsOne, Zenon
    <3> QED BY <2>2, <3>1, <3>3
  <2>3. CASE k = 1
    <3>1. Call(i, k) = RcfgWrite(16 * 2 + i, RoutingMask)
      BY <2>3
    <3>2. Asked(16 * 2 + i) = RoutingMask
      BY <2>1, AskedIs
    <3>3. /\ Sets(RcfgWrite(16 * 2 + i, RoutingMask))
          /\ RcfgWrite(16 * 2 + i, RoutingMask).addr = 16 * 2 + i
      <4>1. 16 * 2 + i \in Nat /\ 16 * 2 + i # SOFT_RES
        BY <2>1 DEF SOFT_RES
      <4>2. Fit(16 * 2 + i, RoutingMask) = RoutingMask
        BY <2>1, Fits
      <4> QED BY <2>1, <4>1, <4>2, <3>2, SetsOne, Zenon
    <3> QED BY <2>3, <3>1, <3>3
  <2>4. CASE k = 2
    <3>1. Call(i, k) = RcfgWrite(16 * 3 + i, i)
      BY <2>4
    <3>2. Asked(16 * 3 + i) = Fit(16 * 3 + i, i)
      BY <2>1, AskedIs
    <3>3. Sets(RcfgWrite(16 * 3 + i, i)) /\ RcfgWrite(16 * 3 + i, i).addr = 16 * 3 + i
      <4>1. 16 * 3 + i \in Nat /\ i \in Nat /\ 16 * 3 + i # SOFT_RES
        BY <2>1 DEF SOFT_RES
      <4> QED BY <4>1, <3>2, SetsOne, Zenon
    <3> QED BY <2>4, <3>1, <3>3
  <2> QED BY <2>2, <2>3, <2>4
<1> HIDE DEF R, Call
<1>3. ASSUME NEW n \in 1 .. 3 * Entries
      PROVE  (n - 1) \div 3 \in 0 .. Entries - 1 /\ (n - 1) % 3 \in 0 .. 2
  BY <1>1
<1>4. ASSUME NEW n \in 1 .. 3 * Entries PROVE Sets(R[n])
  BY <1>1, <1>2, <1>3
<1>5. R \in Seq(Packet) /\ Len(R) = 3 * Entries
  <2>1. \A n \in 1 .. 3 * Entries : Call((n - 1) \div 3, (n - 1) % 3) \in Packet
    BY <1>2, <1>3 DEF Sets
  <2>2. 3 * Entries \in Nat
    BY <1>1
  <2> QED BY <1>1, <2>1, <2>2
<1>6. ASSUME NEW s \in {1, 2, 3}, NEW r \in 0 .. Entries - 1 PROVE Writes(R, 16 * s + r)
  <2> DEFINE n == 3 * r + s
  <2>1. n \in 1 .. 3 * Entries /\ (n - 1) \div 3 = r /\ (n - 1) % 3 = s - 1
    BY <1>1
  <2> HIDE DEF n
  <2>2. R[n] = Call(r, s - 1)
    BY <1>1, <2>1, Zenon
  <2>4. s - 1 \in 0 .. 2 /\ s - 1 + 1 = s
    OBVIOUS
  <2>3. R[n].addr = 16 * s + r
    BY <1>2, <2>2, <2>4
  <2> QED BY <1>5, <2>1, <2>3 DEF Writes
<1> QED BY <1>4, <1>5, <1>6 DEF AllSet, R

---------------------------------------------------------------------------
LEMMA FieldPlace ==
    ASSUME NEW p \in 0 .. NumPipes - 1, NEW f \in 0 .. NumMp - 1
    PROVE  /\ NumMp * p \in Nat /\ NumMp * p + f \in 0 .. 15
           /\ (NumMp * p + f) % NumMp = f
<1>1. NumMp \in Nat \ {0} /\ NumPipes \in Nat /\ NumMp * NumPipes <= 16 /\ p \in Nat
  BY Numbers
<1>2. NumMp * p \in Nat /\ NumMp * NumPipes \in Nat
  BY <1>1
<1>3. NumMp * p + f + 1 \in 1 .. NumMp * NumPipes
  BY <1>1, CallMade, Zenon
<1>4. (NumMp * p + f) % NumMp = f
  BY <1>1, DivMod, Zenon
<1>5. NumMp * p + f \in 0 .. 15
  BY <1>1, <1>2, <1>3
<1> QED BY <1>2, <1>4, <1>5

LEMMA KeySet ==
    ASSUME NEW p \in 0 .. NumPipes - 1
    PROVE  /\ Sets(spif_set_mapper_key(p, MprKey))
           /\ spif_set_mapper_key(p, MprKey).addr = 16 * 5 + p
<1>1. p \in 0 .. 15
  <2>1. NumPipes \in 1 .. 16
    BY Numbers
  <2> QED BY <2>1
<1>2. Asked(16 * 5 + p) = MprKey
  BY <1>1, AskedIs
<1>3. Fit(16 * 5 + p, MprKey) = MprKey
  BY <1>1, Fits
<1>4. 16 * 5 + p \in Nat /\ 16 * 5 + p # SOFT_RES /\ SPIF_MAPPER_KEY + p = 16 * 5 + p
  BY <1>1 DEF SOFT_RES, SPIF_MAPPER_KEY
<1>5. MprKey \in Nat
  BY Values, Zenon
<1>6. spif_set_mapper_key(p, MprKey) = RcfgWrite(16 * 5 + p, MprKey)
  BY <1>4, Zenon DEF spif_set_mapper_key
<1> QED BY <1>2, <1>3, <1>4, <1>5, <1>6, SetsOne, Zenon

LEMMA MaskSet ==
    ASSUME NEW p \in 0 .. NumPipes - 1, NEW f \in 0 .. NumMp - 1
    PROVE  /\ Sets(spif_set_mapper_field_mask(p, f, FieldMask[f]))
           /\ spif_set_mapper_field_mask(p, f, FieldMask[f]).addr = 16 * 6 + (NumMp * p + f)
<1>1. /\ NumMp * p \in Nat /\ NumMp * p + f \in 0 .. 15
      /\ (NumMp * p + f) % NumMp = f
  BY FieldPlace
<1> DEFINE r == NumMp * p + f
<1>2. Asked(16 * 6 + r) = FieldMask[f]
  <2>1. Asked(16 * 6 + r) = FieldMask[r % NumMp]
    <3>1. r \in 0 .. 15
      BY <1>1
    <3> HIDE DEF r
    <3> QED BY <3>1, AskedIs
  <2> QED BY <2>1, <1>1
<1>3. Fit(16 * 6 + r, FieldMask[f]) = FieldMask[f]
  <2>1. r \in 0 .. 15
    BY <1>1
  <2> HIDE DEF r
  <2> QED BY <2>1, Fits
<1>4. 16 * 6 + r \in Nat /\ 16 * 6 + r # SOFT_RES
  <2>1. r \in 0 .. 15
    BY <1>1
  <2> HIDE DEF r
  <2> QED BY <2>1 DEF SOFT_RES
<1>5. FieldMask[f] \in Nat
  BY Values, Zenon
<1>6. spif_set_mapper_field_mask(p, f, FieldMask[f]) = RcfgWrite(16 * 6 + r, FieldMask[f])
  <2>1. SPIF_MAPPER_MASK + NumMp * p + f = 16 * 6 + r
    BY <1>1 DEF SPIF_MAPPER_MASK
  <2>2. MpRegsNum = NumMp
    BY Numbers, Zenon
  <2> QED BY <2>1, <2>2, Zenon DEF spif_set_mapper_field_mask
<1> HIDE DEF r
<1>7. /\ Sets(RcfgWrite(16 * 6 + r, FieldMask[f]))
      /\ RcfgWrite(16 * 6 + r, FieldMask[f]).addr = 16 * 6 + r
  BY <1>2, <1>3, <1>4, <1>5, SetsOne, Zenon
<1> QED BY <1>6, <1>7, Zenon DEF r

LEMMA ShiftSet ==
    ASSUME NEW p \in 0 .. NumPipes - 1, NEW f \in 0 .. NumMp - 1
    PROVE  /\ Sets(spif_set_mapper_field_shift(p, f, FieldShift[f]))
           /\ spif_set_mapper_field_shift(p, f, FieldShift[f]).addr = 16 * 7 + (NumMp * p + f)
<1>1. /\ NumMp * p \in Nat /\ NumMp * p + f \in 0 .. 15
      /\ (NumMp * p + f) % NumMp = f
  BY FieldPlace
<1> DEFINE r == NumMp * p + f
<1>2. Asked(16 * 7 + r) = Fit(16 * 7 + r, FieldShift[f])
  <2>1. Asked(16 * 7 + r) = Fit(16 * 7 + r, FieldShift[r % NumMp])
    <3>1. r \in 0 .. 15
      BY <1>1
    <3> HIDE DEF r
    <3> QED BY <3>1, AskedIs
  <2> QED BY <2>1, <1>1
<1>4. 16 * 7 + r \in Nat /\ 16 * 7 + r # SOFT_RES
  <2>1. r \in 0 .. 15
    BY <1>1
  <2> HIDE DEF r
  <2> QED BY <2>1 DEF SOFT_RES
<1>5. FieldShift[f] \in Nat
  BY Values, Zenon
<1>6. spif_set_mapper_field_shift(p, f, FieldShift[f]) = RcfgWrite(16 * 7 + r, FieldShift[f])
  <2>1. SPIF_MAPPER_SHIFT + NumMp * p + f = 16 * 7 + r
    BY <1>1 DEF SPIF_MAPPER_SHIFT
  <2>2. MpRegsNum = NumMp
    BY Numbers, Zenon
  <2> QED BY <2>1, <2>2, Zenon DEF spif_set_mapper_field_shift
<1> HIDE DEF r
<1>7. /\ Sets(RcfgWrite(16 * 7 + r, FieldShift[f]))
      /\ RcfgWrite(16 * 7 + r, FieldShift[f]).addr = 16 * 7 + r
  BY <1>2, <1>4, <1>5, SetsOne, Zenon
<1> QED BY <1>6, <1>7, Zenon DEF r

---------------------------------------------------------------------------
(* The call of a turn of the mapper loop: the key, then the masks, then the *)
(* shifts.                                                                 *)
MapperCall(p, c) ==
    IF c = 0 THEN spif_set_mapper_key(p, MprKey)
    ELSE IF c <= NumMp THEN spif_set_mapper_field_mask(p, c - 1, FieldMask[c - 1])
    ELSE spif_set_mapper_field_shift(p, c - 1 - NumMp, FieldShift[c - 1 - NumMp])

Mappers == SetMappers(NumPipes, MprKey, FieldMask, FieldShift)

LEMMA MapperTurns ==
    /\ MapperCalls \in Nat \ {0} /\ MapperCalls = 1 + 2 * NumMp
    /\ Mappers = [n \in 1 .. MapperCalls * NumPipes |->
                    MapperCall((n - 1) \div MapperCalls, (n - 1) % MapperCalls)]
<1>1. NumMp \in Nat \ {0} /\ MpRegsNum = NumMp
  BY Numbers, Zenon
<1> QED BY <1>1 DEF MapperCalls, Mappers, SetMappers, MapperCall

LEMMA MapperCallSets ==
    ASSUME NEW p \in 0 .. NumPipes - 1, NEW c \in 0 .. MapperCalls - 1
    PROVE  Sets(MapperCall(p, c))
<1>1. NumMp \in Nat \ {0} /\ MapperCalls = 1 + 2 * NumMp
  BY Numbers, MapperTurns, Zenon
<1>2. CASE c = 0
  BY <1>2, KeySet DEF MapperCall
<1>3. CASE c # 0 /\ c <= NumMp
  <2>1. c - 1 \in 0 .. NumMp - 1
    BY <1>1, <1>3
  <2> QED BY <1>3, <2>1, MaskSet DEF MapperCall
<1>4. CASE c # 0 /\ ~ c <= NumMp
  <2>1. c - 1 - NumMp \in 0 .. NumMp - 1
    BY <1>1, <1>4
  <2> QED BY <1>4, <2>1, ShiftSet DEF MapperCall
<1> QED BY <1>2, <1>3, <1>4

LEMMA MappersSet == AllSet(Mappers) /\ Len(Mappers) = MapperCalls * NumPipes
<1>1. MapperCalls \in Nat \ {0} /\ NumPipes \in Nat
  <2>1. NumPipes \in 1 .. 16
    BY Numbers, Zenon
  <2> QED BY <2>1, MapperTurns
<1> DEFINE N == MapperCalls * NumPipes
<1>2. N \in Nat
  BY <1>1
<1>3. ASSUME NEW n \in 1 .. N
      PROVE  Sets(MapperCall((n - 1) \div MapperCalls, (n - 1) % MapperCalls))
  <2>1. /\ (n - 1) \div MapperCalls \in 0 .. NumPipes - 1
        /\ (n - 1) % MapperCalls \in 0 .. MapperCalls - 1
    BY <1>1, TurnOf, Zenon
  <2> QED BY <2>1, MapperCallSets, Zenon
<1> HIDE DEF N
<1>4. Mappers = [n \in 1 .. N |->
                    MapperCall((n - 1) \div MapperCalls, (n - 1) % MapperCalls)]
  BY MapperTurns, Zenon DEF N
<1>5. ASSUME NEW n \in 1 .. N PROVE Mappers[n] \in Packet /\ Sets(Mappers[n])
  BY <1>3, <1>4, Zenon DEF Sets
<1>6. Mappers \in Seq(Packet) /\ Len(Mappers) = N
  <2>1. Mappers \in [1 .. N -> Packet]
    BY <1>4, <1>5
  <2> QED BY <1>2, <2>1
<1> QED BY <1>5, <1>6 DEF AllSet, N

LEMMA MapperWritten ==
    ASSUME NEW p \in 0 .. NumPipes - 1, NEW c \in 0 .. MapperCalls - 1
    PROVE  Writes(Mappers, MapperCall(p, c).addr)
<1>1. MapperCalls \in Nat \ {0} /\ NumPipes \in Nat
  <2>1. NumPipes \in 1 .. 16
    BY Numbers, Zenon
  <2> QED BY <2>1, MapperTurns
<1>2. PICK n \in 1 .. MapperCalls * NumPipes :
         (n - 1) \div MapperCalls = p /\ (n - 1) % MapperCalls = c
  <2> DEFINE t == MapperCalls * p + c + 1
  <2>1. /\ t \in 1 .. MapperCalls * NumPipes
        /\ (t - 1) \div MapperCalls = p
        /\ (t - 1) % MapperCalls = c
    BY <1>1, CallMade
  <2> HIDE DEF t
  <2> QED BY <2>1
<1>3. Mappers[n] = MapperCall(p, c)
  BY <1>2, MapperTurns, Zenon
<1>4. n \in 1 .. Len(Mappers)
  BY <1>2, MappersSet, Zenon
<1> QED BY <1>3, <1>4, Zenon DEF Writes

(* All registers of the mappers but the limits are written. *)
LEMMA MappersWritten ==
    /\ \A p \in 0 .. NumPipes - 1 : Writes(Mappers, 16 * 5 + p)
    /\ \A s \in {6, 7}, r \in 0 .. 15 :
          r < NumMp * NumPipes => Writes(Mappers, 16 * s + r)
<1>1. NumMp \in Nat \ {0} /\ NumPipes \in Nat /\ MapperCalls = 1 + 2 * NumMp
  <2>1. NumPipes \in 1 .. 16
    BY Numbers, Zenon
  <2> QED BY <2>1, Numbers, MapperTurns
<1>2. ASSUME NEW p \in 0 .. NumPipes - 1 PROVE Writes(Mappers, 16 * 5 + p)
  <2>1. 0 \in 0 .. MapperCalls - 1
    BY <1>1
  <2>2. MapperCall(p, 0) = spif_set_mapper_key(p, MprKey)
    BY DEF MapperCall
  <2> QED BY <2>1, <2>2, MapperWritten, KeySet
<1>3. ASSUME NEW r \in 0 .. 15, r < NumMp * NumPipes
      PROVE  Writes(Mappers, 16 * 6 + r) /\ Writes(Mappers, 16 * 7 + r)
  <2>1. PICK p \in 0 .. NumPipes - 1, f \in 0 .. NumMp - 1 : r = NumMp * p + f
    <3> DEFINE n == r + 1
    <3>1. n \in 1 .. NumMp * NumPipes /\ n - 1 = r
      <4>1. NumMp * NumPipes \in Nat
        BY <1>1
      <4> QED BY <1>3, <4>1
    <3>2. /\ (n - 1) \div NumMp \in 0 .. NumPipes - 1 /\ (n - 1) % NumMp \in 0 .. NumMp - 1
          /\ n = NumMp * ((n - 1) \div NumMp) + ((n - 1) % NumMp) + 1
      BY <1>1, <3>1, TurnOf, Zenon
    <3> DEFINE p == (n - 1) \div NumMp
               f == (n - 1) % NumMp
    <3>3. p \in 0 .. NumPipes - 1 /\ f \in 0 .. NumMp - 1 /\ n = NumMp * p + f + 1
      BY <3>2, Zenon
    <3> HIDE DEF p, f
    <3>4. NumMp * p \in Int
      BY <1>1, <3>3
    <3>5. r = NumMp * p + f
      BY <3>3, <3>4
    <3> QED BY <3>3, <3>5
  <2>2. /\ 1 + f \in 0 .. MapperCalls - 1 /\ 1 + f # 0 /\ 1 + f <= NumMp /\ 1 + f - 1 = f
        /\ 1 + NumMp + f \in 0 .. MapperCalls - 1 /\ 1 + NumMp + f # 0
        /\ ~ (1 + NumMp + f <= NumMp) /\ 1 + NumMp + f - 1 - NumMp = f
    BY <1>1
  <2>3. MapperCall(p, 1 + f) = spif_set_mapper_field_mask(p, f, FieldMask[f])
    <3> DEFINE c == 1 + f
    <3>1. c # 0 /\ c <= NumMp /\ c - 1 = f
      BY <2>2
    <3> HIDE DEF c
    <3>2. MapperCall(p, c) = spif_set_mapper_field_mask(p, f, FieldMask[f])
      BY <3>1 DEF MapperCall
    <3> QED BY <3>2 DEF c
  <2>4. MapperCall(p, 1 + NumMp + f) = spif_set_mapper_field_shift(p, f, FieldShift[f])
    <3> DEFINE c == 1 + NumMp + f
    <3>1. c # 0 /\ ~ (c <= NumMp) /\ c - 1 - NumMp = f
      BY <1>1
    <3> HIDE DEF c
    <3>2. MapperCall(p, c) = spif_set_mapper_field_shift(p, f, FieldShift[f])
      BY <3>1 DEF MapperCall
    <3> QED BY <3>2 DEF c
  <2>5. Writes(Mappers, 16 * 6 + (NumMp * p + f))
    BY <2>2, <2>3, MapperWritten, MaskSet, Zenon
  <2>6. Writes(Mappers, 16 * 7 + (NumMp * p + f))
    BY <2>2, <2>4, MapperWritten, ShiftSet, Zenon
  <2> QED BY <2>1, <2>5, <2>6, Zenon
<1> QED BY <1>2, <1>3

---------------------------------------------------------------------------
(* The whole program                                                       *)

LEMMA FilterSets ==
    /\ Sets(spif_set_filter_value(FilteredPipe, 0, FilterValue))
    /\ spif_set_filter_value(FilteredPipe, 0, FilterValue).addr
         = 16 * 9 + NumFl * FilteredPipe
    /\ Sets(spif_set_filter_mask(FilteredPipe, 0, FilterMask))
    /\ spif_set_filter_mask(FilteredPipe, 0, FilterMask).addr
         = 16 * 11 + NumFl * FilteredPipe
<1> DEFINE r == NumFl * FilteredPipe
<1>1. r \in 0 .. 15 /\ FlRegsNum = NumFl
  <2>1. NumPipes \in 1 .. 16 /\ NumFl \in Nat \ {0} /\ NumFl * NumPipes <= 16
    BY Numbers, Zenon
  <2>2. NumFl * (NumPipes - 1) \in Nat
        /\ NumFl * (NumPipes - 1) = NumFl * NumPipes - NumFl
    BY <2>1
  <2>3. NumFl * (NumPipes - 1) \in 0 .. 15
    BY <2>1, <2>2
  <2> QED BY <2>3, Numbers, Zenon DEF FilteredPipe
<1>2. /\ spif_set_filter_value(FilteredPipe, 0, FilterValue)
           = RcfgWrite(16 * 9 + r, FilterValue)
      /\ spif_set_filter_mask(FilteredPipe, 0, FilterMask)
           = RcfgWrite(16 * 11 + r, FilterMask)
  <2>1. 144 + r + 0 = 16 * 9 + r /\ 176 + r + 0 = 16 * 11 + r
    BY <1>1
  <2> QED BY <1>1, <2>1
      DEF spif_set_filter_value, spif_set_filter_mask, SPIF_FILTER_VALUE, SPIF_FILTER_MASK
<1> HIDE DEF r
<1>3. r = NumFl * FilteredPipe
  BY DEF r
<1>4. Asked(16 * 9 + r) = FilterValue /\ Asked(16 * 11 + r) = FilterMask
  BY <1>1, <1>3, AskedIs
<1>5. Fit(16 * 9 + r, FilterValue) = FilterValue /\ Fit(16 * 11 + r, FilterMask) = FilterMask
  BY <1>1, Fits
<1>6. /\ 16 * 9 + r \in Nat /\ 16 * 9 + r # SOFT_RES
      /\ 16 * 11 + r \in Nat /\ 16 * 11 + r # SOFT_RES
  BY <1>1 DEF SOFT_RES
<1>7. /\ Sets(RcfgWrite(16 * 9 + r, FilterValue))
      /\ RcfgWrite(16 * 9 + r, FilterValue).addr = 16 * 9 + r
      /\ Sets(RcfgWrite(16 * 11 + r, FilterMask))
      /\ RcfgWrite(16 * 11 + r, FilterMask).addr = 16 * 11 + r
  BY <1>4, <1>5, <1>6, Values, SetsOne, Zenon
<1> QED BY <1>2, <1>3, <1>7, Zenon

LEMMA DropWaitSets ==
    /\ Sets(spif_set_input_drop_wait(DropWait))
    /\ spif_set_input_drop_wait(DropWait).addr = 3
<1>1. Asked(3) = DropWait
  BY AskedIs
<1>2. Fit(3, DropWait) = DropWait
  BY Fits
<1> QED
  BY <1>1, <1>2, Values, SetsOne
  DEF spif_set_input_drop_wait, SPIF_IN_DROP_WAIT, SOFT_RES

LEMMA OneSet == ASSUME NEW p, Sets(p) PROVE AllSet(<<p>>) /\ Writes(<<p>>, p.addr)
<1>1. <<p>> \in Seq(Packet) /\ Len(<<p>>) = 1 /\ <<p>>[1] = p
  BY DEF Sets
<1> QED BY <1>1 DEF AllSet, Writes

LEMMA TwoSet ==
    ASSUME NEW p, NEW q, Sets(p), Sets(q)
    PROVE  AllSet(<<p, q>>) /\ Writes(<<p, q>>, p.addr) /\ Writes(<<p, q>>, q.addr)
<1>1. <<p, q>> \in Seq(Packet) /\ Len(<<p, q>>) = 2 /\ <<p, q>>[1] = p /\ <<p, q>>[2] = q
  BY DEF Sets
<1> QED BY <1>1 DEF AllSet, Writes

(* The configuration resets the chip, then sets registers as asked, and    *)
(* leaves none at its default that is to hold something else.              *)
LEMMA ConfigurationComplete ==
    /\ Opened(Configuration)
    /\ \A a \in RegAddrs : Asked(a) = Default(a) \/ Writes(Configuration, a)
<1> DEFINE R == SetRouting(Entries, RoutingMask)
           D == <<spif_set_input_drop_wait(DropWait)>>
           F == << spif_set_filter_value(FilteredPipe, 0, FilterValue),
                   spif_set_filter_mask(FilteredPipe, 0, FilterMask) >>
           C0 == <<spif_soft_reset>>
           C1 == C0 \o spif_reset_counters
           C2 == C1 \o R
           C3 == C2 \o Mappers
           C4 == C3 \o D
           C5 == C4 \o F
<1>1. Configuration = C5
  BY DEF Configuration, StartSpif, Mappers
<1>2. /\ AllSet(R) /\ AllSet(Mappers) /\ AllSet(D) /\ AllSet(F)
      /\ AllSet(spif_reset_counters)
  BY RoutingSet, MappersSet, CountersSet, DropWaitSets, FilterSets, OneSet, TwoSet, Zenon
<1>3. /\ Writes(D, 3)
      /\ Writes(F, 16 * 9 + NumFl * FilteredPipe)
      /\ Writes(F, 16 * 11 + NumFl * FilteredPipe)
  <2>1. Writes(D, spif_set_input_drop_wait(DropWait).addr)
    BY DropWaitSets, OneSet, Zenon
  <2>2. /\ Writes(F, spif_set_filter_value(FilteredPipe, 0, FilterValue).addr)
        /\ Writes(F, spif_set_filter_mask(FilteredPipe, 0, FilterMask).addr)
    BY FilterSets, TwoSet, Zenon
  <2> HIDE DEF D, F
  <2> QED BY <2>1, <2>2, DropWaitSets, FilterSets
<1>4. Opened(C0)
  <2>1. spif_soft_reset \in Packet
    BY DEF spif_soft_reset, RcfgWrite, Packet, SPIF_SOFT_RESET
  <2>2. C0 \in Seq(Packet) /\ Len(C0) = 1 /\ C0[1] = spif_soft_reset
    BY <2>1
  <2> HIDE DEF C0
  <2> QED BY <2>2 DEF Opened
<1> HIDE DEF R, D, F, C0
<1>5. Opened(C1) /\ Opened(C2) /\ Opened(C3) /\ Opened(C4) /\ Opened(C5)
  <2>1. Opened(C1)
    BY <1>2, <1>4, MoreOpened, Zenon
  <2> HIDE DEF C1
  <2>2. Opened(C2)
    BY <1>2, <2>1, MoreOpened, Zenon
  <2> HIDE DEF C2
  <2>3. Opened(C3)
    BY <1>2, <2>2, MoreOpened, Zenon
  <2> HIDE DEF C3
  <2>4. Opened(C4)
    BY <1>2, <2>3, MoreOpened, Zenon
  <2> HIDE DEF C4
  <2>5. Opened(C5)
    BY <1>2, <2>4, MoreOpened, Zenon
  <2> QED BY <2>1, <2>2, <2>3, <2>4, <2>5
<1>6. /\ C1 \in Seq(Packet) /\ C2 \in Seq(Packet) /\ C3 \in Seq(Packet) /\ C4 \in Seq(Packet)
      /\ R \in Seq(Packet) /\ Mappers \in Seq(Packet) /\ D \in Seq(Packet) /\ F \in Seq(Packet)
  BY <1>2, <1>5, Zenon DEF Opened, AllSet
<1> HIDE DEF C1
<1>7. ASSUME NEW a, Writes(R, a) \/ Writes(Mappers, a) \/ Writes(D, a) \/ Writes(F, a)
      PROVE  Writes(C5, a)
  <2>1. Writes(R, a) => Writes(C2, a)
    BY <1>6, MoreWritten, Zenon
  <2> HIDE DEF C2
  <2>2. Writes(C2, a) \/ Writes(Mappers, a) => Writes(C3, a)
    BY <1>6, MoreWritten, Zenon
  <2> HIDE DEF C3
  <2>3. Writes(C3, a) \/ Writes(D, a) => Writes(C4, a)
    BY <1>6, MoreWritten, Zenon
  <2> HIDE DEF C4
  <2>4. Writes(C4, a) \/ Writes(F, a) => Writes(C5, a)
    BY <1>6, MoreWritten, Zenon
  <2> QED BY <1>7, <2>1, <2>2, <2>3, <2>4, Zenon
<1> HIDE DEF C2, C3, C4, C5
<1>8. ASSUME NEW a \in RegAddrs, Asked(a) # Default(a) PROVE Writes(C5, a)
  <2>1. CASE a \in IfRegs
    <3>1. a = 16 * 0 + a /\ 0 \in 0 .. 15 /\ a \in 0 .. 15
      BY <2>1 DEF IfRegs
    <3>2. a = 3
      <4> HIDE <1>8
      <4>1. Asked(16 * 0 + a) = Default(16 * 0 + a) \/ a = 3
        BY <3>1, AskedIs
      <4>2. Asked(a) = Default(a) \/ a = 3
        BY <3>1, <4>1
      <4> QED BY <1>8, <4>2, Zenon
    <3> QED BY <1>3, <1>7, <3>2
  <2>2. ASSUME NEW s \in 1 .. 15, NEW r \in 0 .. 15, a = 16 * s + r, s # 4,
               s \in {1, 2, 3} => r < NumRt, s = 5 => r < NumPipes,
               s \in {6, 7} => r < NumMp * NumPipes
        PROVE  Writes(C5, a)
    <3>1. \/ s \in {1, 2, 3} /\ r < Entries
          \/ s \in {5, 6, 7}
          \/ s \in {9, 11} /\ r = NumFl * FilteredPipe
      <4>1. s \in 0 .. 15 /\ s # 0
        OBVIOUS
      <4>2. Asked(16 * s + r) # Default(16 * s + r)
        BY <1>8, <2>2, Zenon
      <4> QED BY <4>1, <4>2, AskedIs
    <3>2. CASE s \in {1, 2, 3} /\ r < Entries
      <4>1. r \in 0 .. Entries - 1
        BY <3>2, Numbers
      <4> QED BY <1>7, <2>2, <3>2, <4>1, RoutingSet, Zenon DEF R
    <3>3. CASE s = 5
      <4>1. r \in 0 .. NumPipes - 1
        BY <2>2, <3>3, Numbers
      <4> QED BY <1>7, <2>2, <3>3, <4>1, MappersWritten, Zenon
    <3>4. CASE s \in {6, 7}
      BY <1>7, <2>2, <3>4, MappersWritten, Zenon
    <3>5. CASE s \in {9, 11} /\ r = NumFl * FilteredPipe
      BY <1>3, <1>7, <2>2, <3>5, Zenon
    <3> QED BY <3>1, <3>2, <3>3, <3>4, <3>5, Zenon
  <2> QED BY <2>1, <2>2, Places, Zenon
<1> QED BY <1>1, <1>5, <1>8, Zenon

---------------------------------------------------------------------------
(* Packets of the program that have left the switch, and with them the     *)
(* writes that are done, or lost in a reset.                               *)
Left == IF cfg_vld THEN sent - 1 ELSE sent

(* The program has written a with one of its first n packets, since the    *)
(* last reset of the link.                                                 *)
WrittenBy(n, a) == \E i \in 2 .. n : i > hit /\ Program[i].pld /\ Program[i].addr = a

(* Each register that the host does not write is as asked or at its        *)
(* default, and as asked when the program has written it since the reset.  *)
Held ==
    \A a \in RegAddrs \ HostWrites :
        /\ bank[a] \in {Asked(a), Default(a)}
        /\ WrittenBy(Left, a) => bank[a] = Asked(a)

(* The switch holds the last packet of the program that was accepted, or   *)
(* a packet that is none of it.                                            *)
InOrder ==
    /\ sent \in 0 .. Len(Program)
    /\ pkt \in Offers(sent)
    /\ \/ swi \in {Idle, Peripheral}
       \/ sent >= 1 /\ swi = Program[sent]

HostAsks == req \in ApbRequests

CInv == InOrder /\ HostAsks /\ hit \in Nat /\ Held

LEMMA ProgramIs ==
    /\ Len(Configuration) >= 1 /\ Len(Program) = Len(Configuration) + 2
    /\ Len(Configuration) \in Nat
    /\ \A i \in 1 .. Len(Program) : Program[i].vld /\ Program[i].cfg
    /\ Program[1].pld /\ Program[1].addr = SOFT_RES
    /\ \A i \in 2 .. Len(Program) : Program[i].pld => Sets(Program[i])
    /\ \A i \in 1 .. Len(Configuration) : Program[i] = Configuration[i]
    /\ \A i \in 1 .. Len(Configuration) : Program[i].pld
<1> DEFINE C == Configuration
           r1 == spif_read_counter(SPIF_COUNT_IN)
           r2 == spif_read_counter(SPIF_COUNT_IN_DROP)
           N == Len(C)
<1>1. Opened(C)
  BY ConfigurationComplete, Zenon
<1>2. Program = C \o <<r1, r2>>
  BY DEF Program
<1>3. /\ r1 \in Packet /\ r1.vld /\ r1.cfg /\ ~ r1.pld
      /\ r2 \in Packet /\ r2.vld /\ r2.cfg /\ ~ r2.pld
  BY DEF spif_read_counter, RcfgRead, Packet, SPIF_COUNT_IN, SPIF_COUNT_IN_DROP
<1> HIDE DEF C, r1, r2
<1>4. C \in Seq(Packet) /\ N \in Nat /\ N >= 1
  BY <1>1 DEF Opened
<1>5. Len(Program) = N + 2
  BY <1>2, <1>3, <1>4
<1>6. \A i \in 1 .. N : Program[i] = C[i]
  BY <1>2, <1>3, <1>4
<1>7. Program[N + 1] = r1 /\ Program[N + 2] = r2
  BY <1>2, <1>3, <1>4
<1>8. C[1].vld /\ C[1].cfg /\ C[1].pld /\ C[1].addr = SOFT_RES
  BY <1>1 DEF Opened, spif_soft_reset, RcfgWrite, SPIF_SOFT_RESET, SOFT_RES
<1>9. ASSUME NEW i \in 1 .. N
      PROVE C[i].vld /\ C[i].cfg /\ C[i].pld /\ (i >= 2 => Sets(C[i]))
  <2>1. CASE i = 1
    BY <1>8, <2>1
  <2>2. CASE i # 1
    <3>1. i \in 2 .. N
      BY <2>2
    <3>2. Sets(C[i])
      BY <1>1, <3>1 DEF Opened
    <3> QED BY <3>2 DEF Sets
  <2> QED BY <2>1, <2>2
<1> HIDE DEF N
<1>10. ASSUME NEW i \in 1 .. Len(Program)
       PROVE  /\ Program[i].vld /\ Program[i].cfg
              /\ i >= 2 /\ Program[i].pld => Sets(Program[i])
  <2>1. CASE i \in 1 .. N
    BY <1>6, <1>9, <2>1
  <2>2. CASE i \notin 1 .. N
    <3>1. i = N + 1 \/ i = N + 2
      BY <1>4, <1>5, <2>2 DEF N
    <3> QED BY <1>3, <1>7, <3>1
  <2> QED BY <2>1, <2>2
<1>11. 1 \in 1 .. N
  BY <1>4 DEF N
<1>12. Program[1].pld /\ Program[1].addr = SOFT_RES
  BY <1>6, <1>8, <1>11
<1>13. \A i \in 2 .. Len(Program) : i \in 1 .. Len(Program) /\ i >= 2
  OBVIOUS
<1>14. \A i \in 2 .. Len(Program) : Program[i].pld => Sets(Program[i])
  BY <1>10, <1>13, Zenon
<1> QED BY <1>4, <1>5, <1>6, <1>9, <1>10, <1>12, <1>14, Zenon DEF N, C

(* All packets with a payload done, the registers are as asked. *)
LEMMA HeldIsAsked == ASSUME CInv PROVE ConfiguredAsAsked
<1> SUFFICES ASSUME Left >= Len(Configuration), NEW a \in RegAddrs \ HostWrites,
                    bank[a] # Asked(a)
             PROVE  hit > 0 /\ ~ SetAfter(hit, a) /\ bank[a] = Default(a)
  <2>1. Left = sent - (IF cfg_vld THEN 1 ELSE 0)
    <3>1. sent \in Int
      BY DEF CInv, InOrder
    <3>2. CASE cfg_vld
      BY <3>1, <3>2 DEF Left
    <3>3. CASE ~ cfg_vld
      <4>1. (IF cfg_vld THEN 1 ELSE 0) = 0 /\ Left = sent
        BY <3>3 DEF Left
      <4> QED BY <3>1, <4>1
    <3> QED BY <3>2, <3>3
  <2> QED BY <2>1, Zenon DEF ConfiguredAsAsked
<1>1. Left \in Int /\ hit \in Nat
  BY DEF CInv, InOrder, Left
<1>2. bank[a] = Default(a) /\ ~ WrittenBy(Left, a)
  BY DEF CInv, Held
<1>3. ASSUME NEW i \in 1 .. Len(Configuration), Configuration[i].addr = a
      PROVE  ~ (i > hit)
  <2>1. Program[i].addr = a /\ Program[i].pld
    BY <1>3, ProgramIs
  <2>2. i # 1
    BY <2>1, ProgramIs, CountersApart
  <2>3. i \in 2 .. Left
    BY <1>1, <2>2, ProgramIs
  <2> QED BY <1>2, <2>1, <2>3 DEF WrittenBy
<1>4. ~ SetAfter(hit, a)
  <2>1. \A i \in hit + 1 .. Len(Configuration) : i \in 1 .. Len(Configuration) /\ i > hit
    BY <1>1, ProgramIs
  <2> QED BY <1>3, <2>1 DEF SetAfter
<1>5. hit > 0
  <2>1. Writes(Configuration, a)
    BY <1>2, ConfigurationComplete
  <2>2. PICK i \in 1 .. Len(Configuration) : Configuration[i].addr = a
    BY <2>1 DEF Writes
  <2>3. ~ (i > hit)
    BY <1>3, <2>2
  <2> QED BY <1>1, <2>2, <2>3, ProgramIs
<1> QED BY <1>2, <1>4, <1>5

---------------------------------------------------------------------------
LEMMA CInitially == Init => CInv
<1> SUFFICES ASSUME Init PROVE CInv
  OBVIOUS
<1>1. InOrder
  BY ProgramIs DEF Init, BankInit, ReceiverInit, InOrder, Offers
<1>2. HostAsks
  BY DEF Init, BankInit, HostAsks
<1>3. Held
  <2>1. Left = 0
    BY DEF Init, ReceiverInit, cfg_vld, Idle, Left
  <2>2. \A a \in RegAddrs : bank[a] = Default(a)
    BY DEF Init, BankInit, Defaults
  <2> QED BY <2>1, <2>2 DEF Held, WrittenBy
<1>4. hit \in Nat
  BY DEF Init
<1> QED BY <1>1, <1>2, <1>3, <1>4 DEF CInv

(* What the link offers is a packet of the program, the next one, or none. *)
LEMMA OfferIs ==
    ASSUME InOrder
    PROVE  /\ pkt.cfg => pkt.vld /\ sent + 1 \in 1 .. Len(Program) /\ pkt = Program[sent + 1]
           /\ ~ pkt.cfg => pkt \in {Idle, Peripheral}
<1>1. Idle.cfg = FALSE /\ Peripheral.cfg = FALSE
  BY DEF Idle, Peripheral
<1>2. CASE pkt \in {Idle, Peripheral}
  BY <1>1, <1>2
<1>3. CASE pkt \notin {Idle, Peripheral}
  <2>1. sent + 1 \in 1 .. Len(Program) /\ pkt = Program[sent + 1]
    BY <1>3 DEF InOrder, Offers
  <2> QED BY <2>1, ProgramIs
<1> QED BY <1>2, <1>3

(* So is what the switch holds. *)
LEMMA SwitchIs ==
    ASSUME InOrder
    PROVE  /\ cfg_vld => sent \in 1 .. Len(Program) /\ swi = Program[sent]
           /\ cfg_vld <=> swi.cfg
<1>1. ~ Idle.cfg /\ ~ Peripheral.cfg
  BY DEF Idle, Peripheral
<1>2. CASE swi \in {Idle, Peripheral}
  BY <1>1, <1>2 DEF cfg_vld
<1>3. CASE sent >= 1 /\ swi = Program[sent]
  <2>1. sent \in 1 .. Len(Program)
    BY <1>3 DEF InOrder
  <2> QED BY <1>3, <2>1, ProgramIs DEF cfg_vld
<1> QED BY <1>2, <1>3 DEF InOrder

(* A packet of the program leaves the switch, in the order of the program, *)
(* when the switch holds one and is ready.                                 *)
LEMMA OrderKept ==
    ASSUME InOrder, Clock
    PROVE  /\ InOrder'
           /\ Left' = IF cfg_vld /\ pkt_rdy_out THEN Left + 1 ELSE Left
<1>1. /\ sent' = IF Accepted /\ pkt.cfg THEN sent + 1 ELSE sent
      /\ pkt' \in Offers(sent')
      /\ swi' = IF pkt_rdy_out THEN pkt ELSE swi
  BY DEF Clock, ReceiverClock, Switch
<1>2. sent \in 0 .. Len(Program) /\ Len(Program) \in Nat
  BY ProgramIs DEF InOrder
<1>3. CASE pkt_rdy_out /\ pkt.cfg
  <2>1. /\ pkt.vld /\ sent + 1 \in 1 .. Len(Program) /\ pkt = Program[sent + 1]
    BY <1>3, OfferIs
  <2>2. sent' = sent + 1 /\ swi' = pkt
    BY <1>1, <1>3, <2>1 DEF Accepted
  <2>3. InOrder'
    BY <1>1, <1>2, <2>1, <2>2 DEF InOrder
  <2>4. cfg_vld'
    BY <1>3, <2>1, <2>2 DEF cfg_vld
  <2>5. Left' = sent
    <3>1. Left' = sent' - 1
      BY <2>4 DEF Left
    <3> QED BY <1>2, <2>2, <3>1
  <2>6. Left = IF cfg_vld THEN sent - 1 ELSE sent
    BY <1>2 DEF Left
  <2> QED BY <1>2, <1>3, <2>3, <2>5, <2>6
<1>4. CASE pkt_rdy_out /\ ~ pkt.cfg
  <2>1. pkt \in {Idle, Peripheral}
    BY <1>4, OfferIs
  <2>2. sent' = sent /\ swi' = pkt
    BY <1>1, <1>4
  <2>3. InOrder'
    BY <1>1, <1>2, <2>1, <2>2 DEF InOrder
  <2>4. ~ cfg_vld'
    BY <1>4, <2>2 DEF cfg_vld
  <2>5. Left' = sent
    BY <1>2, <2>2, <2>4 DEF Left
  <2>6. Left = IF cfg_vld THEN sent - 1 ELSE sent
    BY <1>2 DEF Left
  <2> QED BY <1>2, <1>4, <2>3, <2>5, <2>6
<1>5. CASE ~ pkt_rdy_out
  <2>1. sent' = sent /\ swi' = swi
    BY <1>1, <1>5 DEF Accepted
  <2>2. InOrder'
    BY <1>1, <2>1 DEF InOrder
  <2>3. Left' = Left
    BY <2>1 DEF Left, cfg_vld
  <2> QED BY <1>5, <2>2, <2>3
<1> QED BY <1>3, <1>4, <1>5

(* A packet that writes leaves in the cycle in which it writes, and the    *)
(* host writes its own registers only.                                     *)
LEMMA WritesKept ==
    ASSUME CInv, Clock, SOFT_RES \notin HostWrites
    PROVE  Held'
<1> DEFINE Since(n, a) == \E i \in 2 .. n : i > hit /\ Program[i].pld /\ Program[i].addr = a
<1>0. hit' = hit /\ hit \in Nat
  BY DEF Clock, CInv
<1> SUFFICES ASSUME NEW a \in RegAddrs \ HostWrites
             PROVE  /\ bank'[a] \in {Asked(a), Default(a)}
                    /\ Since(Left', a) => bank'[a] = Asked(a)
  BY <1>0 DEF Held, WrittenBy, HostWrites, RegAddrs
<1>00. bank[a] \in {Asked(a), Default(a)} /\ (Since(Left, a) => bank[a] = Asked(a))
  BY DEF CInv, Held, WrittenBy
<1>1. PICK counted : BankClock(Prx, counted)
  BY DEF Clock
<1>2. bank' = Bank(Prx)
  BY <1>1 DEF BankClock
<1>3. apb_write => req.addr # a /\ req.addr # SOFT_RES
  BY DEF CInv, HostAsks, apb_write, HostWrites
<1>4. Left' = IF cfg_vld /\ pkt_rdy_out THEN Left + 1 ELSE Left
  BY OrderKept DEF CInv
<1>5. Left \in Int
  BY DEF CInv, InOrder, Left
<1>6. CASE Prx.en
  <2>1. cfg_vld /\ swi.pld /\ swi.vld
    BY <1>6 DEF Prx, cfg_vld
  <2>2. pkt_rdy_out
    BY <2>1 DEF pkt_rdy_out, swi_rdy, cfg_rdy, cfg_vld
  <2>3. sent \in 1 .. Len(Program) /\ swi = Program[sent]
    BY <2>1, SwitchIs DEF CInv
  <2>4. Left = sent - 1 /\ Left' = sent
    BY <1>4, <2>1, <2>2, <2>3 DEF Left
  <2>5. Prx.addr = Program[sent].addr /\ Prx.data = Program[sent].data /\ Program[sent].pld
    BY <2>1, <2>3 DEF Prx
  <2>6. CASE sent = 1
    <3>1. Prx.addr = SOFT_RES
      BY <2>5, <2>6, ProgramIs
    <3>2. bank' = Defaults
      BY <1>2, <1>6, <3>1 DEF Bank, IsSoftReset
    <3>3. ~ Since(Left', a)
      BY <2>4, <2>6
    <3> QED BY <3>2, <3>3 DEF Defaults
  <2>7. CASE sent # 1
    <3>1. sent \in 2 .. Len(Program)
      BY <2>3, <2>7
    <3>2. Sets(Program[sent])
      BY <2>5, <3>1, ProgramIs
    <3>3. Prx.addr # SOFT_RES
      BY <2>5, <3>2 DEF Sets
    <3>4. bank' = Written(Prx.addr, Prx.data)
      BY <1>2, <1>3, <1>6, <3>3 DEF Bank, IsSoftReset
    <3>5. bank'[a] = IF a = Prx.addr THEN Fit(a, Prx.data) ELSE bank[a]
      BY <3>4 DEF Written
    <3>6. Since(Left', a) => Since(Left, a) \/ a = Program[sent].addr
      <4>1. 2 .. Left' = (2 .. Left) \cup {sent}
        BY <2>4, <3>1
      <4> QED BY <2>5, <4>1
    <3>7. a = Program[sent].addr => Fit(a, Program[sent].data) = Asked(a)
      BY <3>2 DEF Sets
    <3> HIDE DEF Since
    <3> QED BY <1>00, <2>5, <3>5, <3>6, <3>7, Zenon
  <2> QED BY <2>6, <2>7
<1>7. CASE ~ Prx.en
  <2>1. bank'[a] = bank[a]
    <3>1. ~ IsSoftReset(Prx)
      BY <1>3, <1>7 DEF IsSoftReset
    <3>2. bank' = IF apb_write THEN Written(req.addr, req.data) ELSE bank
      BY <1>2, <1>7, <3>1 DEF Bank
    <3> QED BY <1>3, <3>2 DEF Written
  <2>2. Since(Left', a) => Since(Left, a)
    <3>1. CASE cfg_vld /\ pkt_rdy_out
      <4>1. sent \in 1 .. Len(Program) /\ swi = Program[sent] /\ ~ swi.pld
        BY <1>7, <3>1, SwitchIs DEF CInv, Prx
      <4>2. Left = sent - 1 /\ Left' = sent
        BY <1>4, <3>1, <4>1 DEF Left
      <4>3. 2 .. Left' \subseteq (2 .. Left) \cup {sent}
        BY <4>1, <4>2
      <4> QED BY <4>1, <4>3
    <3>2. CASE ~ (cfg_vld /\ pkt_rdy_out)
      <4>1. Left' = Left
        BY <1>4, <3>2
      <4> QED BY <4>1
    <3> QED BY <3>1, <3>2
  <2> QED BY <1>00, <2>1, <2>2
<1> QED BY <1>6, <1>7

(* A reset of the link leaves each register as it is or at its default, or *)
(* the host writes it.                                                     *)
LEMMA ResetKeeps ==
    ASSUME CInv, Reset, SOFT_RES \notin HostWrites
    PROVE  CInv'
<1>1. /\ sent' \in 0 .. Len(Program) /\ hit' = sent' /\ hit' \in Nat
      /\ pkt' = Idle /\ swi' = Idle
  BY ProgramIs DEF Reset, ReceiverReset, CInv, InOrder
<1>2. InOrder'
  BY <1>1, ProgramIs DEF InOrder, Offers
<1>3. HostAsks'
  <2>1. CASE BankReset
    BY <2>1 DEF BankReset, HostAsks, CInv
  <2>2. ASSUME NEW counted, BankClock(NoPacket, counted) PROVE HostAsks'
    BY <2>2 DEF BankClock, Master, HostAsks, CInv
  <2> QED BY <2>1, <2>2 DEF Reset
<1>4. Left' = hit'
  <2>1. ~ cfg_vld'
    BY <1>1 DEF cfg_vld, Idle
  <2> QED BY <1>1, <2>1 DEF Left
<1>5. ASSUME NEW a \in RegAddrs \ HostWrites PROVE bank'[a] \in {Asked(a), Default(a)}
  <2>1. CASE BankReset
    BY <2>1 DEF BankReset, Defaults
  <2>2. ASSUME NEW counted, BankClock(NoPacket, counted) PROVE bank'[a] = bank[a]
    <3>1. apb_write => req.addr # a /\ req.addr # SOFT_RES
      BY DEF CInv, HostAsks, apb_write, HostWrites
    <3>2. ~ IsSoftReset(NoPacket)
      BY <3>1 DEF IsSoftReset, NoPacket
    <3>3. bank' = IF apb_write THEN Written(req.addr, req.data) ELSE bank
      BY <2>2, <3>2 DEF BankClock, Bank, NoPacket
    <3> QED BY <3>1, <3>3 DEF Written
  <2>3. bank[a] \in {Asked(a), Default(a)}
    BY DEF CInv, Held
  <2> QED BY <2>1, <2>2, <2>3 DEF Reset
<1>6. Held'
  <2>1. \A i \in 2 .. hit' : ~ (i > hit')
    BY <1>1
  <2> QED BY <1>4, <1>5, <2>1 DEF Held, WrittenBy, HostWrites, RegAddrs
<1> QED BY <1>1, <1>2, <1>3, <1>6 DEF CInv

LEMMA CKept ==
    ASSUME SOFT_RES \notin HostWrites
    PROVE  CInv /\ [Next]_vars => CInv'
<1> SUFFICES ASSUME CInv, [Next]_vars PROVE CInv'
  OBVIOUS
<1>1. CASE Clock
  <2>1. InOrder'
    BY <1>1, OrderKept DEF CInv
  <2>2. HostAsks'
    <3>1. PICK counted : BankClock(Prx, counted)
      BY <1>1 DEF Clock
    <3> QED BY <3>1 DEF BankClock, Master, HostAsks, CInv
  <2>3. hit' \in Nat
    BY <1>1 DEF CInv, Clock
  <2> QED BY <1>1, <2>1, <2>2, <2>3, WritesKept DEF CInv
<1>2. CASE Reset
  BY <1>2, ResetKeeps
<1>3. CASE UNCHANGED vars
  BY <1>3 DEF vars, bankVars, registers, master, receiverVars, CInv, InOrder, HostAsks,
              Left, cfg_vld, Held, WrittenBy, Offers
<1> QED BY <1>1, <1>2, <1>3 DEF Next

(* When the program has configured spif, every register that the host does *)
(* not write holds what the calls of the program ask for, or its default   *)
(* when a reset of the link came after the last call that sets it          *)
(* (ConfiguredAsAsked).                                                    *)
THEOREM ProgramConfigures ==
    ASSUME SOFT_RES \notin HostWrites
    PROVE  Spec => []ConfiguredAsAsked
<1>1. CInv /\ [Next]_vars => CInv'
  BY CKept
<1> QED BY CInitially, <1>1, HeldIsAsked, PTL DEF Spec

=============================================================================
