----------------------------- MODULE HsslRegBank -----------------------------
(***************************************************************************)
(* The register bank (hssl_reg_bank.sv): configuration registers and       *)
(* diagnostic counters that the host writes over APB and SpiNNaker writes  *)
(* with packets, in the same clock cycle if it so happens.                 *)
(*                                                                         *)
(* As in PktAssembler, a state is a clock cycle just before its rising     *)
(* edge.  The packet port is driven by another component: its wires are    *)
(* the parameter prx, with fields en, addr and data.  An address is 16     *)
(* times the section plus the register.                                    *)
(***************************************************************************)
EXTENDS Integers

CONSTANTS
    WordBits,      \* the code has 32
    RouteBits,     \* RTRTE_BITS, MPSFT_BITS and DSSFT_BITS
    ShiftBits,
    DsShiftBits,
    NumPipes,      \* HW_NUM_PIPES
    NumRt,         \* NUM_RTREGS
    NumMp,         \* NUM_MPREGS_PIPE
    NumFl,         \* NUM_FLREGS_PIPE
    NumDs,         \* NUM_DSREGS
    IfDefault,     \* the defaults of the interface registers
    ApbRequests    \* what the host may ask: records [wr, addr, data]

Word    == 0 .. 2 ^ WordBits - 1
AllOnes == 2 ^ WordBits - 1

IFCAS == 0
RTKEY == 1
RTMSK == 2
RTRTE == 3
DCCNT == 4
MPKEY == 5
MPMSK == 6
MPSFT == 7
MPLMT == 8
FLVAL == 9
FLMSK == 11
DSKEY == 13
DSMSK == 14
DSSFT == 15

SOFT_RES == 1
IfRegs   == {0} \cup 2 .. 6      \* NUM_IFREGS is 7: SOFT_RES is not a real one
Counters == 0 .. 4               \* NUM_DCREGS is 5

Address(sec, reg) == 16 * sec + reg
Sec(a) == a \div 16
Addresses(sec, num) == {Address(sec, r) : r \in 0 .. num - 1}

RegAddrs ==
    UNION { IfRegs,
            UNION {Addresses(s, NumRt) : s \in {RTKEY, RTMSK, RTRTE}},
            Addresses(MPKEY, NumPipes),
            UNION {Addresses(s, NumMp * NumPipes) : s \in {MPMSK, MPSFT, MPLMT}},
            UNION {Addresses(s, NumFl * NumPipes) : s \in {FLVAL, FLMSK}},
            UNION {Addresses(s, NumDs) : s \in {DSKEY, DSMSK, DSSFT}} }
CtrAddr(i) == Address(DCCNT, i)
CtrAddrs   == {CtrAddr(i) : i \in Counters}

(* Values of their own: BAD_REG, and the status and version words. *)
BadReg   == AllOnes + 1
Info     == AllOnes + 2

(* A section has room for 16 registers. *)
ASSUME BankAssumption ==
    /\ NumPipes \in 1 .. 16 /\ NumRt \in 0 .. 16 /\ NumDs \in 0 .. 16
    /\ NumMp \in Nat \ {0} /\ NumMp * NumPipes <= 16
    /\ NumFl \in Nat \ {0} /\ NumFl * NumPipes <= 16
    /\ WordBits \in Nat \ {0}
    /\ RouteBits \in 0 .. WordBits /\ ShiftBits \in 0 .. WordBits
    /\ DsShiftBits \in 0 .. WordBits
    /\ AllOnes \in Nat /\ 2 ^ RouteBits \in 1 .. AllOnes + 1
    /\ 2 ^ ShiftBits \in 1 .. AllOnes + 1 /\ 2 ^ DsShiftBits \in 1 .. AllOnes + 1
    /\ IfDefault \in [IfRegs -> Word]
    /\ ApbRequests # {}
    /\ ApbRequests \subseteq [wr : BOOLEAN, addr : 0 .. 255 , data : Word]

VARIABLES
    bank,        \* the configuration registers
    ctr,         \* reg_ctr_out
    pready,      \* apb_pready_out
    prdata,      \* apb_prdata_out
    psel,        \* the APB master: select, enable and what it asks
    penable,
    req,
    seen,        \* history: what the register asked for has held since then
    missed,      \* history: no cycle has done the write that is asked for
    crowded      \* history: a packet was written in every cycle since then

registers == <<bank, ctr, pready, prdata>>
master    == <<psel, penable, req>>
history   == <<seen, missed, crowded>>
bankVars  == <<registers, master, history>>

---------------------------------------------------------------------------
(* Wires *)

apb_read  == psel /\ ~ req.wr
apb_write == psel /\ req.wr

IsSoftReset(prx) ==
    \/ prx.en /\ prx.addr = SOFT_RES
    \/ apb_write /\ req.addr = SOFT_RES

reg_wr_cflt(prx) == apb_read /\ prx.en

Fit(a, v) ==
    CASE Sec(a) = RTRTE -> v % (2 ^ RouteBits)
      [] Sec(a) = MPSFT -> v % (2 ^ ShiftBits)
      [] Sec(a) = DSSFT -> v % (2 ^ DsShiftBits)
      [] OTHER -> v

Default(a) ==
    CASE Sec(a) = IFCAS -> IfDefault[a]
      [] Sec(a) \in {RTKEY, MPLMT, FLVAL, DSMSK} -> AllOnes
      [] OTHER -> 0

SignExtended(v) ==
    IF 2 * v >= 2 ^ ShiftBits THEN v + (AllOnes + 1 - 2 ^ ShiftBits) ELSE v

ReadValue(a) ==
    CASE a \in RegAddrs ->
            IF Sec(a) = MPSFT THEN SignExtended(bank[a]) ELSE bank[a]
      [] a \in CtrAddrs -> ctr[a - CtrAddr(0)]
      [] a \in {14, 15} -> Info
      [] OTHER -> BadReg

---------------------------------------------------------------------------
(* The next value of each register: one operator per always block *)

PReady(prx)       == ~ reg_wr_cflt(prx)

Count(i, prx, counted) ==
    CASE prx.en /\ prx.addr = CtrAddr(i) -> prx.data
      [] ~ (prx.en /\ prx.addr = CtrAddr(i)) /\ apb_write /\ req.addr = CtrAddr(i) -> req.data
      [] OTHER -> IF i \in counted THEN (ctr[i] + 1) % (AllOnes + 1) ELSE ctr[i]

Defaults == [a \in RegAddrs |-> Default(a)]

Written(addr, data) ==
    [a \in RegAddrs |-> IF a = addr THEN Fit(a, data) ELSE bank[a]]

BankOnEnable(prx) ==
    IF IsSoftReset(prx) THEN Defaults
    ELSE IF prx.en THEN Written(prx.addr, prx.data)
    ELSE IF apb_write /\ penable THEN Written(req.addr, req.data) ELSE bank

Bank(prx) ==
    IF IsSoftReset(prx) THEN Defaults
    ELSE IF prx.en THEN Written(prx.addr, prx.data)
    ELSE IF apb_write THEN Written(req.addr, req.data) ELSE bank

PRDataOnEnable == IF apb_read /\ penable THEN ReadValue(req.addr) ELSE prdata
PRData         == IF apb_read THEN ReadValue(req.addr) ELSE prdata

---------------------------------------------------------------------------
(* The APB master *)

ApbEnds == psel /\ penable /\ pready

Master ==
    IF psel /\ ~ ApbEnds
    THEN penable' = TRUE /\ UNCHANGED <<psel, req>>
    ELSE /\ penable' = FALSE
         /\ \/ psel' = FALSE /\ UNCHANGED req
            \/ psel' = TRUE /\ req' \in ApbRequests

(* The write that is asked for takes effect in this cycle, or there is     *)
(* nothing to write to.                                                    *)
Lands(prx) ==
    CASE IsSoftReset(prx) -> TRUE
      [] ~ IsSoftReset(prx) /\ req.addr \in RegAddrs ->
            Bank(prx)[req.addr] = Fit(req.addr, req.data)
      [] ~ IsSoftReset(prx) /\ req.addr \in CtrAddrs ->
            Count(req.addr - CtrAddr(0), prx, {}) = req.data
      [] OTHER -> TRUE

Remember(prx) ==
    /\ seen' = IF apb_read /\ ~ ApbEnds THEN seen \cup {ReadValue(req.addr)} ELSE {}
    /\ IF apb_write /\ ~ ApbEnds
       THEN missed' = (missed /\ ~ Lands(prx)) /\ crowded' = (crowded /\ prx.en)
       ELSE missed' = TRUE /\ crowded' = TRUE

---------------------------------------------------------------------------
BankClock(prx, counted) ==
    /\ bank' = Bank(prx)
    /\ ctr' = [i \in Counters |-> Count(i, prx, counted)]
    /\ pready' = PReady(prx)
    /\ prdata' = PRData
    /\ Master /\ Remember(prx)

(* The reset of the chip: prdata has none. *)
BankReset ==
    /\ bank' = Defaults
    /\ ctr' = [i \in Counters |-> 0]
    /\ pready' = FALSE
    /\ psel' = FALSE /\ penable' = FALSE
    /\ seen' = {} /\ missed' = TRUE /\ crowded' = TRUE
    /\ UNCHANGED <<prdata, req>>

BankInit ==
    /\ bank = Defaults
    /\ ctr = [i \in Counters |-> 0]
    /\ pready = FALSE
    /\ prdata = BadReg
    /\ psel = FALSE /\ penable = FALSE /\ req \in ApbRequests
    /\ seen = {} /\ missed = TRUE /\ crowded = TRUE

---------------------------------------------------------------------------
(* What the host reads is a value that the register had in a cycle of the  *)
(* transfer, whichever cycles the ready signal adds to it: the read data   *)
(* are registered one cycle before they are taken.                         *)
ApbReadIsCurrent == ApbEnds /\ ~ req.wr => prdata \in seen

LostNow(prx) == ApbEnds /\ req.wr /\ missed /\ ~ Lands(prx)

=============================================================================
