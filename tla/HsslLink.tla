------------------------------- MODULE HsslLink -------------------------------
(***************************************************************************)
(* The state of the link: the loss-of-sync machine of hssl_interface.sv,   *)
(* on the clock of the interface, and the hand-shake watchdog of           *)
(* hssl_transceiver.v, on the free-running clock.                          *)
(*                                                                         *)
(* The transceiver and the spiNNlink controllers are in submodules: the    *)
(* received data may be anything, the hand-shake completes and ends as it  *)
(* likes while the interface is in sync, and the transceiver, when it is   *)
(* reset, resets the interface for a while (dvs_on_hssl_top.sv:317).       *)
(***************************************************************************)
EXTENDS Naturals

CONSTANTS
    NumClkcForSync,   \* 4 in the code
    NumVldPerInv,     \* 4
    NumInvForLoss,    \* 8
    NumClkcForHsr,    \* 75000000
    LenHsr            \* 128

ASSUME LinkAssumption ==
    /\ NumClkcForSync \in Nat \ {0} /\ NumVldPerInv \in Nat \ {0}
    /\ NumInvForLoss \in Nat /\ NumVldPerInv < NumInvForLoss
    /\ NumClkcForHsr \in Nat \ {0} /\ LenHsr \in Nat \ {0}

VARIABLES
    los,          \* loss_of_sync_state_out
    resync_cnt,
    inv_cnt,
    hsr_cnt,      \* the watchdog
    hsr_pulse,
    invalid_data, \* input wires: the datum received has an error,
    rcvd_vld,     \* it is of a frame,
    commadet,     \* a comma was seen;
    handshake,    \* the hand-shake is complete
    hi_reset,     \* the reset of the interface
    reset_all,    \* and of the board
    clean,        \* history: cycles in RESYNC
    gap,          \* history: data of frames since the last error,
    sparse,       \* there were enough of them before every error in sync
    down          \* history: cycles of the watchdog without a hand-shake

syncVars  == <<los, resync_cnt, inv_cnt, clean, gap, sparse>>
dogVars   == <<hsr_cnt, hsr_pulse, down>>
inputs    == <<invalid_data, rcvd_vld, commadet>>
vars      == <<syncVars, dogVars, inputs, handshake, hi_reset, reset_all>>

States == {"LOSS_OF_SYNC", "RESYNC", "SYNC_ACQUIRED"}

TypeOK ==
    /\ los \in States
    /\ resync_cnt \in 0 .. NumClkcForSync + 1
    /\ inv_cnt \in 0 .. NumInvForLoss + 2 * NumVldPerInv
    /\ hsr_cnt \in 0 .. NumClkcForHsr + 1 /\ hsr_pulse \in 0 .. LenHsr
    /\ clean \in 0 .. NumClkcForSync + 1 /\ gap \in 0 .. NumVldPerInv
    /\ down \in 0 .. NumClkcForHsr + 1
    /\ {sparse, invalid_data, rcvd_vld, commadet, handshake, hi_reset, reset_all} \subseteq BOOLEAN

---------------------------------------------------------------------------
(* The next value of each register of the loss-of-sync machine *)

ResyncCntKept == IF los = "RESYNC" THEN resync_cnt + 1 ELSE resync_cnt
ResyncCntRestarted ==
    IF los = "RESYNC" /\ ~ commadet THEN resync_cnt + 1 ELSE 0
ResyncCnt     == IF los = "RESYNC" THEN resync_cnt + 1 ELSE 0

InvCntKept ==
    CASE los # "SYNC_ACQUIRED" -> inv_cnt
      [] los = "SYNC_ACQUIRED" /\ invalid_data -> inv_cnt + NumVldPerInv
      [] los = "SYNC_ACQUIRED" /\ ~ invalid_data ->
            IF rcvd_vld /\ inv_cnt # 0 THEN inv_cnt - 1 ELSE inv_cnt
InvCnt ==
    CASE los # "SYNC_ACQUIRED" -> 0
      [] los = "SYNC_ACQUIRED" /\ invalid_data -> inv_cnt + NumVldPerInv
      [] los = "SYNC_ACQUIRED" /\ ~ invalid_data ->
            IF rcvd_vld /\ inv_cnt # 0 THEN inv_cnt - 1 ELSE inv_cnt

LossOfSync ==
    CASE los = "LOSS_OF_SYNC" -> IF commadet THEN "RESYNC" ELSE los
      [] los = "RESYNC" ->
            IF invalid_data THEN "LOSS_OF_SYNC"
            ELSE IF resync_cnt >= NumClkcForSync THEN "SYNC_ACQUIRED" ELSE los
      [] los = "SYNC_ACQUIRED" ->
            IF inv_cnt >= NumInvForLoss THEN "LOSS_OF_SYNC" ELSE los

---------------------------------------------------------------------------
(* The next value of each register of the watchdog *)

hsr_reset == hsr_pulse # 0

HsrCntDeaf  == IF hsr_reset THEN 0 ELSE hsr_cnt + 1
HsrCnt      == IF handshake \/ hsr_reset THEN 0 ELSE hsr_cnt + 1

HsrPulseRenewed ==
    IF hsr_reset THEN IF handshake THEN hsr_pulse - 1 ELSE LenHsr
    ELSE IF hsr_cnt = NumClkcForHsr THEN LenHsr ELSE 0
HsrPulse ==
    IF hsr_reset THEN hsr_pulse - 1
    ELSE IF hsr_cnt = NumClkcForHsr THEN LenHsr ELSE 0

---------------------------------------------------------------------------
Least(a, b) == IF a < b THEN a ELSE b

Sample ==
    /\ invalid_data' \in BOOLEAN /\ rcvd_vld' \in BOOLEAN /\ commadet' \in BOOLEAN
    /\ handshake' \in BOOLEAN /\ (handshake' => los = "SYNC_ACQUIRED")

Remember ==
    /\ clean' = IF los = "RESYNC" /\ ~ invalid_data THEN Least(clean + 1, NumClkcForSync + 1)
                ELSE 0
    /\ IF los = "SYNC_ACQUIRED"
       THEN /\ gap' = IF invalid_data THEN 0
                      ELSE IF rcvd_vld THEN Least(gap + 1, NumVldPerInv) ELSE gap
            /\ sparse' = (sparse /\ (invalid_data => gap = NumVldPerInv))
       ELSE gap' = NumVldPerInv /\ sparse' = TRUE

(* A cycle of the interface, *)
Clock ==
    /\ ~ hi_reset
    /\ los' = LossOfSync
    /\ resync_cnt' = ResyncCnt
    /\ inv_cnt' = InvCnt
    /\ Sample /\ Remember
    /\ UNCHANGED <<dogVars, hi_reset, reset_all>>

(* and one of the watchdog. *)
FreeClock ==
    /\ hsr_cnt' = HsrCnt
    /\ hsr_pulse' = HsrPulse
    /\ down' = IF handshake \/ hsr_reset THEN 0 ELSE Least(down + 1, NumClkcForHsr + 1)
    /\ reset_all' = FALSE
    /\ UNCHANGED <<syncVars, inputs, handshake, hi_reset>>

SyncReset ==
    /\ los' = "LOSS_OF_SYNC" /\ resync_cnt' = 0 /\ inv_cnt' = 0
    /\ clean' = 0 /\ gap' = NumVldPerInv /\ sparse' = TRUE
    /\ handshake' = FALSE /\ hi_reset' = TRUE
    /\ UNCHANGED inputs

(* The transceiver, which the watchdog has reset, and comes back. *)
TransceiverReset ==
    hsr_reset /\ ~ hi_reset /\ SyncReset /\ UNCHANGED <<dogVars, reset_all>>

TransceiverDone ==
    /\ hi_reset /\ hi_reset' = FALSE
    /\ UNCHANGED <<syncVars, dogVars, inputs, handshake, reset_all>>

ResetAll ==
    /\ SyncReset
    /\ hsr_cnt' = 0 /\ hsr_pulse' = 0 /\ down' = 0
    /\ reset_all' = TRUE

Init ==
    /\ los = "LOSS_OF_SYNC" /\ resync_cnt = 0 /\ inv_cnt = 0
    /\ hsr_cnt = 0 /\ hsr_pulse = 0
    /\ invalid_data \in BOOLEAN /\ rcvd_vld \in BOOLEAN /\ commadet \in BOOLEAN
    /\ handshake = FALSE /\ hi_reset = TRUE /\ reset_all = TRUE
    /\ clean = 0 /\ gap = NumVldPerInv /\ sparse = TRUE /\ down = 0

Next == Clock \/ FreeClock \/ TransceiverReset \/ TransceiverDone \/ ResetAll

Spec     == Init /\ [][Next]_vars
FairSpec == Spec /\ WF_vars(Clock) /\ WF_vars(FreeClock)

---------------------------------------------------------------------------
(* The interface comes into sync only after more than NUM_CLKC_FOR_SYNC    *)
(* cycles without an error in a row, however often it has tried before:    *)
(* the cycles of an attempt that failed do not count.                      *)
SyncEarned ==
    [][los # "SYNC_ACQUIRED" /\ los' = "SYNC_ACQUIRED"
          => clean >= NumClkcForSync /\ ~ invalid_data]_vars

(* A line with few errors stays in sync: if NUM_VLD_PER_INV data of frames *)
(* come before every error, only a reset takes the sync away, although the *)
(* counter is compared a cycle late and may be at its limit by then.       *)
SparseErrorsTolerated ==
    [][los = "SYNC_ACQUIRED" /\ sparse => los' = "SYNC_ACQUIRED" \/ hi_reset']_vars

(* The error counter of a new attempt is 0 when it comes into sync: the    *)
(* errors of the time before, the late ones too, are not held against it.  *)
StartsAfresh == los = "RESYNC" => inv_cnt = 0

(* A line without errors comes into sync, in whatever state it was.        *)
LinkRecovers ==
    <>[](~ invalid_data /\ ~ hi_reset) /\ []<>commadet => <>[](los = "SYNC_ACQUIRED")

(* The counter never runs past the value it is compared with, except in    *)
(* the cycle that begins a pulse: it would have to wrap round before the   *)
(* watchdog worked again.                                                  *)
WatchdogArmed == hsr_cnt <= NumClkcForHsr \/ hsr_pulse = LenHsr

(* A pulse begins when, and only when, there was no hand-shake for         *)
(* NUM_CLKC_FOR_HSR cycles; the one that completes in the cycle of the     *)
(* comparison comes too late.                                              *)
PulseEarned == [][hsr_pulse = 0 /\ hsr_pulse' # 0 => down = NumClkcForHsr]_vars

(* While there is no hand-shake the transceiver is reset again and again,  *)
(* and released after every reset.                                         *)
WatchdogRetries ==
    <>[](~ handshake /\ ~ reset_all) => []<>(hsr_reset) /\ []<>(~ hsr_reset)

=============================================================================
