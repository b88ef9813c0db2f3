------------------------- MODULE RouterAndLinkProofs -------------------------
(***************************************************************************)
(* Proofs about the way of a packet to SpiNNaker, for every value of the   *)
(* constants: the packet router, which chooses a channel or drops, and the *)
(* loss-of-sync machine and the watchdog of the link.  The two modules     *)
(* share no name; each part of the proofs is about one of them.            *)
(***************************************************************************)
EXTENDS PktRouter, HsslLink, TLAPS

---------------------------------------------------------------------------
(* The packet router *)

(* A route is that of an entry of the table, with no hit before it. *)
LEMMA RouteIsFirst ==
    ASSUME RouterTypeOK, NEW key \in Keys, Route(key) # NoRoute
    PROVE  \E i \in 1 .. NumRt :
              /\ table[i].route = Route(key) /\ Route(key) \in Channels
              /\ key \in table[i].hits
              /\ \A j \in 1 .. i - 1 : key \notin table[j].hits
<1>1. Deciding(key) # {}
  BY DEF Route
<1> DEFINE i == CHOOSE n \in Deciding(key) : TRUE
<1>2. i \in Deciding(key)
  BY <1>1
<1> HIDE DEF i
<1>3. Route(key) = table[i].route
  BY <1>1 DEF Route, i
<1>4. i \in 1 .. NumRt /\ key \in table[i].hits
  BY <1>2 DEF Deciding, Hits
<1>5. \A j \in 1 .. i - 1 : key \notin table[j].hits
  <2> SUFFICES ASSUME NEW j \in 1 .. i - 1 PROVE key \notin table[j].hits
    OBVIOUS
  <2>1. j \in 1 .. NumRt
    BY <1>4, RouterAssumption
  <2> QED
    BY <2>1, <1>2 DEF Deciding, Hits
<1>6. table[i] \in Entry
  BY <1>4, RouterAssumption DEF RouterTypeOK
<1>7. Route(key) \in Channels
  BY <1>3, <1>6 DEF Entry
<1> QED
  BY <1>3, <1>4, <1>5, <1>7

(* Every register, input wire and history variable keeps its type. *)
THEOREM RouterTypeCorrect == RouterSpec => []RouterTypeOK
<1>1. RouterInit => RouterTypeOK
  BY DEF RouterInit, RouterTypeOK
<1>2. RouterTypeOK /\ [RouterNext]_routerVars => RouterTypeOK'
  <2> SUFFICES ASSUME RouterTypeOK, [RouterNext]_routerVars PROVE RouterTypeOK'
    OBVIOUS
  <2>1. CASE RouterClock
    <3>1. wait_cnt' \in Nat
      BY <2>1, RouterAssumption DEF RouterTypeOK, RouterClock, WaitCount
    <3>2. Leaves => Route(pkt_key) \in Channels
      BY RouteIsFirst DEF RouterTypeOK, Leaves
    <3>3. held' \subseteq Channels /\ key_out' \in [Channels -> Keys]
      BY <2>1, <3>2 DEF RouterTypeOK, RouterClock, Held, KeyOut
    <3>4. waited' \in Nat /\ granted' \in Nat
      BY <2>1, RouterAssumption DEF RouterTypeOK, RouterClock, RememberWait
    <3> QED
      BY <2>1, <3>1, <3>3, <3>4 DEF RouterTypeOK, RouterClock, RouterSample
  <2>2. CASE RouterReset
    BY <2>2 DEF RouterTypeOK, RouterReset, RouterSample
  <2>3. CASE UNCHANGED routerVars
    BY <2>3 DEF RouterTypeOK, routerVars
  <2> QED
    BY <2>1, <2>2, <2>3 DEF RouterNext
<1> QED
  BY <1>1, <1>2, PTL DEF RouterSpec

(* What has been waited and what is left make up what was granted, whether *)
(* a packet is blocked or not.                                             *)
Balance == waited + wait_cnt = granted

LEMMA BalanceHolds == RouterSpec => []Balance
<1>1. RouterInit => Balance
  BY DEF RouterInit, Balance
<1>2. RouterTypeOK /\ Balance /\ [RouterNext]_routerVars => Balance'
  <2> SUFFICES ASSUME RouterTypeOK, Balance, [RouterNext]_routerVars PROVE Balance'
    OBVIOUS
  <2>1. CASE RouterClock
    <3>1. drop_wait_in \in Nat /\ wait_cnt \in Nat /\ waited \in Nat /\ granted \in Nat
      BY RouterAssumption DEF RouterTypeOK
    <3>2. CASE blocked /\ wait_cnt # 0
      <4>1. wait_cnt' = wait_cnt - 1
        BY <2>1, <3>2 DEF RouterClock, WaitCount
      <4>2. waited' = waited + 1 /\ granted' = granted
        BY <2>1, <3>1, <3>2 DEF RouterClock, RememberWait, drop_pkt, Balance
      <4> QED
        BY <3>1, <4>1, <4>2 DEF Balance
    <3>3. CASE ~ (blocked /\ wait_cnt # 0)
      <4>1. wait_cnt' = drop_wait_in
        BY <2>1, <3>3 DEF RouterClock, WaitCount
      <4>2. waited' = 0 /\ granted' = drop_wait_in
        BY <2>1, <3>3 DEF RouterClock, RememberWait, drop_pkt
      <4> QED
        BY <3>1, <4>1, <4>2 DEF Balance
    <3> QED
      BY <3>2, <3>3
  <2>2. CASE RouterReset
    BY <2>2 DEF RouterReset, Balance
  <2>3. CASE UNCHANGED routerVars
    BY <2>3 DEF Balance, routerVars
  <2> QED
    BY <2>1, <2>2, <2>3 DEF RouterNext
<1> QED
  BY <1>1, <1>2, RouterTypeCorrect, PTL DEF RouterSpec

(* Every blocked packet is given exactly the wait that was configured when *)
(* it began to wait, whatever is written to the register meanwhile         *)
(* (pkt_router.sv:127 to 132, WaitCounted).                                *)
THEOREM WaitIsExact == RouterSpec => []WaitCounted
<1>1. Balance => WaitCounted
  BY DEF Balance, WaitCounted
<1> QED
  BY <1>1, BalanceHolds, PTL

(* It is dropped when that wait is over, and not before (DroppedOnTime).   *)
THEOREM DropIsExact == RouterSpec => []DroppedOnTime
<1>1. RouterTypeOK /\ Balance => DroppedOnTime
  BY DEF RouterTypeOK, Balance, DroppedOnTime, drop_pkt
<1> QED
  BY <1>1, BalanceHolds, RouterTypeCorrect, PTL

(* No packet appears on a channel but by the first entry that hits it      *)
(* (FirstHit).                                                             *)
THEOREM FirstEntryDecides == RouterSpec => FirstHit
<1>1. ASSUME RouterTypeOK, RouterNext, NEW c \in Channels, c \in held', c \notin held \ rdy
      PROVE  \E i \in 1 .. NumRt :
                /\ table[i].route = c /\ key_out'[c] \in table[i].hits
                /\ \A j \in 1 .. i - 1 : key_out'[c] \notin table[j].hits
  <2>1. RouterClock
    BY <1>1 DEF RouterNext, RouterReset
  <2>2. Leaves /\ c = Route(pkt_key) /\ Route(pkt_key) # NoRoute
    BY <1>1, <2>1 DEF RouterClock, Held, Leaves
  <2>3. key_out'[c] = pkt_key
    BY <1>1, <2>1, <2>2 DEF RouterClock, KeyOut, RouterTypeOK
  <2> QED
    BY <1>1, <2>2, <2>3, RouteIsFirst DEF RouterTypeOK
<1>2. RouterTypeOK /\ [RouterNext]_routerVars =>
        [\A c \in Channels : (c \in held' /\ c \notin held \ rdy)
            => \E i \in 1 .. NumRt :
                  /\ table[i].route = c /\ key_out'[c] \in table[i].hits
                  /\ \A j \in 1 .. i - 1 : key_out'[c] \notin table[j].hits]_routerVars
  BY <1>1
<1> QED
  BY <1>2, RouterTypeCorrect, PTL DEF RouterSpec, FirstHit

---------------------------------------------------------------------------
(* The link: the counters stay in their ranges, and the machine and the    *)
(* watchdog do what they do for the reason the histories record.           *)

(* The attempt to come into sync is as old as its cycles without errors.   *)
Attempt ==
    los = "RESYNC" => resync_cnt = clean /\ resync_cnt <= NumClkcForSync /\ inv_cnt = 0

(* An error counter that is still below its limit grows by one error, and  *)
(* by no more than is left of the last one when errors are sparse.         *)
Errors ==
    los = "SYNC_ACQUIRED" =>
        /\ inv_cnt <= NumInvForLoss + NumVldPerInv
        /\ sparse => inv_cnt + gap <= NumVldPerInv

(* The watchdog counts the cycles without a hand-shake.                    *)
Counted ==
    /\ down = hsr_cnt
    /\ hsr_cnt = NumClkcForHsr + 1 => hsr_pulse = LenHsr

SyncTypes ==
    /\ los \in States
    /\ resync_cnt \in 0 .. NumClkcForSync + 1
    /\ inv_cnt \in 0 .. NumInvForLoss + 2 * NumVldPerInv
    /\ clean \in 0 .. NumClkcForSync + 1 /\ gap \in 0 .. NumVldPerInv
    /\ sparse \in BOOLEAN

DogTypes ==
    /\ hsr_cnt \in 0 .. NumClkcForHsr + 1 /\ hsr_pulse \in 0 .. LenHsr
    /\ down \in 0 .. NumClkcForHsr + 1

WireTypes ==
    /\ invalid_data \in BOOLEAN /\ rcvd_vld \in BOOLEAN /\ commadet \in BOOLEAN
    /\ handshake \in BOOLEAN /\ hi_reset \in BOOLEAN /\ reset_all \in BOOLEAN

SyncInv == SyncTypes /\ Attempt /\ Errors
DogInv  == DogTypes /\ Counted
IInv    == SyncInv /\ DogInv /\ WireTypes

---------------------------------------------------------------------------
LEMMA InitEstablishes == Init => IInv
<1> SUFFICES ASSUME Init PROVE IInv
  OBVIOUS
<1> USE LinkAssumption DEF Init
<1>1. SyncTypes
  <2>1. /\ resync_cnt \in 0 .. NumClkcForSync + 1 /\ clean \in 0 .. NumClkcForSync + 1
        /\ inv_cnt \in 0 .. NumInvForLoss + 2 * NumVldPerInv
        /\ gap \in 0 .. NumVldPerInv
    OBVIOUS
  <2>2. los \in States /\ sparse \in BOOLEAN
    BY DEF States
  <2> QED BY <2>1, <2>2 DEF SyncTypes
<1>2. Attempt /\ Errors
  BY DEF Attempt, Errors
<1>3. DogInv
  BY DEF DogInv, DogTypes, Counted
<1>4. WireTypes
  BY Zenon DEF WireTypes
<1> QED BY <1>1, <1>2, <1>3, <1>4 DEF IInv, SyncInv

(* A reset brings the loss-of-sync machine to the state it starts in.      *)
LEMMA ResetRestarts ==
    ASSUME SyncReset
    PROVE  SyncInv'
  BY LinkAssumption DEF SyncReset, SyncInv, SyncTypes, Attempt, Errors, States

(* A cycle of the interface, by the state that it finds the machine in.    *)
LEMMA CycleKeepsSync ==
    ASSUME SyncInv, WireTypes, Clock
    PROVE  SyncInv'
<1> USE LinkAssumption DEF SyncInv, SyncTypes, WireTypes, Attempt, Errors, States,
        Clock, Remember, LossOfSync, ResyncCnt, InvCnt, Least
<1>1. CASE los = "LOSS_OF_SYNC"
  BY <1>1
<1>2. CASE los = "RESYNC"
  <2>1. resync_cnt' = resync_cnt + 1 /\ inv_cnt' = 0 /\ gap' = NumVldPerInv /\ sparse' = TRUE
    BY <1>2
  <2>2. CASE invalid_data
    BY <1>2, <2>1, <2>2
  <2>3. CASE ~ invalid_data /\ resync_cnt >= NumClkcForSync
    BY <1>2, <2>1, <2>3
  <2>4. CASE ~ invalid_data /\ ~ (resync_cnt >= NumClkcForSync)
    BY <1>2, <2>1, <2>4
  <2> QED BY <2>2, <2>3, <2>4
<1>3. CASE los = "SYNC_ACQUIRED"
  <2>1. /\ clean' = 0 /\ resync_cnt' = 0
        /\ los' = IF inv_cnt >= NumInvForLoss THEN "LOSS_OF_SYNC" ELSE los
        /\ sparse' = (sparse /\ (invalid_data => gap = NumVldPerInv))
    BY <1>3
  <2>2. CASE invalid_data
    <3>1. inv_cnt' = inv_cnt + NumVldPerInv /\ gap' = 0
      BY <1>3, <2>2
    <3> QED BY <1>3, <2>1, <2>2, <3>1
  <2>3. CASE ~ invalid_data /\ rcvd_vld
    <3>1. /\ inv_cnt' = IF inv_cnt # 0 THEN inv_cnt - 1 ELSE inv_cnt
          /\ gap' = IF gap + 1 < NumVldPerInv THEN gap + 1 ELSE NumVldPerInv
      BY <1>3, <2>3
    <3> QED BY <1>3, <2>1, <2>3, <3>1
  <2>4. CASE ~ invalid_data /\ ~ rcvd_vld
    <3>1. inv_cnt' = inv_cnt /\ gap' = gap
      BY <1>3, <2>4
    <3> QED BY <1>3, <2>1, <2>4, <3>1
  <2> QED BY <2>2, <2>3, <2>4
<1> QED BY <1>1, <1>2, <1>3

(* A cycle of the watchdog.                                                *)
LEMMA CycleKeepsDog ==
    ASSUME DogInv, WireTypes, FreeClock
    PROVE  DogInv'
<1> USE LinkAssumption DEF DogInv, DogTypes, WireTypes, Counted, FreeClock, HsrCnt,
        HsrPulse, hsr_reset, Least
<1>1. CASE hsr_pulse # 0
  BY <1>1
<1>2. CASE hsr_pulse = 0
  <2>1. hsr_cnt <= NumClkcForHsr
    BY <1>2
  <2>2. CASE handshake
    BY <1>2, <2>1, <2>2
  <2>3. CASE ~ handshake
    BY <1>2, <2>1, <2>3
  <2> QED BY <2>2, <2>3
<1> QED BY <1>1, <1>2

LEMMA StepPreserves == IInv /\ [Next]_vars => IInv'
<1> SUFFICES ASSUME IInv, [Next]_vars PROVE IInv'
  OBVIOUS
<1> USE DEF IInv
<1>1. CASE Clock
  <2>1. SyncInv'
    BY <1>1, CycleKeepsSync
  <2>2. DogInv'
    BY <1>1 DEF Clock, DogInv, DogTypes, Counted, dogVars
  <2>3. WireTypes'
    BY <1>1 DEF Clock, Sample, WireTypes
  <2> QED BY <2>1, <2>2, <2>3
<1>2. CASE FreeClock
  <2>1. DogInv'
    BY <1>2, CycleKeepsDog
  <2>2. SyncInv'
    BY <1>2 DEF FreeClock, SyncInv, SyncTypes, Attempt, Errors, syncVars
  <2>3. WireTypes'
    BY <1>2 DEF FreeClock, WireTypes, inputs
  <2> QED BY <2>1, <2>2, <2>3
<1>3. CASE TransceiverReset
  <2>1. SyncInv'
    BY <1>3, ResetRestarts DEF TransceiverReset
  <2>2. DogInv' /\ WireTypes'
    BY <1>3 DEF TransceiverReset, SyncReset, DogInv, DogTypes, Counted, WireTypes,
                dogVars, inputs
  <2> QED BY <2>1, <2>2
<1>4. CASE TransceiverDone
  BY <1>4 DEF TransceiverDone, SyncInv, SyncTypes, Attempt, Errors, DogInv, DogTypes,
              Counted, WireTypes, syncVars, dogVars, inputs
<1>5. CASE ResetAll
  <2>1. SyncInv'
    BY <1>5, ResetRestarts DEF ResetAll
  <2>2. DogInv'
    BY <1>5, LinkAssumption DEF ResetAll, DogInv, DogTypes, Counted
  <2>3. WireTypes'
    BY <1>5, Zenon DEF ResetAll, SyncReset, WireTypes, inputs
  <2> QED BY <2>1, <2>2, <2>3
<1>6. CASE UNCHANGED vars
  BY <1>6 DEF vars, SyncInv, SyncTypes, Attempt, Errors, DogInv, DogTypes, Counted,
              WireTypes, syncVars, dogVars, inputs
<1> QED BY <1>1, <1>2, <1>3, <1>4, <1>5, <1>6 DEF Next

LEMMA Always == Spec => []IInv
  BY InitEstablishes, StepPreserves, PTL DEF Spec

---------------------------------------------------------------------------
(* Every counter of both machines stays in its range, the error counter    *)
(* within two errors of the limit it is compared with (TypeOK).            *)
THEOREM TypeCorrect == Spec => []TypeOK
<1>1. IInv => TypeOK
  BY DEF IInv, SyncInv, SyncTypes, DogInv, DogTypes, WireTypes, TypeOK
<1> QED BY Always, <1>1, PTL

(* The error counter is 0 throughout every attempt (StartsAfresh).         *)
THEOREM FreshErrorCounter == Spec => []StartsAfresh
<1>1. IInv => StartsAfresh
  BY DEF IInv, SyncInv, Attempt, StartsAfresh
<1> QED BY Always, <1>1, PTL

(* The watchdog cannot count past its limit unnoticed (WatchdogArmed).     *)
THEOREM WatchdogStaysArmed == Spec => []WatchdogArmed
<1>1. IInv => WatchdogArmed
  BY LinkAssumption DEF IInv, DogInv, DogTypes, Counted, WatchdogArmed
<1> QED BY Always, <1>1, PTL

(* Sync is gained by enough cycles without an error in a row, whatever     *)
(* happened in the attempts before (SyncEarned).                           *)
THEOREM SyncIsEarned == Spec => SyncEarned
<1>1. IInv /\ [Next]_vars =>
        [los # "SYNC_ACQUIRED" /\ los' = "SYNC_ACQUIRED"
            => clean >= NumClkcForSync /\ ~ invalid_data]_vars
  <2> SUFFICES ASSUME IInv, Next, los # "SYNC_ACQUIRED", los' = "SYNC_ACQUIRED"
               PROVE  clean >= NumClkcForSync /\ ~ invalid_data
    OBVIOUS
  <2>1. Clock
    BY DEF Next, FreeClock, TransceiverReset, TransceiverDone, ResetAll, SyncReset,
           syncVars
  <2>2. los = "RESYNC" /\ ~ invalid_data /\ resync_cnt >= NumClkcForSync
    BY <2>1 DEF Clock, LossOfSync, IInv, SyncInv, SyncTypes, States
  <2> QED BY <2>2 DEF IInv, SyncInv, Attempt
<1> QED BY Always, <1>1, PTL DEF Spec, SyncEarned

(* Sparse errors never take the sync away (SparseErrorsTolerated).         *)
THEOREM SparseErrorsAreTolerated == Spec => SparseErrorsTolerated
<1>1. IInv /\ [Next]_vars =>
        [los = "SYNC_ACQUIRED" /\ sparse => los' = "SYNC_ACQUIRED" \/ hi_reset']_vars
  <2> SUFFICES ASSUME IInv, Next, los = "SYNC_ACQUIRED", sparse, ~ hi_reset'
               PROVE  los' = "SYNC_ACQUIRED"
    OBVIOUS
  <2>1. ~ (inv_cnt >= NumInvForLoss)
    BY LinkAssumption DEF IInv, SyncInv, SyncTypes, Errors
  <2>2. CASE Clock
    BY <2>1, <2>2 DEF Clock, LossOfSync
  <2>3. CASE FreeClock \/ TransceiverDone
    BY <2>3 DEF FreeClock, TransceiverDone, syncVars
  <2>4. CASE TransceiverReset \/ ResetAll
    BY <2>4 DEF TransceiverReset, ResetAll, SyncReset
  <2> QED BY <2>2, <2>3, <2>4 DEF Next
<1> QED BY Always, <1>1, PTL DEF Spec, SparseErrorsTolerated

(* The watchdog resets only a link that has been without a hand-shake for  *)
(* the whole interval (PulseEarned).                                       *)
THEOREM PulseIsEarned == Spec => PulseEarned
<1>1. IInv /\ [Next]_vars =>
        [hsr_pulse = 0 /\ hsr_pulse' # 0 => down = NumClkcForHsr]_vars
  <2> SUFFICES ASSUME IInv, Next, hsr_pulse = 0, hsr_pulse' # 0
               PROVE  down = NumClkcForHsr
    OBVIOUS
  <2>1. FreeClock
    BY DEF Next, Clock, TransceiverReset, TransceiverDone, ResetAll, dogVars
  <2> QED BY <2>1 DEF FreeClock, HsrPulse, hsr_reset, IInv, DogInv, Counted
<1> QED BY Always, <1>1, PTL DEF Spec, PulseEarned

=============================================================================
