----------------------------- MODULE ConfigPath ------------------------------
(***************************************************************************)
(* The configuration path: a SpiNNaker program that configures spif and    *)
(* then reads two counters (count_events.c), the packet receiver and the   *)
(* register bank, with the host at the APB port and peripheral packets     *)
(* between the configuration packets.                                      *)
(***************************************************************************)
EXTENDS PktReceiver, SpifLocal, Sequences

CONSTANTS
    Entries,       \* routing entries that the program sets, 8 in the code
    RoutingMask,   \* and their mask
    MprKey, FieldMask, FieldShift,   \* MPR_KEY, MPF_MASK_*, MPF_SHIFT_*
    DropWait,      \* PKT_DROP_WAIT
    FilterValue, FilterMask,         \* a filter of the last pipe
    FedElsewhere,  \* counters that other components count up: 0, 2 and 3
    ResetPoints    \* numbers of packets sent at which a reset may come: a bound

(* The program and the bank agree on the number of registers (spif.h,      *)
(* hssl_reg_bank.h), and what the program writes are words.                *)
ASSUME ProgramAssumption ==
    /\ MpRegsNum = NumMp /\ FlRegsNum = NumFl
    /\ Entries \in 0 .. NumRt
    /\ {RoutingMask, MprKey, DropWait, FilterValue, FilterMask} \subseteq Word
    /\ FieldMask \in [0 .. NumMp - 1 -> Word] /\ FieldShift \in [0 .. NumMp - 1 -> Word]

(* start_spif, and a filter, which count_events leaves unset.              *)
FilteredPipe == NumPipes - 1
Configuration ==
    StartSpif(Entries, NumPipes, RoutingMask, MprKey, FieldMask, FieldShift, DropWait)
    \o << spif_set_filter_value(FilteredPipe, 0, FilterValue),
          spif_set_filter_mask(FilteredPipe, 0, FilterMask) >>

(* test_control: the program reads its counters when it has configured. *)
Program ==
    Configuration \o
    <<spif_read_counter(SPIF_COUNT_IN), spif_read_counter(SPIF_COUNT_IN_DROP)>>

VARIABLES
    sent,        \* packets of the program that the receiver has accepted, or never will
    spif_cnt,    \* the counters that the program has received
    reset,       \* hi_reset_int
    hit          \* history: what sent was when the last reset hit the link

vars == <<bankVars, receiverVars, sent, spif_cnt, reset, hit>>

Init ==
    /\ BankInit /\ ReceiverInit
    /\ sent = 0 /\ spif_cnt = {} /\ reset = TRUE /\ hit = 0

---------------------------------------------------------------------------
Finished == sent = Len(Program)

(* What the link may offer next, after n packets of the program. *)
Peripheral == [Idle EXCEPT !.vld = TRUE]
Offers(n) ==
    {Idle, Peripheral} \cup {Program[i] : i \in {n + 1} \cap 1 .. Len(Program)}

(* rcv_replies, when a reply leaves *)
RcvReplies ==
    IF dcp_vld /\ dcp_rdy /\ Reply.key = IfDefault[REPLY_KEY]
    THEN spif_cnt' = spif_cnt \cup ({Reply.off} \cap {SPIF_COUNT_IN, SPIF_COUNT_IN_DROP})
    ELSE UNCHANGED spif_cnt

Clock ==
    /\ \E counted \in SUBSET FedElsewhere : BankClock(Prx, CountedHere \cup counted)
    /\ ReceiverClock
    /\ sent' = IF Accepted /\ pkt.cfg THEN sent + 1 ELSE sent
    /\ pkt' \in Offers(sent')
    /\ RcvReplies
    /\ reset' = FALSE /\ UNCHANGED hit

(* A reset of the transceiver, which the watchdog of the hand-shake begins *)
(* too: what the receiver holds is gone.  The bank is reset with it when   *)
(* the clock of the transceiver stops, and goes on without packets when it *)
(* does not.  The program is not told: it goes on, and what it sends       *)
(* meanwhile may be lost.                                                  *)
NoPacket == [en |-> FALSE, addr |-> 0, data |-> 0]

Reset ==
    /\ \/ BankReset
       \/ \E counted \in SUBSET FedElsewhere : BankClock(NoPacket, counted)
    /\ ReceiverReset
    /\ sent' \in {sent, sent + 1} \cap ResetPoints /\ sent' <= Len(Program)
    /\ hit' = sent'
    /\ reset' = TRUE /\ UNCHANGED spif_cnt

Next == Clock \/ Reset

Spec     == Init /\ [][Next]_vars
FairSpec == Spec /\ WF_vars(Clock)

---------------------------------------------------------------------------
(* A write of the host that ends has taken effect, unless packets were     *)
(* written in every cycle of its transfer: it has two cycles at least, and *)
(* does the write in both.  (The conflict that would delay it, line 203,   *)
(* is only detected for reads.)                                            *)
ApbWriteLandsUnlessCrowded == LostNow(Prx) => crowded /\ Prx.en

(* What the calls of the program ask for, by the meaning of each register, *)
(* and the defaults elsewhere.                                             *)
Asked(a) ==
    LET reg == a % 16
    IN  CASE Sec(a) \in {RTKEY, RTRTE} /\ reg < Entries -> Fit(a, reg)
          [] Sec(a) = RTMSK /\ reg < Entries -> RoutingMask
          [] Sec(a) = MPKEY -> MprKey
          [] Sec(a) = MPMSK -> FieldMask[reg % NumMp]
          [] Sec(a) = MPSFT -> Fit(a, FieldShift[reg % NumMp])
          [] Sec(a) = FLVAL /\ reg = NumFl * FilteredPipe -> FilterValue
          [] Sec(a) = FLMSK /\ reg = NumFl * FilteredPipe -> FilterMask
          [] a = SPIF_IN_DROP_WAIT -> DropWait
          [] OTHER -> Default(a)

HostWrites == {r.addr : r \in {q \in ApbRequests : q.wr}}

SetAfter(n, a) == \E i \in n + 1 .. Len(Configuration) : Configuration[i].addr = a

(* When the program has configured spif, every register holds what the     *)
(* program asks for, whatever the host writes to other registers at the    *)
(* same time.  A reset of the link loses the configuration so far, and the *)
(* program is not told: the only other value that a register may have is   *)
(* its default, after a reset that came when the program had begun, and    *)
(* unless a later call sets the register.                                  *)
ConfiguredAsAsked ==
    sent - (IF cfg_vld THEN 1 ELSE 0) >= Len(Configuration)
        => \A a \in RegAddrs \ HostWrites :
              \/ bank[a] = Asked(a)
              \/ hit > 0 /\ ~ SetAfter(hit, a) /\ bank[a] = Default(a)

(* The program gets both counters, if the link keeps sending its packets   *)
(* and no reset comes once the program has begun to ask for them.          *)
CountersReported ==
    (/\ <>[]~ reset /\ [](hit <= Len(Configuration))
     /\ []<>pkt_rdy_out /\ []<>(pkt.cfg \/ Finished))
        => <>(spif_cnt = {SPIF_COUNT_IN, SPIF_COUNT_IN_DROP})

=============================================================================
