---------------------------- MODULE EvtDispatcher ----------------------------
(***************************************************************************)
(* The peripheral output (evt_dispatcher.sv): distils an event from every  *)
(* packet that arrives and sends the events on, in frames, to the DMA that *)
(* fills the buffer of the driver.                                         *)
(*                                                                         *)
(* The dispatcher never exerts back pressure.  It keeps the last event     *)
(* "ready to go" so that it has one with which to close a frame, either on *)
(* a periodic tick or because the frame is full.                           *)
(*                                                                         *)
(* A state is a clock cycle just before the rising edge: the registers and *)
(* the input wires that the edge samples.  The action Clock is the edge.   *)
(***************************************************************************)
EXTENDS Words, Sequences

CONSTANTS
    NumDistillers,  \* `NUM_DSREGS: 6.  A packet selects one with three bits
    Distillers,     \* the distiller configurations that may be in the registers
    Packets,        \* the packets that may arrive: [dis |-> index, key |-> word]
    MaxSize,        \* the largest value of the size register: 2^10 - 1
    Sizes,          \* the frame sizes, in events, that clients set
    Ticks,          \* the ticks, in microseconds, that clients set
    US_CLK_CNT      \* clock cycles per microsecond, less one: 74

DistillerConfig ==
    [0 .. NumDistillers - 1 -> [key : Word, msk : Word, sft : Bit]]

ASSUME DispatcherAssumption ==
    /\ NumDistillers \in Nat
    /\ Distillers # {} /\ Distillers \subseteq DistillerConfig
    /\ Packets # {} /\ Packets \subseteq [dis : Nat, key : Word]
    /\ MaxSize \in Nat
    /\ Sizes # {} /\ Sizes \subseteq 0 .. MaxSize
    /\ Ticks # {} /\ Ticks \subseteq Nat
    /\ US_CLK_CNT \in Nat

VARIABLES
    pkt_rdy_out,       \* registers of the dispatcher
    rtg_event,
    rtg_rdy,
    frm_cnt,           \* free slots of the current frame
    us_cnt,
    tck_cnt,
    evt_data_out,
    evt_last_out,
    evt_vld_out,
    out_drp_cnt_out,
    pkt_vld_in,        \* input wires: a packet,
    new_event,         \* the event that is distilled from it,
    output_size_in,    \* the size and tick registers,
    output_tick_in,
    evt_rdy_in,        \* the DMA's ready,
    reset,             \* and hi_reset_int
    beats              \* history: events the DMA has taken of the current frame

registers == <<pkt_rdy_out, rtg_event, rtg_rdy, frm_cnt, us_cnt, tck_cnt,
               evt_data_out, evt_last_out, evt_vld_out, out_drp_cnt_out>>
inputs    == <<pkt_vld_in, new_event, output_size_in, output_tick_in, evt_rdy_in>>
vars      == <<registers, inputs, reset, beats>>

TypeOK ==
    /\ pkt_rdy_out \in BOOLEAN
    /\ rtg_event \in Word
    /\ rtg_rdy \in BOOLEAN
    /\ frm_cnt \in 0 .. MaxSize
    /\ us_cnt \in 0 .. US_CLK_CNT
    /\ tck_cnt \in Nat
    /\ evt_data_out \in Word
    /\ evt_last_out \in BOOLEAN
    /\ evt_vld_out \in BOOLEAN
    /\ out_drp_cnt_out \in BOOLEAN
    /\ pkt_vld_in \in BOOLEAN
    /\ new_event \in Word
    /\ output_size_in \in Sizes
    /\ output_tick_in \in Ticks
    /\ evt_rdy_in \in BOOLEAN
    /\ reset \in BOOLEAN
    /\ beats \in Nat

---------------------------------------------------------------------------
(* Wires *)

(* A packet whose index names no distiller reads past the end of           *)
(* pkt_event: it distils whatever the build puts there.                    *)
Distilled(ds, pkt) ==
    IF pkt.dis < NumDistillers
       THEN {ds[pkt.dis].key \cup ShiftRight(pkt.key \cap ds[pkt.dis].msk, ds[pkt.dis].sft)}
       ELSE Word

pkt_available == pkt_vld_in /\ pkt_rdy_out

evt_busy == evt_vld_out /\ ~ evt_rdy_in

snd_event == pkt_available /\ rtg_rdy /\ ~ evt_busy

tick == tck_cnt = 0

SndFrameOnPacket     == (tick /\ pkt_available) \/ (frm_cnt = 1 /\ ~ evt_busy)
SndFrameOneSlotLate  == (tick /\ (pkt_available \/ rtg_rdy)) \/ (frm_cnt = 0 /\ ~ evt_busy)
snd_frame            == (tick /\ (pkt_available \/ rtg_rdy)) \/ (frm_cnt = 1 /\ ~ evt_busy)

---------------------------------------------------------------------------
(* The next value of each register: one operator per always block *)

becomes_rtg == pkt_available /\ (rtg_rdy \/ ~ snd_frame)

RtgEventFirst == IF becomes_rtg /\ ~ rtg_rdy THEN new_event ELSE rtg_event
RtgEvent      == IF becomes_rtg THEN new_event ELSE rtg_event

RtgRdy     == becomes_rtg \/ (rtg_rdy /\ ~ snd_frame)

FrmCntKept ==
    IF frm_cnt = 0 THEN output_size_in
    ELSE IF snd_event /\ ~ snd_frame THEN frm_cnt - 1 ELSE frm_cnt
FrmCnt ==
    IF snd_frame \/ frm_cnt = 0 THEN output_size_in
    ELSE IF snd_event THEN frm_cnt - 1 ELSE frm_cnt

UsCnt == IF us_cnt = 0 THEN US_CLK_CNT ELSE us_cnt - 1

TckCnt ==
    IF tick THEN output_tick_in
    ELSE IF us_cnt = 0 THEN tck_cnt - 1 ELSE tck_cnt

EvtData ==
    IF snd_event \/ (snd_frame /\ rtg_rdy) THEN rtg_event
    ELSE IF snd_frame THEN new_event ELSE evt_data_out

EvtLast == snd_frame \/ (evt_busy /\ evt_last_out)

EvtValid == snd_event \/ snd_frame \/ evt_busy

OutDropWhenBusy == pkt_available /\ evt_busy
OutDrop         == pkt_available /\ evt_busy /\ rtg_rdy

Beats ==
    IF ~ evt_vld_out \/ ~ evt_rdy_in THEN beats
    ELSE IF evt_last_out THEN 0 ELSE beats + 1

---------------------------------------------------------------------------

(* Packets come at any time, the registers may be written at any time, and *)
(* the DMA is ready when it likes.                                         *)
Sample ==
    /\ pkt_vld_in' \in BOOLEAN
    /\ \E ds \in Distillers, pkt \in Packets : new_event' \in Distilled(ds, pkt)
    /\ output_size_in' \in Sizes
    /\ output_tick_in' \in Ticks
    /\ evt_rdy_in' \in BOOLEAN

(* A rising clock edge with reset low. *)
Clock ==
    /\ pkt_rdy_out'     = TRUE
    /\ rtg_event'       = RtgEvent
    /\ rtg_rdy'         = RtgRdy
    /\ frm_cnt'         = FrmCnt
    /\ us_cnt'          = UsCnt
    /\ tck_cnt'         = TckCnt
    /\ evt_data_out'    = EvtData
    /\ evt_last_out'    = EvtLast
    /\ evt_vld_out'     = EvtValid
    /\ out_drp_cnt_out' = OutDrop
    /\ beats'           = Beats
    /\ reset' = FALSE
    /\ Sample

(* The asynchronous reset: the data registers keep their value. *)
Reset ==
    /\ pkt_rdy_out' = FALSE
    /\ rtg_rdy' = FALSE
    /\ frm_cnt' = 0
    /\ us_cnt' = US_CLK_CNT
    /\ tck_cnt' = 0
    /\ evt_vld_out' = FALSE
    /\ out_drp_cnt_out' = FALSE
    /\ beats' = 0
    /\ UNCHANGED <<rtg_event, evt_data_out, evt_last_out>>
    /\ reset' = TRUE
    /\ Sample

Init ==
    /\ reset = TRUE
    /\ pkt_rdy_out = FALSE
    /\ rtg_rdy = FALSE
    /\ evt_vld_out = FALSE
    /\ out_drp_cnt_out = FALSE
    /\ frm_cnt = 0
    /\ us_cnt = US_CLK_CNT
    /\ tck_cnt = 0
    /\ beats = 0
    /\ TypeOK

Next == Clock \/ Reset

Spec     == Init /\ [][Next]_vars
FairSpec == Spec /\ WF_vars(Clock)

---------------------------------------------------------------------------
(* The comment at evt_dispatcher.sv:162, "dispatch frame on tick or when   *)
(* frame is full (i.e., credit left for rtg only)": a frame is closed with *)
(* an event, never with a word that no packet brought.                     *)
FrameHasEvent == snd_frame => pkt_available \/ rtg_rdy

(* spif_config.tex:302, "maximum number of events in a frame": the event   *)
(* on the output is at most the MaxSize-th of its frame.  It takes the     *)
(* credit counter, the tick and a slow DMA together to break it.           *)
FrameLengthBounded == evt_vld_out => beats + 1 <= MaxSize

(* An event that the DMA has not accepted is replaced on the output, or    *)
(* turned into the last of its frame, only by a tick: the credit for a     *)
(* full frame and the arrival of packets wait for the DMA.                 *)
HeldExceptByTick ==
    [][evt_busy /\ ~ tick /\ ~ reset' =>
          evt_vld_out' /\ UNCHANGED <<evt_data_out, evt_last_out>>]_vars

Count(b) == IF b THEN 1 ELSE 0

(* The events that a cycle loses: those held or arriving that are neither  *)
(* accepted by the DMA nor still held afterwards.                          *)
Lost ==
      Count(evt_vld_out) + Count(rtg_rdy) + Count(pkt_available)
    - Count(evt_vld_out /\ evt_rdy_in) - Count(evt_vld_out') - Count(rtg_rdy')

(* spif_config.tex:245 on out_dropped_pkt_cnt, "count dropped output       *)
(* packets": the counter is exact unless a tick comes while the output is  *)
(* busy, and even then it misses at most the one event that the tick       *)
(* overwrites.                                                             *)
LossesCountedExceptByTick ==
    [][~ reset' =>
          /\ Lost - Count(out_drp_cnt_out') \in {0, 1}
          /\ ~ (tick /\ evt_busy) => Lost = Count(out_drp_cnt_out')]_vars

Lossy == INSTANCE LossyFifo WITH
    Event <- Word,
    queue <- (IF evt_vld_out THEN <<evt_data_out>> ELSE <<>>)
                \o (IF rtg_rdy THEN <<rtg_event>> ELSE <<>>),
    offer <- IF pkt_available THEN <<new_event>> ELSE <<>>,
    take  <- evt_vld_out /\ evt_rdy_in,
    reset <- reset

(* The dispatcher is a two-place buffer that may drop: what it sends is    *)
(* what came, in the order in which it came, and no event twice; but for a *)
(* reset it drops at most one event in a cycle, and only while the DMA     *)
(* keeps it waiting.                                                       *)
ImplementsLossyFifo == Lossy!LossySpec

(* The comment at evt_dispatcher.sv:135, "always hold the last event       *)
(* received": when packets and resets cease and the DMA keeps accepting,   *)
(* the event held back is sent too, by a tick.                             *)
Drains ==
    (<>[](~ pkt_vld_in /\ ~ reset) /\ []<>evt_rdy_in)
       => <>[](~ rtg_rdy /\ ~ evt_vld_out)

============================================================================
