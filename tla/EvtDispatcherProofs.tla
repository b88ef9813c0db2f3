------------------------- MODULE EvtDispatcherProofs -------------------------
(* Theorems about the peripheral output, for every word width, distiller,  *)
(* packet, tick and microsecond count, and for every set of frame sizes    *)
(* that leaves out 0 (no limit) and 1 (no room for the event held back).   *)
EXTENDS EvtDispatcher, SequenceTheorems, TLAPS

(* The distiller produces words. *)
LEMMA DistilledAreWords ==
    ASSUME NEW ds \in Distillers, NEW pkt \in Packets
    PROVE  Distilled(ds, pkt) \subseteq Word
<1>1. CASE pkt.dis < NumDistillers
  <2>1. pkt.dis \in 0 .. NumDistillers - 1
    BY <1>1, DispatcherAssumption
  <2>2. ds[pkt.dis].key \in Word
    BY <2>1, DispatcherAssumption DEF DistillerConfig
  <2> QED
    BY <1>1, <2>2 DEF Distilled, ShiftRight, Word
<1>2. CASE ~ (pkt.dis < NumDistillers)
  BY <1>2 DEF Distilled
<1> QED
  BY <1>1, <1>2

(* What the environment may put on the input wires is typed. *)
LEMMA SampleIsTyped ==
    ASSUME Sample
    PROVE  /\ pkt_vld_in' \in BOOLEAN
           /\ new_event' \in Word
           /\ output_size_in' \in Sizes
           /\ output_tick_in' \in Ticks
           /\ evt_rdy_in' \in BOOLEAN
  BY DistilledAreWords DEF Sample

(* Every register, counter and input wire keeps its type; in particular no *)
(* counter goes below zero.                                                *)
THEOREM TypeCorrect == Spec => []TypeOK
<1>1. Init => TypeOK
  BY DEF Init
<1>2. TypeOK /\ [Next]_vars => TypeOK'
  <2> SUFFICES ASSUME TypeOK, [Next]_vars PROVE TypeOK'
    OBVIOUS
  <2>1. CASE Clock
    <3>1. /\ pkt_rdy_out' \in BOOLEAN /\ rtg_rdy' \in BOOLEAN
          /\ evt_last_out' \in BOOLEAN /\ evt_vld_out' \in BOOLEAN
          /\ out_drp_cnt_out' \in BOOLEAN /\ reset' \in BOOLEAN
      BY <2>1 DEF Clock, RtgRdy, EvtLast, EvtValid, OutDrop, snd_frame, snd_event, evt_busy,
                  becomes_rtg, pkt_available, TypeOK
    <3>2. rtg_event' \in Word /\ evt_data_out' \in Word
      BY <2>1 DEF Clock, RtgEvent, EvtData, TypeOK
    <3>3. frm_cnt' \in 0 .. MaxSize
      BY <2>1, DispatcherAssumption DEF Clock, FrmCnt, TypeOK
    <3>4. us_cnt' \in 0 .. US_CLK_CNT
      BY <2>1, DispatcherAssumption DEF Clock, UsCnt, TypeOK
    <3>5. tck_cnt' \in Nat
      BY <2>1, DispatcherAssumption DEF Clock, TckCnt, tick, TypeOK
    <3>6. beats' \in Nat
      BY <2>1 DEF Clock, Beats, TypeOK
    <3>7. Sample
      BY <2>1 DEF Clock
    <3> QED
      BY <3>1, <3>2, <3>3, <3>4, <3>5, <3>6, <3>7, SampleIsTyped DEF TypeOK
  <2>2. CASE Reset
    <3>1. Sample
      BY <2>2 DEF Reset
    <3>2. frm_cnt' \in 0 .. MaxSize /\ us_cnt' \in 0 .. US_CLK_CNT
      BY <2>2, DispatcherAssumption DEF Reset
    <3>3. tck_cnt' \in Nat /\ beats' \in Nat
      BY <2>2 DEF Reset
    <3>4. /\ pkt_rdy_out' \in BOOLEAN /\ rtg_rdy' \in BOOLEAN
          /\ evt_vld_out' \in BOOLEAN /\ out_drp_cnt_out' \in BOOLEAN
          /\ reset' \in BOOLEAN
      BY <2>2 DEF Reset
    <3>5. rtg_event' \in Word /\ evt_data_out' \in Word /\ evt_last_out' \in BOOLEAN
      BY <2>2 DEF Reset, TypeOK
    <3> QED
      BY <3>1, <3>2, <3>3, <3>4, <3>5, SampleIsTyped DEF TypeOK
  <2>3. CASE UNCHANGED vars
    BY <2>3 DEF TypeOK, vars, registers, inputs
  <2> QED
    BY <2>1, <2>2, <2>3 DEF Next
<1> QED
  BY <1>1, <1>2, PTL DEF Spec

(* An event that waits for the DMA is disturbed by nothing but a tick. *)
THEOREM HeldUnlessTick == Spec => HeldExceptByTick
<1>1. TypeOK /\ [Next]_vars =>
        [evt_busy /\ ~ tick /\ ~ reset' =>
            evt_vld_out' /\ UNCHANGED <<evt_data_out, evt_last_out>>]_vars
  <2> SUFFICES ASSUME TypeOK, Clock, evt_busy, ~ tick
               PROVE  evt_vld_out' /\ UNCHANGED <<evt_data_out, evt_last_out>>
    BY DEF Next, Reset
  <2>1. ~ snd_event /\ ~ snd_frame
    BY DEF snd_event, snd_frame
  <2> QED
    BY <2>1 DEF Clock, EvtValid, EvtData, EvtLast, TypeOK
<1> QED
  BY <1>1, TypeCorrect, PTL DEF Spec, HeldExceptByTick

---------------------------------------------------------------------------
(* Frames *)

SizesLeaveRoom == \A n \in Sizes : n > 1

(* The credit of a frame and the events already sent of it fit the largest *)
(* frame; the credit runs out only after a reset, and falls to one, the    *)
(* slot of the event held back, only when there is such an event.          *)
FrameInv ==
    /\ frm_cnt = 1 => rtg_rdy
    /\ frm_cnt = 0 => ~ evt_vld_out /\ ~ rtg_rdy /\ beats = 0
    /\ ~ evt_vld_out => beats + frm_cnt <= MaxSize
    /\ evt_vld_out /\ ~ evt_last_out => beats + 1 + frm_cnt <= MaxSize
    /\ evt_vld_out /\ evt_last_out => beats + 1 <= MaxSize

LEMMA FrameInvariant ==
    ASSUME SizesLeaveRoom
    PROVE  Spec => []FrameInv
<1>1. Init => FrameInv
  BY DispatcherAssumption DEF Init, FrameInv
<1>2. TypeOK /\ FrameInv /\ [Next]_vars => FrameInv'
  <2> SUFFICES ASSUME TypeOK, FrameInv, [Next]_vars PROVE FrameInv'
    OBVIOUS
  <2>1. CASE Clock
    <3> USE <2>1
    <3>1. output_size_in \in 2 .. MaxSize
      BY DispatcherAssumption DEF SizesLeaveRoom, TypeOK
    <3>2. frm_cnt' \in 1 .. MaxSize
      <4>1. CASE snd_frame \/ frm_cnt = 0
        BY <3>1, <4>1, DispatcherAssumption DEF Clock, FrmCnt
      <4>2. CASE ~ (snd_frame \/ frm_cnt = 0)
        <5>1. frm_cnt \in 1 .. MaxSize
          BY <4>2, DispatcherAssumption DEF TypeOK
        <5>2. snd_event => frm_cnt # 1
          BY <4>2 DEF snd_event, snd_frame
        <5> QED
          BY <4>2, <5>1, <5>2, DispatcherAssumption DEF Clock, FrmCnt
      <4> QED
        BY <4>1, <4>2
    <3>3. frm_cnt' = 1 => rtg_rdy'
      BY <3>1 DEF Clock, FrmCnt, RtgRdy, FrameInv, TypeOK, snd_event, becomes_rtg
    <3>4. ~ evt_vld_out' => beats' + frm_cnt' <= MaxSize
      <4> SUFFICES ASSUME ~ evt_vld_out' PROVE beats' + frm_cnt' <= MaxSize
        OBVIOUS
      <4>1. ~ snd_event /\ ~ snd_frame /\ ~ evt_busy
        BY DEF Clock, EvtValid
      <4> QED
        BY <3>1, <4>1, DispatcherAssumption
           DEF Clock, FrmCnt, Beats, FrameInv, TypeOK, evt_busy
    <3>5. evt_vld_out' /\ ~ evt_last_out' => beats' + 1 + frm_cnt' <= MaxSize
      <4> SUFFICES ASSUME evt_vld_out', ~ evt_last_out'
                   PROVE  beats' + 1 + frm_cnt' <= MaxSize
        OBVIOUS
      <4>1. ~ snd_frame
        BY DEF Clock, EvtLast
      <4>2. CASE evt_busy
        BY <4>1, <4>2, DispatcherAssumption
           DEF Clock, FrmCnt, Beats, EvtLast, FrameInv, TypeOK, evt_busy, snd_event
      <4>3. CASE ~ evt_busy
        <5>1. snd_event
          BY <4>1, <4>3 DEF Clock, EvtValid
        <5>2. frm_cnt # 0 /\ frm_cnt' = frm_cnt - 1
          BY <4>1, <5>1 DEF Clock, FrmCnt, FrameInv, snd_event
        <5> QED
          BY <4>3, <5>2, DispatcherAssumption
             DEF Clock, Beats, FrameInv, TypeOK, evt_busy
      <4> QED
        BY <4>2, <4>3
    <3>6. evt_vld_out' /\ evt_last_out' => beats' + 1 <= MaxSize
      <4> SUFFICES ASSUME evt_vld_out', evt_last_out' PROVE beats' + 1 <= MaxSize
        OBVIOUS
      <4>1. CASE snd_frame
        BY <3>1, <4>1, DispatcherAssumption
           DEF Clock, Beats, FrameInv, TypeOK, evt_busy, snd_frame, pkt_available
      <4>2. CASE ~ snd_frame
        BY <4>2 DEF Clock, Beats, EvtLast, FrameInv, evt_busy
      <4> QED
        BY <4>1, <4>2
    <3> QED
      BY <3>2, <3>3, <3>4, <3>5, <3>6 DEF FrameInv
  <2>2. CASE Reset
    BY <2>2, DispatcherAssumption DEF Reset, FrameInv
  <2>3. CASE UNCHANGED vars
    BY <2>3 DEF FrameInv, vars, registers
  <2> QED
    BY <2>1, <2>2, <2>3 DEF Next
<1> QED
  BY <1>1, <1>2, TypeCorrect, PTL DEF Spec

(* A frame never has more events than the largest size that clients set    *)
(* (spif_config.tex:302), whatever the ticks and the DMA do.               *)
THEOREM FramesAreBounded ==
    ASSUME SizesLeaveRoom
    PROVE  Spec => []FrameLengthBounded
<1>1. TypeOK /\ FrameInv => FrameLengthBounded
  BY DispatcherAssumption DEF TypeOK, FrameInv, FrameLengthBounded
<1> QED
  BY <1>1, TypeCorrect, FrameInvariant, PTL

(* A frame is closed only with an event that a packet brought              *)
(* (evt_dispatcher.sv:162).                                                *)
THEOREM FramesHaveEvents ==
    ASSUME SizesLeaveRoom
    PROVE  Spec => []FrameHasEvent
<1>1. FrameInv => FrameHasEvent
  BY DEF FrameInv, FrameHasEvent, snd_frame
<1> QED
  BY <1>1, FrameInvariant, PTL

(* The drop counter is exact but for the events that a tick overwrites.    *)
THEOREM LossesAreCounted ==
    ASSUME SizesLeaveRoom
    PROVE  Spec => LossesCountedExceptByTick
<1>1. TypeOK /\ FrameInv /\ [Next]_vars =>
        [~ reset' =>
            /\ Lost - Count(out_drp_cnt_out') \in {0, 1}
            /\ ~ (tick /\ evt_busy) => Lost = Count(out_drp_cnt_out')]_vars
  <2> SUFFICES ASSUME TypeOK, FrameInv, Clock
               PROVE  /\ Lost - Count(out_drp_cnt_out') \in {0, 1}
                      /\ ~ (tick /\ evt_busy) => Lost = Count(out_drp_cnt_out')
    BY DEF Next, Reset
  <2>1. /\ evt_vld_out \in BOOLEAN /\ rtg_rdy \in BOOLEAN /\ evt_rdy_in \in BOOLEAN
        /\ pkt_available \in BOOLEAN /\ tick \in BOOLEAN
    BY DEF TypeOK, pkt_available, tick
  <2>2. CASE evt_busy
    <3>1. evt_vld_out /\ ~ evt_rdy_in /\ evt_vld_out'
      BY <2>2 DEF Clock, EvtValid, evt_busy
    <3>2. snd_frame <=> tick /\ (pkt_available \/ rtg_rdy)
      BY <2>2 DEF snd_frame
    <3>3. rtg_rdy' <=>
            \/ pkt_available /\ (rtg_rdy \/ ~ tick)
            \/ rtg_rdy /\ ~ tick
      BY <3>2 DEF Clock, RtgRdy, becomes_rtg
    <3>4. out_drp_cnt_out' <=> pkt_available /\ rtg_rdy
      BY <2>2 DEF Clock, OutDrop
    <3>5. Lost = Count(rtg_rdy) + Count(pkt_available) - Count(rtg_rdy')
      BY <3>1 DEF Lost, Count
    <3>6. CASE tick
      BY <2>1, <2>2, <3>3, <3>4, <3>5, <3>6 DEF Count
    <3>7. CASE ~ tick
      BY <2>1, <3>3, <3>4, <3>5, <3>7 DEF Count
    <3> QED
      BY <3>6, <3>7
  <2>3. CASE ~ evt_busy
    <3>1. evt_vld_out <=> evt_vld_out /\ evt_rdy_in
      BY <2>3 DEF evt_busy
    <3>2. ~ out_drp_cnt_out'
      BY <2>3 DEF Clock, OutDrop
    <3>3. snd_frame => pkt_available \/ rtg_rdy
      BY DEF snd_frame, FrameInv
    <3>4. evt_vld_out' <=> snd_frame \/ (pkt_available /\ rtg_rdy)
      BY <2>3 DEF Clock, EvtValid, snd_event
    <3>5. rtg_rdy' <=>
            \/ pkt_available /\ (rtg_rdy \/ ~ snd_frame)
            \/ rtg_rdy /\ ~ snd_frame
      BY DEF Clock, RtgRdy, becomes_rtg
    <3>6. Count(evt_vld_out) = Count(evt_vld_out /\ evt_rdy_in)
      BY <3>1 DEF Count
    <3>7. Count(rtg_rdy) + Count(pkt_available) = Count(evt_vld_out') + Count(rtg_rdy')
      BY <2>1, <3>3, <3>4, <3>5 DEF Count
    <3>8. Lost = 0
      BY <2>1, <3>6, <3>7 DEF Lost, Count
    <3>9. Count(out_drp_cnt_out') = 0
      BY <3>2 DEF Count
    <3> QED
      BY <3>8, <3>9
  <2> QED
    BY <2>2, <2>3
<1> QED
  BY <1>1, TypeCorrect, FrameInvariant, PTL DEF Spec, LossesCountedExceptByTick

---------------------------------------------------------------------------
(* The dispatcher implements the buffer that may drop *)

(* A short sequence is known by its length and its elements. *)
LEMMA ShortSequences ==
    ASSUME NEW s \in Seq(Word), NEW a \in Word, NEW b \in Word, NEW c \in Word
    PROVE  /\ Len(s) = 1 /\ s[1] = a => s = <<a>>
           /\ Len(s) = 2 /\ s[1] = a /\ s[2] = b => s = <<a, b>>
           /\ Len(s) = 3 /\ s[1] = a /\ s[2] = b /\ s[3] = c => s = <<a, b, c>>
<1>1. ASSUME Len(s) = 1, s[1] = a PROVE s = <<a>>
  <2>1. <<a>> \in Seq(Word) /\ Len(<<a>>) = 1 /\ \A i \in 1 .. 1 : s[i] = <<a>>[i]
    BY <1>1
  <2> QED
    BY <1>1, <2>1, SeqEqual
<1>2. ASSUME Len(s) = 2, s[1] = a, s[2] = b PROVE s = <<a, b>>
  <2>1. <<a, b>> \in Seq(Word) /\ Len(<<a, b>>) = 2
    OBVIOUS
  <2>2. \A i \in 1 .. 2 : s[i] = <<a, b>>[i]
    BY <1>2
  <2> QED
    BY <1>2, <2>1, <2>2, SeqEqual
<1>3. ASSUME Len(s) = 3, s[1] = a, s[2] = b, s[3] = c PROVE s = <<a, b, c>>
  <2>1. <<a, b, c>> \in Seq(Word) /\ Len(<<a, b, c>>) = 3
    OBVIOUS
  <2>2. \A i \in 1 .. 3 : s[i] = <<a, b, c>>[i]
    BY <1>3
  <2> QED
    BY <1>3, <2>1, <2>2, SeqEqual
<1> QED
  BY <1>1, <1>2, <1>3

(* Concatenations of the lengths that occur. *)
LEMMA ShortConcatenations ==
    ASSUME NEW a \in Word, NEW b \in Word, NEW c \in Word
    PROVE  /\ <<a>> \o <<b>> = <<a, b>>
           /\ <<a, b>> \o <<c>> = <<a, b, c>>
<1>1. /\ <<a>> \in Seq(Word) /\ <<b>> \in Seq(Word) /\ <<c>> \in Seq(Word)
      /\ <<a, b>> \in Seq(Word)
  OBVIOUS
<1>2. /\ <<a>> \o <<b>> \in Seq(Word) /\ Len(<<a>> \o <<b>>) = 2
      /\ (<<a>> \o <<b>>)[1] = a /\ (<<a>> \o <<b>>)[2] = b
  BY <1>1, ConcatProperties
<1>3. /\ <<a, b>> \o <<c>> \in Seq(Word) /\ Len(<<a, b>> \o <<c>>) = 3
      /\ (<<a, b>> \o <<c>>)[1] = a /\ (<<a, b>> \o <<c>>)[2] = b
      /\ (<<a, b>> \o <<c>>)[3] = c
  BY <1>1, ConcatProperties
<1>4. <<a>> \o <<b>> = <<a, b>>
  BY <1>2, ShortSequences
<1>5. <<a, b>> \o <<c>> = <<a, b, c>>
  BY <1>3, ShortSequences
<1> QED
  BY <1>4, <1>5

(* What remains when an element is removed keeps its order. *)
LEMMA Removal ==
    ASSUME NEW s \in Seq(Word), NEW i \in 1 .. Len(s)
    PROVE  /\ Lossy!RemoveAt(s, i) \in Seq(Word)
           /\ Len(Lossy!RemoveAt(s, i)) = Len(s) - 1
           /\ \A j \in 1 .. Len(s) - 1 :
                 Lossy!RemoveAt(s, i)[j] = IF j < i THEN s[j] ELSE s[j + 1]
<1> DEFINE before == SubSeq(s, 1, i - 1)
           after  == SubSeq(s, i + 1, Len(s))
<1>1. /\ before \in Seq(Word) /\ Len(before) = i - 1
      /\ \A j \in 1 .. i - 1 : before[j] = s[j]
  <2>1. \A j \in 1 .. i - 1 : s[j] \in Word
    OBVIOUS
  <2> QED
    BY <2>1, SubSeqProperties
<1>2. /\ after \in Seq(Word) /\ Len(after) = Len(s) - i
      /\ \A j \in 1 .. Len(s) - i : after[j] = s[i + j]
  <2>1. \A j \in i + 1 .. Len(s) : s[j] \in Word
    OBVIOUS
  <2> QED
    BY <2>1, SubSeqProperties
<1>3. Lossy!RemoveAt(s, i) = before \o after
  BY DEF Lossy!RemoveAt
<1> HIDE DEF before, after
<1>4. /\ before \o after \in Seq(Word)
      /\ Len(before \o after) = Len(before) + Len(after)
      /\ \A j \in 1 .. Len(before) + Len(after) :
            (before \o after)[j] = IF j <= Len(before) THEN before[j]
                                   ELSE after[j - Len(before)]
  BY <1>1, <1>2, ConcatProperties
<1>5. \A j \in 1 .. Len(s) - 1 :
         (before \o after)[j] = IF j < i THEN s[j] ELSE s[j + 1]
  <2> TAKE j \in 1 .. Len(s) - 1
  <2>1. CASE j < i
    BY <1>1, <1>2, <1>4, <2>1
  <2>2. CASE ~ (j < i)
    <3>1. (before \o after)[j] = after[j - (i - 1)]
      BY <1>1, <1>2, <1>4, <2>2
    <3>2. j - (i - 1) \in 1 .. Len(s) - i /\ i + (j - (i - 1)) = j + 1
      BY <2>2
    <3> QED
      BY <1>2, <2>2, <3>1, <3>2
  <2> QED
    BY <2>1, <2>2
<1>6. Len(before \o after) = Len(s) - 1
  BY <1>1, <1>2, <1>4
<1>7. before \o after \in Seq(Word)
  BY <1>4
<1> QED
  BY <1>3, <1>5, <1>6, <1>7, Zenon

LEMMA ShortRemovals ==
    ASSUME NEW s \in Seq(Word)
    PROVE  /\ Len(s) = 2 => Lossy!RemoveAt(s, 1) = <<s[2]>>
           /\ Len(s) = 3 => /\ Lossy!RemoveAt(s, 1) = <<s[2], s[3]>>
                            /\ Lossy!RemoveAt(s, 2) = <<s[1], s[3]>>
<1>1. ASSUME Len(s) = 2 PROVE Lossy!RemoveAt(s, 1) = <<s[2]>>
  <2> DEFINE r == Lossy!RemoveAt(s, 1)
  <2>1. 1 \in 1 .. Len(s) /\ Len(s) - 1 = 1 /\ \A j \in 1 .. 2 : s[j] \in Word
    BY <1>1
  <2>2. /\ r \in Seq(Word) /\ Len(r) = 1
        /\ \A j \in 1 .. 1 : r[j] = IF j < 1 THEN s[j] ELSE s[j + 1]
    BY <2>1, Removal
  <2> HIDE DEF r
  <2> QED
    BY <2>1, <2>2, ShortSequences DEF r
<1>2. ASSUME Len(s) = 3 PROVE Lossy!RemoveAt(s, 1) = <<s[2], s[3]>>
  <2> DEFINE r == Lossy!RemoveAt(s, 1)
  <2>1. 1 \in 1 .. Len(s) /\ Len(s) - 1 = 2 /\ \A j \in 1 .. 3 : s[j] \in Word
    BY <1>2
  <2>2. /\ r \in Seq(Word) /\ Len(r) = 2
        /\ \A j \in 1 .. 2 : r[j] = IF j < 1 THEN s[j] ELSE s[j + 1]
    BY <2>1, Removal
  <2> HIDE DEF r
  <2> QED
    BY <2>1, <2>2, ShortSequences DEF r
<1>3. ASSUME Len(s) = 3 PROVE Lossy!RemoveAt(s, 2) = <<s[1], s[3]>>
  <2> DEFINE r == Lossy!RemoveAt(s, 2)
  <2>1. 2 \in 1 .. Len(s) /\ Len(s) - 1 = 2 /\ \A j \in 1 .. 3 : s[j] \in Word
    BY <1>3
  <2>2. /\ r \in Seq(Word) /\ Len(r) = 2
        /\ \A j \in 1 .. 2 : r[j] = IF j < 2 THEN s[j] ELSE s[j + 1]
    BY <2>1, Removal
  <2> HIDE DEF r
  <2> QED
    BY <2>1, <2>2, ShortSequences DEF r
<1> QED
  BY <1>1, <1>2, <1>3

LEMMA EmptyConcatenations ==
    ASSUME NEW a \in Word, NEW b \in Word
    PROVE  /\ <<>> \o <<>> = <<>>
           /\ <<a>> \o <<>> = <<a>> /\ <<>> \o <<a>> = <<a>>
           /\ <<a, b>> \o <<>> = <<a, b>>
<1>1. <<>> \o <<>> = <<>>
  OBVIOUS
<1>2. <<a>> \o <<>> = <<a>> /\ <<>> \o <<a>> = <<a>>
  OBVIOUS
<1>3. <<a, b>> \o <<>> = <<a, b>>
  OBVIOUS
<1> QED
  BY <1>1, <1>2, <1>3

(* The events that the dispatcher holds: on the output, and ready to go. *)
Output == IF evt_vld_out THEN <<evt_data_out>> ELSE <<>>
Kept   == IF rtg_rdy THEN <<rtg_event>> ELSE <<>>
Held   == Output \o Kept

HeldCases ==
    /\ evt_vld_out /\ rtg_rdy => Held = <<evt_data_out, rtg_event>>
    /\ evt_vld_out /\ ~ rtg_rdy => Held = <<evt_data_out>>
    /\ ~ evt_vld_out => Held = Kept

LEMMA HeldByCases ==
    ASSUME TypeOK
    PROVE  HeldCases
<1>1. evt_data_out \in Word /\ rtg_event \in Word
  BY DEF TypeOK
<1>2. ASSUME evt_vld_out, rtg_rdy PROVE Held = <<evt_data_out, rtg_event>>
  <2>1. Output = <<evt_data_out>> /\ Kept = <<rtg_event>>
    BY <1>2 DEF Output, Kept
  <2> QED
    BY <1>1, <2>1, ShortConcatenations DEF Held
<1>3. ASSUME evt_vld_out, ~ rtg_rdy PROVE Held = <<evt_data_out>>
  <2>1. Output = <<evt_data_out>> /\ Kept = <<>>
    BY <1>3 DEF Output, Kept
  <2> QED
    BY <1>1, <2>1, EmptyConcatenations DEF Held
<1>4. ASSUME ~ evt_vld_out PROVE Held = Kept
  <2>1. Output = <<>> /\ Kept \in {<<>>, <<rtg_event>>}
    BY <1>4 DEF Output, Kept
  <2> QED
    BY <1>1, <2>1, EmptyConcatenations DEF Held
<1> QED
  BY <1>2, <1>3, <1>4 DEF HeldCases

LEMMA MappingIsTyped ==
    ASSUME TypeOK
    PROVE  Lossy!LossyTypeOK
<1>1. evt_data_out \in Word /\ rtg_event \in Word
  BY DEF TypeOK
<1>2. ASSUME NEW held, held \in Seq(Word), Len(held) \in 0 .. 2, held = Held,
             evt_vld_out => Len(held) > 0
      PROVE  Lossy!LossyTypeOK
  <2>1. evt_vld_out => Held # <<>>
    BY <1>2
  <2> QED
    BY <1>2, <2>1 DEF Lossy!LossyTypeOK, Held, Output, Kept, TypeOK
<1>3. CASE evt_vld_out /\ rtg_rdy
  <2>1. Held = <<evt_data_out, rtg_event>>
    BY <1>3, HeldByCases DEF HeldCases
  <2>2. Held \in Seq(Word) /\ Len(Held) = 2
    BY <1>1, <2>1
  <2> QED
    BY <1>2, <2>2
<1>4. CASE evt_vld_out /\ ~ rtg_rdy
  <2>1. Held = <<evt_data_out>>
    BY <1>4, HeldByCases DEF HeldCases
  <2>2. Held \in Seq(Word) /\ Len(Held) = 1
    BY <1>1, <2>1
  <2> QED
    BY <1>2, <2>2
<1>5. CASE ~ evt_vld_out
  <2>1. Kept \in Seq(Word) /\ Len(Kept) \in 0 .. 1
    BY <1>1 DEF Kept
  <2> QED
    BY <1>2, <1>5, <2>1, HeldByCases DEF HeldCases
<1> QED
  BY <1>3, <1>4, <1>5

(* What the consumer leaves of them in this cycle. *)
LEMMA RemainingByCases ==
    ASSUME TypeOK
    PROVE  Lossy!Remaining = IF evt_busy THEN Held ELSE Kept
<1>1. evt_data_out \in Word /\ rtg_event \in Word
  BY DEF TypeOK
<1>2. Lossy!Remaining = IF evt_vld_out /\ evt_rdy_in THEN Tail(Held) ELSE Held
  BY DEF Lossy!Remaining, Held, Output, Kept
<1>3. CASE evt_vld_out /\ evt_rdy_in
  <2>1. Tail(Held) = Kept
    <3>1. CASE rtg_rdy
      <4>1. Held = <<evt_data_out, rtg_event>> /\ Kept = <<rtg_event>>
        BY <1>3, <3>1, HeldByCases DEF HeldCases, Kept
      <4> QED
        BY <1>1, <4>1
    <3>2. CASE ~ rtg_rdy
      <4>1. Held = <<evt_data_out>> /\ Kept = <<>>
        BY <1>3, <3>2, HeldByCases DEF HeldCases, Kept
      <4> QED
        BY <1>1, <4>1
    <3> QED
      BY <3>1, <3>2
  <2> QED
    BY <1>2, <1>3, <2>1 DEF evt_busy
<1>4. CASE evt_vld_out /\ ~ evt_rdy_in
  BY <1>2, <1>4 DEF evt_busy
<1>5. CASE ~ evt_vld_out
  BY <1>2, <1>5, HeldByCases DEF HeldCases, evt_busy
<1> QED
  BY <1>3, <1>4, <1>5

(* A clock edge is a cycle of the buffer: no case loses two events, and    *)
(* none changes the order of the two that stay.                            *)
LEMMA CycleImplementsLossyCycle ==
    ASSUME TypeOK, TypeOK', FrameInv, Clock
    PROVE  Lossy!LossyCycle
<1> DEFINE coming == IF pkt_available THEN <<new_event>> ELSE <<>>
           present == Lossy!Present
<1>1. /\ evt_data_out \in Word /\ rtg_event \in Word /\ new_event \in Word
  BY DEF TypeOK
<1>2. present = (IF evt_busy THEN Held ELSE Kept) \o coming
  BY RemainingByCases DEF Lossy!Present
<1>3. snd_frame => pkt_available \/ rtg_rdy
  BY DEF snd_frame, FrameInv
<1>4. /\ ~ evt_vld_out' => Held' = Kept'
      /\ evt_vld_out' /\ rtg_rdy' => Held' = <<evt_data_out', rtg_event'>>
      /\ evt_vld_out' /\ ~ rtg_rdy' => Held' = <<evt_data_out'>>
  <2>1. HeldCases'
    BY HeldByCases, PTL
  <2> QED
    BY <2>1 DEF HeldCases
<1>5. \/ Held' = present
      \/ evt_busy /\ \E i \in DOMAIN present : Held' = Lossy!RemoveAt(present, i)
  <2>1. CASE evt_busy /\ rtg_rdy /\ pkt_available
    <3>1. present = <<evt_data_out, rtg_event, new_event>>
      <4>1. Held = <<evt_data_out, rtg_event>> /\ coming = <<new_event>>
        BY <2>1, HeldByCases DEF HeldCases, evt_busy
      <4> QED
        BY <1>1, <1>2, <2>1, <4>1, ShortConcatenations
    <3>2. Held' = IF snd_frame THEN <<rtg_event, new_event>> ELSE <<evt_data_out, new_event>>
      BY <1>4, <2>1 DEF Clock, RtgRdy, RtgEvent, becomes_rtg, EvtData, EvtValid, snd_event
    <3>3. present \in Seq(Word) /\ Len(present) = 3
      BY <1>1, <3>1
    <3>4. /\ present[1] = evt_data_out /\ present[2] = rtg_event /\ present[3] = new_event
      BY <3>1
    <3>5. 1 \in DOMAIN present /\ 2 \in DOMAIN present
      BY <3>3
    <3> HIDE DEF present
    <3>6. /\ Lossy!RemoveAt(present, 1) = <<rtg_event, new_event>>
          /\ Lossy!RemoveAt(present, 2) = <<evt_data_out, new_event>>
      BY <3>3, <3>4, ShortRemovals
    <3> QED
      BY <2>1, <3>2, <3>5, <3>6
  <2>2. CASE evt_busy /\ rtg_rdy /\ ~ pkt_available
    <3>1. present = <<evt_data_out, rtg_event>>
      <4>1. Held = <<evt_data_out, rtg_event>> /\ coming = <<>>
        BY <2>2, HeldByCases DEF HeldCases, evt_busy
      <4> QED
        BY <1>1, <1>2, <2>2, <4>1, EmptyConcatenations
    <3>2. Held' = IF snd_frame THEN <<rtg_event>> ELSE <<evt_data_out, rtg_event>>
      BY <1>4, <2>2 DEF Clock, RtgRdy, RtgEvent, becomes_rtg, EvtData, EvtValid, snd_event
    <3>3. present \in Seq(Word) /\ Len(present) = 2 /\ present[2] = rtg_event
      BY <1>1, <3>1
    <3>4. 1 \in DOMAIN present
      BY <3>3
    <3> HIDE DEF present
    <3>5. Lossy!RemoveAt(present, 1) = <<rtg_event>>
      BY <3>3, ShortRemovals
    <3> QED
      BY <2>2, <3>1, <3>2, <3>4, <3>5
  <2>3. CASE evt_busy /\ ~ rtg_rdy /\ pkt_available
    <3>1. present = <<evt_data_out, new_event>>
      <4>1. Held = <<evt_data_out>> /\ coming = <<new_event>>
        BY <2>3, HeldByCases DEF HeldCases, evt_busy
      <4> QED
        BY <1>1, <1>2, <2>3, <4>1, ShortConcatenations
    <3>2. Held' = IF snd_frame THEN <<new_event>> ELSE <<evt_data_out, new_event>>
      BY <1>4, <2>3 DEF Clock, RtgRdy, RtgEvent, becomes_rtg, EvtData, EvtValid, snd_event
    <3>3. present \in Seq(Word) /\ Len(present) = 2 /\ present[2] = new_event
      BY <1>1, <3>1
    <3>4. 1 \in DOMAIN present
      BY <3>3
    <3> HIDE DEF present
    <3>5. Lossy!RemoveAt(present, 1) = <<new_event>>
      BY <3>3, ShortRemovals
    <3> QED
      BY <2>3, <3>1, <3>2, <3>4, <3>5
  <2>4. CASE evt_busy /\ ~ rtg_rdy /\ ~ pkt_available
    <3>1. present = <<evt_data_out>>
      <4>1. Held = <<evt_data_out>> /\ coming = <<>>
        BY <2>4, HeldByCases DEF HeldCases, evt_busy
      <4> QED
        BY <1>1, <1>2, <2>4, <4>1, EmptyConcatenations
    <3>2. Held' = <<evt_data_out>>
      BY <1>3, <1>4, <2>4 DEF Clock, RtgRdy, becomes_rtg, EvtData, EvtValid, snd_event
    <3> QED
      BY <3>1, <3>2
  <2>5. CASE ~ evt_busy /\ rtg_rdy /\ pkt_available
    <3>1. present = <<rtg_event, new_event>>
      <4>1. Kept = <<rtg_event>> /\ coming = <<new_event>>
        BY <2>5 DEF Kept
      <4> QED
        BY <1>1, <1>2, <2>5, <4>1, ShortConcatenations
    <3>2. Held' = <<rtg_event, new_event>>
      BY <1>4, <2>5 DEF Clock, RtgRdy, RtgEvent, becomes_rtg, EvtData, EvtValid, snd_event
    <3> QED
      BY <3>1, <3>2
  <2>6. CASE ~ evt_busy /\ rtg_rdy /\ ~ pkt_available
    <3>1. present = <<rtg_event>>
      <4>1. Kept = <<rtg_event>> /\ coming = <<>>
        BY <2>6 DEF Kept
      <4> QED
        BY <1>1, <1>2, <2>6, <4>1, EmptyConcatenations
    <3>2. Held' = <<rtg_event>>
      BY <1>4, <2>6
         DEF Clock, Kept, RtgRdy, RtgEvent, becomes_rtg, EvtData, EvtValid, snd_event
    <3> QED
      BY <3>1, <3>2
  <2>7. CASE ~ evt_busy /\ ~ rtg_rdy /\ pkt_available
    <3>1. present = <<new_event>>
      <4>1. Kept = <<>> /\ coming = <<new_event>>
        BY <2>7 DEF Kept
      <4> QED
        BY <1>1, <1>2, <2>7, <4>1, EmptyConcatenations
    <3>2. Held' = <<new_event>>
      BY <1>4, <2>7
         DEF Clock, Kept, RtgRdy, RtgEvent, becomes_rtg, EvtData, EvtValid, snd_event
    <3> QED
      BY <3>1, <3>2
  <2>8. CASE ~ evt_busy /\ ~ rtg_rdy /\ ~ pkt_available
    <3>1. present = <<>>
      <4>1. Kept = <<>> /\ coming = <<>>
        BY <2>8 DEF Kept
      <4> QED
        BY <1>1, <1>2, <2>8, <4>1, EmptyConcatenations
    <3>2. Held' = <<>>
      BY <1>3, <1>4, <2>8 DEF Clock, Kept, RtgRdy, becomes_rtg, EvtValid, snd_event
    <3> QED
      BY <3>1, <3>2
  <2> QED
    BY <2>1, <2>2, <2>3, <2>4, <2>5, <2>6, <2>7, <2>8
<1>6. Lossy!LossyTypeOK'
  BY MappingIsTyped, PTL
<1>7. evt_busy => Held # <<>> /\ ~ (evt_vld_out /\ evt_rdy_in)
  BY <1>1, HeldByCases DEF HeldCases, evt_busy
<1>8. ~ reset'
  BY DEF Clock
<1> HIDE DEF present
<1> QED
  BY <1>5, <1>6, <1>7, <1>8 DEF Lossy!LossyCycle, Lossy!DropOne, Held, Output, Kept, present

(* What the dispatcher sends is what packets brought, in their order, and  *)
(* no event twice; it drops at most one event in a cycle, while the DMA    *)
(* keeps it waiting, and only a reset empties it (ImplementsLossyFifo),    *)
(* for any sizes of more than one.                                         *)
THEOREM DispatcherImplementsLossyFifo ==
    ASSUME SizesLeaveRoom
    PROVE  Spec => ImplementsLossyFifo
<1>1. Init => Lossy!LossyInit
  <2> SUFFICES ASSUME Init PROVE Lossy!LossyInit
    OBVIOUS
  <2>1. Held = <<>>
    BY HeldByCases DEF HeldCases, Init, Kept
  <2> QED
    BY <2>1, MappingIsTyped DEF Init, Lossy!LossyInit, Held, Output, Kept
<1>2. TypeOK /\ TypeOK' /\ FrameInv /\ [Next]_vars
        => [Lossy!LossyCycle \/ Lossy!LossyReset]_Lossy!lossyVars
  <2> SUFFICES ASSUME TypeOK, TypeOK', FrameInv, [Next]_vars
               PROVE  [Lossy!LossyCycle \/ Lossy!LossyReset]_Lossy!lossyVars
    OBVIOUS
  <2>1. CASE Clock
    BY <2>1, CycleImplementsLossyCycle
  <2>2. CASE Reset
    <3>1. Lossy!LossyTypeOK'
      BY MappingIsTyped, PTL
    <3>2. Held' = <<>>
      BY <2>2 DEF Reset, Held, Output, Kept
    <3>3. reset'
      BY <2>2 DEF Reset
    <3> QED
      BY <3>1, <3>2, <3>3 DEF Lossy!LossyReset, Held, Output, Kept
  <2>3. CASE UNCHANGED vars
    BY <2>3 DEF vars, registers, inputs, Lossy!lossyVars, pkt_available
  <2> QED
    BY <2>1, <2>2, <2>3 DEF Next
<1> QED
  BY <1>1, <1>2, TypeCorrect, FrameInvariant, PTL
     DEF Spec, ImplementsLossyFifo, Lossy!LossySpec

============================================================================
