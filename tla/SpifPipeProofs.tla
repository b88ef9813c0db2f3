--------------------------- MODULE SpifPipeProofs ---------------------------
(***************************************************************************)
(* Proofs about the driver's pipe, for any number of clients and whatever  *)
(* disturbs their calls.  The semaphore gives exclusive access, the flag   *)
(* dma_init makes up for a controller that is not idle before its first    *)
(* transfer, and outp_ready ties each output frame to one call.            *)
(***************************************************************************)
EXTENDS SpifPipe, TLAPS

(* Who is inside open or release holds the semaphore.  A client that sets  *)
(* the device up has found it unused, and stays the only one.              *)
AccessInv ==
    /\ OpeningOK
    /\ \A c \in Clients :
          pc[c] \in {"checking", "configuring", "releasing"} => sem = c
    /\ \A c \in Clients : pc[c] = "configuring" => ~ dev_open
    /\ \A c, d \in Users : c = d
    /\ Users # {} => dev_open
    /\ dev_open => Users # {} \/ wedged

(* What the calls and the hardware do to the state of opening, of the      *)
(* output and of the input: each part keeps its type on its own.           *)
LEMMA OpeningIsTyped == ASSUME OpeningOK, [Next]_vars PROVE OpeningOK'
<1> USE DEF OpeningOK, Up
<1>1. ASSUME NEW c \in Clients, Open(c) PROVE OpeningOK'
  BY <1>1 DEF Open, OpenDown, OpenInterrupted, OpenStep, OpenBusy, OpenConfigure,
              OpenDone, Down, vars, opening
<1>2. ASSUME NEW c \in Clients, Release(c) PROVE OpeningOK'
  BY <1>2 DEF Release, ReleaseDown, ReleaseInterrupted, FinishRelease, Down, MarkUnused
<1>3. CASE UNCHANGED opening
  BY <1>3 DEF opening
<1>4. Transfer \/ GetOutput \/ GetOutputStep \/ GetOutputUpset \/ Hardware
         \/ spif_irq_handler \/ UNCHANGED vars => UNCHANGED opening
  BY DEF Transfer, TransferCheck, TransferWrite, GetOutput, GetOutputStep, Woken,
         ClearReady, ReturnOutput, GetOutputUpset, Interrupted, TimedOut, Hardware,
         InputDone, FrameArrives, spif_irq_handler, vars
<1> QED
  BY <1>1, <1>2, <1>3, <1>4 DEF Next

LEMMA OutputIsTyped == ASSUME OutputOK, [Next]_vars PROVE OutputOK'
<1> USE PipeAssumption DEF OutputOK
<1>1. ASSUME NEW c \in Clients, OpenConfigure(c) PROVE OutputOK'
  BY <1>1 DEF OpenConfigure
<1>2. ASSUME NEW c \in Clients, FinishRelease(c) PROVE OutputOK'
  BY <1>2 DEF FinishRelease
<1>3. CASE GetOutput
  BY <1>3 DEF GetOutput
<1>4. CASE GetOutputStep
  BY <1>4 DEF GetOutputStep, Woken, ClearReady, ReturnOutput, MarkNotReady
<1>5. CASE GetOutputUpset
  BY <1>5 DEF GetOutputUpset, Interrupted, TimedOut
<1>6. CASE FrameArrives
  <2>1. PICK n \in Frames :
           /\ outp' = [outp EXCEPT !.armed = FALSE, !.len = n, !.irq = TRUE]
           /\ frame' = [len |-> n, fresh |-> TRUE, owed |-> TRUE]
    BY <1>6 DEF FrameArrives
  <2>2. n \in Nat
    OBVIOUS
  <2>3. outp' \in [irqEnabled : BOOLEAN, irq : BOOLEAN, armed : BOOLEAN, len : Nat]
    BY <2>1, <2>2
  <2>4. frame' \in [len : Nat, fresh : BOOLEAN, owed : BOOLEAN]
    BY <2>1, <2>2
  <2> QED
    BY <1>6, <2>3, <2>4 DEF FrameArrives
<1>7. CASE spif_irq_handler
  BY <1>7 DEF spif_irq_handler, MarkReady
<1>8. CASE UNCHANGED output
  BY <1>8 DEF output
<1>9. ASSUME NEW c \in Clients,
             (Open(c) /\ ~ OpenConfigure(c)) \/ (Release(c) /\ ~ FinishRelease(c))
      PROVE UNCHANGED output
  BY <1>9 DEF Open, OpenDown, OpenInterrupted, OpenStep, OpenBusy, OpenDone,
              Release, ReleaseDown, ReleaseInterrupted, vars
<1>10. Transfer \/ InputDone \/ UNCHANGED vars => UNCHANGED output
  BY DEF Transfer, TransferCheck, TransferWrite, InputDone, vars
<1> QED
  BY <1>1, <1>2, <1>3, <1>4, <1>5, <1>6, <1>7, <1>8, <1>9, <1>10 DEF Next, Hardware

LEMMA InputIsTyped == ASSUME InputOK, [Next]_vars PROVE InputOK'
<1> USE DEF InputOK
<1>1. ASSUME NEW c \in Clients, OpenConfigure(c) \/ OpenDone(c) PROVE InputOK'
  BY <1>1 DEF OpenConfigure, OpenDone
<1>2. ASSUME NEW c \in Clients, FinishRelease(c) PROVE InputOK'
  BY <1>2 DEF FinishRelease
<1>3. CASE Transfer
  <2>1. CASE TransferCheck
    BY <2>1 DEF TransferCheck
  <2>2. CASE TransferWrite
    <3>1. inp' \in [idle : BOOLEAN, busy : BOOLEAN]
      BY <2>2 DEF TransferWrite, Started
    <3>2. dma_init' = FALSE /\ sender' = "out" /\ UNCHANGED leftover
      BY <2>2 DEF TransferWrite, LeaveInit
    <3>3. starved' \in BOOLEAN
      BY <2>2 DEF TransferWrite
    <3> QED
      BY <3>1, <3>2, <3>3
  <2> QED
    BY <1>3, <2>1, <2>2 DEF Transfer
<1>4. CASE InputDone
  BY <1>4 DEF InputDone
<1>5. CASE UNCHANGED input
  BY <1>5 DEF input
<1>6. ASSUME NEW c \in Clients, Open(c) \/ Release(c),
             ~ OpenConfigure(c), ~ OpenDone(c), ~ FinishRelease(c)
      PROVE UNCHANGED input
  BY <1>6 DEF Open, OpenDown, OpenInterrupted, OpenStep, OpenBusy,
              Release, ReleaseDown, ReleaseInterrupted, vars
<1>7. GetOutput \/ GetOutputStep \/ GetOutputUpset \/ FrameArrives
         \/ spif_irq_handler \/ UNCHANGED vars => UNCHANGED input
  BY DEF GetOutput, GetOutputStep, Woken, ClearReady, ReturnOutput, GetOutputUpset,
         Interrupted, TimedOut, FrameArrives, spif_irq_handler, vars
<1> QED
  BY <1>1, <1>2, <1>3, <1>4, <1>5, <1>6, <1>7 DEF Next, Hardware

(* Every variable keeps its type.                                          *)
THEOREM TypeCorrect == Spec => []TypeOK
<1>1. Init => TypeOK
  <2>1. Init => OpeningOK
    BY DEF Init, OpeningOK
  <2>2. Init => OutputOK
    <3>1. Init => outp \in [irqEnabled : BOOLEAN, irq : BOOLEAN, armed : BOOLEAN, len : Nat]
      BY DEF Init
    <3>2. Init => frame \in [len : Nat, fresh : BOOLEAN, owed : BOOLEAN]
      BY DEF Init
    <3>3. Init => getter = "out" /\ outp_ready \in BOOLEAN /\ abandoned \in BOOLEAN
      BY DEF Init
    <3> QED
      BY <3>1, <3>2, <3>3 DEF OutputOK
  <2>3. Init => InputOK
    <3>1. Init => inp \in [idle : BOOLEAN, busy : BOOLEAN]
      BY DEF Init
    <3>2. Init => sender = "out" /\ dma_init \in BOOLEAN /\ leftover \in BOOLEAN
                  /\ starved \in BOOLEAN
      BY DEF Init
    <3> QED
      BY <3>1, <3>2 DEF InputOK
  <2> QED
    BY <2>1, <2>2, <2>3 DEF TypeOK
<1>2. TypeOK /\ [Next]_vars => TypeOK'
  BY OpeningIsTyped, OutputIsTyped, InputIsTyped DEF TypeOK
<1> QED
  BY <1>1, <1>2, PTL DEF Spec

(* The access invariant is inductive.                                      *)
LEMMA AccessInvariant == Spec => []AccessInv
<1>1. Init => AccessInv
  BY PipeAssumption DEF Init, AccessInv, OpeningOK, Users
<1>2. AccessInv /\ [Next]_vars => AccessInv'
  <2> SUFFICES ASSUME AccessInv, [Next]_vars PROVE AccessInv'
    OBVIOUS
  <2>0. OpeningOK'
    BY OpeningIsTyped DEF AccessInv
  <2> USE <2>0, PipeAssumption DEF AccessInv, Users, opening
  <2>1. ASSUME NEW c \in Clients, OpenDown(c) PROVE AccessInv'
    BY <2>1 DEF OpenDown, Down, OpeningOK
  <2>2. ASSUME NEW c \in Clients, OpenBusy(c) PROVE AccessInv'
    BY <2>2 DEF OpenBusy, Up, OpeningOK
  <2>3. ASSUME NEW c \in Clients, OpenConfigure(c) PROVE AccessInv'
    BY <2>3 DEF OpenConfigure, OpeningOK
  <2>4. ASSUME NEW c \in Clients, OpenDone(c) PROVE AccessInv'
    BY <2>4 DEF OpenDone, Up, OpeningOK
  <2>5. ASSUME NEW c \in Clients, ReleaseDown(c) PROVE AccessInv'
    BY <2>5 DEF ReleaseDown, CanRelease, Down, OpeningOK
  <2>6. ASSUME NEW c \in Clients, ReleaseInterrupted(c) PROVE AccessInv'
    BY <2>6 DEF ReleaseInterrupted, CanRelease, OpeningOK
  <2>7. ASSUME NEW c \in Clients, FinishRelease(c) PROVE AccessInv'
    BY <2>7 DEF FinishRelease, MarkUnused, Up, OpeningOK
  <2>8. CASE UNCHANGED opening
    BY <2>8 DEF OpeningOK
  <2>9. CASE Transfer \/ GetOutput \/ GetOutputStep \/ GetOutputUpset
             \/ Hardware \/ spif_irq_handler \/ UNCHANGED vars
             \/ \E c \in Clients : OpenInterrupted(c)
    BY <2>8, <2>9 DEF Transfer, TransferCheck, TransferWrite, GetOutput, GetOutputStep,
       Woken, ClearReady, ReturnOutput, GetOutputUpset, Interrupted, TimedOut,
       Hardware, InputDone, FrameArrives, spif_irq_handler, OpenInterrupted, vars
  <2> QED
    BY <2>1, <2>2, <2>3, <2>4, <2>5, <2>6, <2>7, <2>9 DEF Next, Open, OpenStep, Release
<1> QED
  BY <1>1, <1>2, PTL DEF Spec

(* No two clients ever have the device, whatever the number of clients     *)
(* that open and release it at the same time (open_sem and dev_open).      *)
THEOREM AccessIsExclusive == Spec => []ExclusiveAccess
<1>1. AccessInv => ExclusiveAccess
  BY DEF AccessInv, ExclusiveAccess
<1> QED
  BY <1>1, AccessInvariant, PTL

(* Only an interrupted release can leave the device marked as in use with  *)
(* no client that has it.                                                  *)
THEOREM UnusedIsGranted == Spec => NotRefusedUnlessWedged
<1>1. AccessInv => [\A c \in Clients : OpenBusy(c) => Users # {} \/ wedged]_vars
  BY DEF AccessInv, OpenBusy
<1> QED
  BY <1>1, AccessInvariant, PTL DEF NotRefusedUnlessWedged

---------------------------------------------------------------------------

(* A transfer in progress shows itself busy, unless an earlier session has *)
(* left it behind.                                                         *)
InputInv ==
    /\ inp.busy /\ ~ leftover => ~ dma_init /\ ~ inp.idle
    /\ ~ dev_open /\ inp.busy => leftover
    /\ sender = "checked" => InUse /\ (inp.busy => leftover)

LEMMA InputInvariant == Spec => []InputInv
<1>1. Init => InputInv
  BY DEF Init, InputInv
<1>2. AccessInv /\ InputOK /\ InputInv /\ [Next]_vars => InputInv'
  <2> SUFFICES ASSUME AccessInv, InputOK, InputInv, [Next]_vars PROVE InputInv'
    OBVIOUS
  <2> USE DEF InputInv, InUse, OpeningOK, AccessInv
  <2>1. ASSUME NEW c \in Clients, OpenDown(c) \/ OpenBusy(c) PROVE InputInv'
    BY <2>1 DEF OpenDown, OpenBusy, input
  <2>2. ASSUME NEW c \in Clients, OpenConfigure(c) PROVE InputInv'
    BY <2>2 DEF OpenConfigure, InputOK
  <2>3. ASSUME NEW c \in Clients, OpenDone(c) PROVE InputInv'
    BY <2>3 DEF OpenDone
  <2>4. ASSUME NEW c \in Clients, ReleaseDown(c) \/ ReleaseInterrupted(c) PROVE InputInv'
    BY <2>4 DEF ReleaseDown, ReleaseInterrupted, CanRelease, input
  <2>5. ASSUME NEW c \in Clients, FinishRelease(c) PROVE InputInv'
    <3>1. ~ InUse
      BY <2>5 DEF FinishRelease, Users
    <3> QED
      BY <2>5, <3>1 DEF FinishRelease
  <2>6. CASE TransferCheck
    BY <2>6 DEF TransferCheck, dma_busy, opening
  <2>7. CASE TransferWrite
    <3>1. dev_open
      BY <2>7 DEF TransferWrite, Users
    <3>2. PICK n \in Lengths : inp' = Started(n)
      BY <2>7 DEF TransferWrite
    <3>3. dma_init' = FALSE /\ sender' = "out" /\ dev_open' /\ leftover' = leftover
      BY <2>7, <3>1 DEF TransferWrite, LeaveInit, opening
    <3>4. CASE n = 0
      BY <2>7, <3>2, <3>3, <3>4 DEF TransferWrite, Started
    <3>5. CASE n # 0
      BY <3>2, <3>3, <3>5 DEF Started
    <3> QED
      BY <3>4, <3>5
  <2>8. CASE InputDone
    BY <2>8 DEF InputDone, opening
  <2>9. CASE UNCHANGED <<opening, input>>
    BY <2>9 DEF opening, input
  <2>10. CASE GetOutput \/ GetOutputStep \/ GetOutputUpset \/ FrameArrives
              \/ spif_irq_handler \/ UNCHANGED vars
              \/ \E c \in Clients : OpenInterrupted(c)
    BY <2>9, <2>10 DEF GetOutput, GetOutputStep, Woken, ClearReady, ReturnOutput,
       GetOutputUpset, Interrupted, TimedOut, FrameArrives, spif_irq_handler,
       OpenInterrupted, vars
  <2> QED
    BY <2>1, <2>2, <2>3, <2>4, <2>5, <2>6, <2>7, <2>8, <2>10
       DEF Next, Open, OpenStep, Release, Transfer, Hardware
<1> QED
  BY <1>1, <1>2, AccessInvariant, TypeCorrect, PTL DEF Spec, TypeOK

(* A transfer is never triggered over one of the same session that is in   *)
(* progress: the status check holds until the length register is written.  *)
THEOREM TransfersDoNotOverlap == Spec => NoOverrun
<1>1. InputInv => [TransferWrite => ~ inp.busy \/ leftover]_vars
  BY DEF InputInv, TransferWrite
<1> QED
  BY <1>1, InputInvariant, PTL DEF NoOverrun

---------------------------------------------------------------------------

Delivered == ~ outp.armed /\ frame.fresh /\ outp.len = frame.len

(* As long as no call has left without its frame: the channel is armed,    *)
(* the interrupt is raised and the flag is set for the call in progress    *)
(* only, one after the other.                                              *)
OutputInv ==
    \/ abandoned
    \/ getter = "out" /\ ~ outp.armed /\ ~ outp.irq /\ ~ outp_ready /\ ~ frame.owed
    \/ getter = "waiting" /\ ~ outp.irq /\ ~ outp_ready /\ ~ frame.owed
    \/ getter = "waiting" /\ Delivered /\ outp.irq /\ ~ outp_ready
    \/ getter = "waiting" /\ Delivered /\ ~ outp.irq /\ outp_ready
    \/ getter = "woken" /\ Delivered /\ ~ outp.irq
    \/ getter = "cleared" /\ Delivered /\ ~ outp.irq /\ ~ outp_ready

LEMMA OutputInvariant == Spec => []OutputInv
<1>1. Init => OutputInv
  BY DEF Init, OutputInv
<1>2. OutputOK /\ OutputInv /\ [Next]_vars => OutputInv'
  <2> SUFFICES ASSUME OutputOK, OutputInv, [Next]_vars PROVE OutputInv'
    OBVIOUS
  <2> USE DEF OutputInv, Delivered, OutputOK
  <2>1. ASSUME NEW c \in Clients, OpenConfigure(c) PROVE OutputInv'
    BY <2>1 DEF OpenConfigure
  <2>2. ASSUME NEW c \in Clients, FinishRelease(c) PROVE OutputInv'
    BY <2>2 DEF FinishRelease
  <2>3. CASE GetOutput
    BY <2>3 DEF GetOutput
  <2>4. CASE Woken
    BY <2>4 DEF Woken
  <2>5. CASE ClearReady
    BY <2>5 DEF ClearReady, MarkNotReady
  <2>6. CASE ReturnOutput
    BY <2>6 DEF ReturnOutput
  <2>7. CASE GetOutputUpset
    BY <2>7 DEF GetOutputUpset, Interrupted, TimedOut
  <2>8. CASE FrameArrives
    BY <2>8 DEF FrameArrives
  <2>9. CASE spif_irq_handler
    BY <2>9 DEF spif_irq_handler, MarkReady
  <2>10. CASE UNCHANGED output
    BY <2>10 DEF output
  <2>11. ASSUME NEW c \in Clients,
                (Open(c) /\ ~ OpenConfigure(c)) \/ (Release(c) /\ ~ FinishRelease(c))
         PROVE UNCHANGED output
    BY <2>11 DEF Open, OpenDown, OpenInterrupted, OpenStep, OpenBusy, OpenDone,
                 Release, ReleaseDown, ReleaseInterrupted, vars
  <2>12. Transfer \/ InputDone \/ UNCHANGED vars => UNCHANGED output
    BY DEF Transfer, TransferCheck, TransferWrite, InputDone, vars
  <2> QED
    BY <2>1, <2>2, <2>3, <2>4, <2>5, <2>6, <2>7, <2>8, <2>9, <2>10, <2>11, <2>12
       DEF Next, GetOutputStep, Hardware
<1> QED
  BY <1>1, <1>2, TypeCorrect, PTL DEF Spec, TypeOK

(* GET_OUTP returns the length of a frame that came during the call, and   *)
(* leaves the channel disarmed, as long as every call waits for its frame. *)
THEOREM OutputIsWhole == Spec => WholeFrameUnlessAbandoned
<1>1. OutputInv =>
        [Returned /\ ~ abandoned =>
            frame.fresh /\ outp.len = frame.len /\ ~ outp.armed]_vars
  BY DEF OutputInv, Delivered, Returned
<1> QED
  BY <1>1, OutputInvariant, PTL DEF WholeFrameUnlessAbandoned

(* Under the same condition no frame is overwritten before it is reported. *)
THEOREM NoFrameIsOverwritten == Spec => FramesReported
<1>1. OutputInv => [FrameArrives /\ ~ abandoned => ~ frame.owed]_vars
  BY DEF OutputInv, Delivered, FrameArrives
<1> QED
  BY <1>1, OutputInvariant, PTL DEF FramesReported

============================================================================
