------------------------------ MODULE SpifPipe ------------------------------
(***************************************************************************)
(* The run time of the kernel driver for one pipe (spif-driver.c): open,   *)
(* release, the ioctls that change its state and the interrupt handler,    *)
(* with the two channels of the pipe's DMA controller.                     *)
(*                                                                         *)
(* The client that has the device open uses it from two threads, as        *)
(* spiffer does: one sends transfers and polls their status, the other one *)
(* sleeps for output.  The DMA controller is outside the repository: it is *)
(* modelled from what the driver expects of its registers.                 *)
(***************************************************************************)
EXTENDS Naturals, FiniteSets

CONSTANTS
    Clients,     \* processes that open the device
    HasOutput,   \* dma_irq > 0: the pipe has an output channel
    Lengths,     \* transfer lengths, in bytes, that clients ask for
    Frames,      \* lengths of the frames that come from SpiNNaker
    Request,     \* the length a client asks of GET_OUTP: its half of the buffer
    Upsets       \* what may disturb a call: a subset of Disturbance

Disturbance == {"timeout", "signal", "openInterrupted", "releaseInterrupted"}

ASSUME PipeAssumption ==
    /\ Clients # {} /\ "free" \notin Clients
    /\ HasOutput \in BOOLEAN
    /\ Lengths \subseteq Nat
    /\ Request \in Nat
    /\ Frames \subseteq 1 .. Request
    /\ Upsets \subseteq Disturbance

VARIABLES
    sem,         \* open_sem: the client that holds it, or "free"
    dev_open,
    dma_init,
    outp_ready,
    pc,          \* where each client is in its use of the device
    sender,      \* where the sending thread is in an ioctl
    getter,      \* where the getting thread is in GET_OUTP
    inp,         \* input channel: [idle, busy]
    outp,        \* output channel: [irqEnabled, irq, armed, len]
    frame,       \* history: the frame in the output buffer, [len, fresh, owed]
    leftover,    \* history: a released transfer is still in progress
    starved,     \* history: the first transfer of the session had no bytes
    abandoned,   \* history: a GET_OUTP has left without its frame
    wedged       \* history: a release has been interrupted

opening == <<sem, dev_open, pc, wedged>>
output  == <<outp_ready, getter, outp, frame, abandoned>>
input   == <<dma_init, sender, inp, leftover, starved>>
vars    == <<opening, output, input>>

OpeningOK ==
    /\ sem \in Clients \cup {"free"}
    /\ dev_open \in BOOLEAN
    /\ pc \in [Clients -> {"closed", "checking", "configuring", "open", "releasing"}]
    /\ wedged \in BOOLEAN

OutputOK ==
    /\ outp_ready \in BOOLEAN
    /\ getter \in {"out", "waiting", "woken", "cleared"}
    /\ outp \in [irqEnabled : BOOLEAN, irq : BOOLEAN, armed : BOOLEAN, len : Nat]
    /\ frame \in [len : Nat, fresh : BOOLEAN, owed : BOOLEAN]
    /\ abandoned \in BOOLEAN

InputOK ==
    /\ dma_init \in BOOLEAN
    /\ sender \in {"out", "checked"}
    /\ inp \in [idle : BOOLEAN, busy : BOOLEAN]
    /\ leftover \in BOOLEAN
    /\ starved \in BOOLEAN

TypeOK == OpeningOK /\ OutputOK /\ InputOK

Init ==
    /\ sem = "free" /\ dev_open = FALSE /\ dma_init = FALSE /\ outp_ready = FALSE
    /\ pc = [c \in Clients |-> "closed"]
    /\ sender = "out" /\ getter = "out"
    /\ inp = [idle |-> FALSE, busy |-> FALSE]
    /\ outp = [irqEnabled |-> FALSE, irq |-> FALSE, armed |-> FALSE, len |-> 0]
    /\ frame = [len |-> 0, fresh |-> FALSE, owed |-> FALSE]
    /\ leftover = FALSE /\ starved = FALSE /\ abandoned = FALSE /\ wedged = FALSE

---------------------------------------------------------------------------
(* The open semaphore and the flags *)

DownUnlocked(c) == sem' = c
Down(c)         == sem = "free" /\ sem' = c
Up              == sem' = "free"

KeepDevOpen  == UNCHANGED dev_open
MarkUnused   == dev_open' = FALSE

KeepDmaInit  == UNCHANGED dma_init
LeaveInit    == dma_init' = FALSE

KeepReady    == UNCHANGED outp_ready
MarkNotReady == outp_ready' = FALSE
MarkReady    == outp_ready' = TRUE

---------------------------------------------------------------------------
(* spif_open *)

OpenDown(c) ==
    /\ pc[c] = "closed" /\ Down(c)
    /\ pc' = [pc EXCEPT ![c] = "checking"]
    /\ UNCHANGED <<dev_open, output, input, wedged>>

(* A signal arrives while the semaphore is awaited: -ERESTARTSYS. *)
OpenInterrupted(c) ==
    /\ "openInterrupted" \in Upsets
    /\ pc[c] = "closed" /\ sem # "free"
    /\ UNCHANGED vars

OpenBusy(c) ==
    /\ pc[c] = "checking" /\ dev_open
    /\ Up
    /\ pc' = [pc EXCEPT ![c] = "closed"]
    /\ UNCHANGED <<dev_open, output, input, wedged>>

(* Runs both channels.  Whether a channel that ran before still shows      *)
(* itself idle is the controller's affair.                                 *)
OpenConfigure(c) ==
    /\ pc[c] = "checking" /\ ~ dev_open
    /\ pc' = [pc EXCEPT ![c] = "configuring"]
    /\ \E idle \in {inp.idle, FALSE} : inp' = [inp EXCEPT !.idle = idle]
    /\ outp' = [outp EXCEPT !.irqEnabled = HasOutput]
    /\ UNCHANGED <<sem, dev_open, dma_init, outp_ready, sender, getter,
                   frame, leftover, starved, abandoned, wedged>>

OpenDone(c) ==
    /\ pc[c] = "configuring"
    /\ dma_init' = TRUE
    /\ dev_open' = TRUE
    /\ starved' = FALSE
    /\ Up
    /\ pc' = [pc EXCEPT ![c] = "open"]
    /\ UNCHANGED <<output, sender, inp, leftover, wedged>>

---------------------------------------------------------------------------
(* spif_release: called for the last close, when no ioctl is in progress *)

CanRelease(c) == pc[c] = "open" /\ sender = "out" /\ getter = "out"

ReleaseDown(c) ==
    /\ CanRelease(c) /\ Down(c)
    /\ pc' = [pc EXCEPT ![c] = "releasing"]
    /\ UNCHANGED <<dev_open, output, input, wedged>>

(* -ERESTARTSYS: the file is gone all the same. *)
ReleaseInterrupted(c) ==
    /\ "releaseInterrupted" \in Upsets
    /\ CanRelease(c) /\ sem # "free"
    /\ pc' = [pc EXCEPT ![c] = "closed"]
    /\ wedged' = TRUE
    /\ UNCHANGED <<sem, dev_open, output, input>>

(* Stops both channels: what they have started they finish. *)
FinishRelease(c) ==
    /\ pc[c] = "releasing"
    /\ outp' = [outp EXCEPT !.irqEnabled = FALSE]
    /\ leftover' = inp.busy
    /\ MarkUnused
    /\ Up
    /\ pc' = [pc EXCEPT ![c] = "closed"]
    /\ UNCHANGED <<dma_init, sender, inp, starved, outp_ready, getter, frame, abandoned, wedged>>

---------------------------------------------------------------------------
(* SPIF_TRANSFER and SPIF_STATUS_RD *)

InUse == \E c \in Clients : pc[c] = "open"

(* What STATUS_RD returns. *)
BusyUnlessIdle == ~ inp.idle
dma_busy       == ~ dma_init /\ ~ inp.idle

TransferCheck ==
    /\ InUse /\ sender = "out" /\ ~ dma_busy
    /\ sender' = "checked"
    /\ UNCHANGED <<opening, output, dma_init, inp, leftover, starved>>

(* The controller starts when a length other than zero is written.  *)
Started(n) == IF n = 0 THEN inp ELSE [idle |-> FALSE, busy |-> TRUE]

TransferWrite ==
    /\ sender = "checked"
    /\ \E n \in Lengths :
          /\ inp' = Started(n)
          /\ starved' = (starved \/ (n = 0 /\ ~ inp.idle /\ ~ inp.busy))
    /\ LeaveInit
    /\ sender' = "out"
    /\ UNCHANGED <<opening, output, leftover>>

(* The controller has streamed the whole buffer into the pipe. *)
InputDone ==
    /\ inp.busy
    /\ inp' = [idle |-> TRUE, busy |-> FALSE]
    /\ leftover' = FALSE
    /\ UNCHANGED <<opening, output, dma_init, sender, starved>>

---------------------------------------------------------------------------
(* SPIF_GET_OUTP *)

GetOutput ==
    /\ InUse /\ getter = "out"
    /\ outp' = IF HasOutput THEN [outp EXCEPT !.armed = TRUE, !.len = Request] ELSE outp
    /\ frame' = [frame EXCEPT !.fresh = FALSE]
    /\ getter' = "waiting"
    /\ UNCHANGED <<opening, input, outp_ready, abandoned>>

Woken ==
    /\ getter = "waiting" /\ outp_ready
    /\ getter' = "woken"
    /\ UNCHANGED <<opening, input, outp_ready, outp, frame, abandoned>>

(* The wait returns -ERESTARTSYS, which is not 0. *)
Interrupted ==
    /\ "signal" \in Upsets
    /\ getter = "waiting" /\ ~ outp_ready
    /\ getter' = "woken"
    /\ abandoned' = TRUE
    /\ UNCHANGED <<opening, input, outp_ready, outp, frame>>

(* Ten seconds have passed: the client gets length 0. *)
TimedOut ==
    /\ "timeout" \in Upsets
    /\ getter = "waiting" /\ ~ outp_ready
    /\ getter' = "out"
    /\ abandoned' = TRUE
    /\ UNCHANGED <<opening, input, outp_ready, outp, frame>>

ClearReady ==
    /\ getter = "woken"
    /\ MarkNotReady
    /\ getter' = "cleared"
    /\ UNCHANGED <<opening, input, outp, frame, abandoned>>

(* Returns outp.len, the register with the length, to the client. *)
ReturnOutput ==
    /\ getter = "cleared"
    /\ getter' = "out"
    /\ frame' = [frame EXCEPT !.owed = FALSE]
    /\ UNCHANGED <<opening, input, outp_ready, outp, abandoned>>

(* A frame fills the buffer: the controller records its length and raises  *)
(* its interrupt.  Until the channel is armed, frames wait upstream.       *)
FrameArrives ==
    /\ outp.armed
    /\ \E n \in Frames :
          /\ outp' = [outp EXCEPT !.armed = FALSE, !.len = n, !.irq = TRUE]
          /\ frame' = [len |-> n, fresh |-> TRUE, owed |-> TRUE]
    /\ UNCHANGED <<opening, input, outp_ready, getter, abandoned>>

spif_irq_handler ==
    /\ outp.irq /\ outp.irqEnabled
    /\ outp' = [outp EXCEPT !.irq = FALSE]
    /\ MarkReady
    /\ UNCHANGED <<opening, input, getter, frame, abandoned>>

---------------------------------------------------------------------------

OpenStep(c)    == OpenBusy(c) \/ OpenConfigure(c) \/ OpenDone(c)
Open(c)        == OpenDown(c) \/ OpenInterrupted(c) \/ OpenStep(c)
Release(c)     == ReleaseDown(c) \/ ReleaseInterrupted(c) \/ FinishRelease(c)
Transfer       == TransferCheck \/ TransferWrite
GetOutputStep  == Woken \/ ClearReady \/ ReturnOutput
GetOutputUpset == Interrupted \/ TimedOut
Hardware       == InputDone \/ FrameArrives

Next ==
    \/ \E c \in Clients : Open(c) \/ Release(c)
    \/ Transfer
    \/ GetOutput \/ GetOutputStep \/ GetOutputUpset
    \/ Hardware
    \/ spif_irq_handler

(* Calls run to their end, interrupts are served, and the mesh takes the   *)
(* packets of a transfer.  A release that has begun ends, but nobody has   *)
(* to begin one, or any other call, and no frame has to come.              *)
Fairness ==
    /\ \A c \in Clients : WF_vars(OpenStep(c)) /\ WF_vars(FinishRelease(c))
    /\ WF_vars(TransferWrite)
    /\ WF_vars(GetOutputStep)
    /\ WF_vars(InputDone)
    /\ WF_vars(spif_irq_handler)

Spec     == Init /\ [][Next]_vars
FairSpec == Spec /\ Fairness

---------------------------------------------------------------------------
Users == {c \in Clients : pc[c] \in {"open", "releasing"}}

(* spif-driver.c:193, "allow only one file handle to spif - disallow       *)
(* concurrent accesses": whatever opens and releases interleave, no two    *)
(* clients have the device, and none has it while it is marked unused.     *)
ExclusiveAccess ==
    /\ \A c, d \in Users : c = d
    /\ Users # {} => dev_open

(* spif-driver.c:261, "mark as unused to allow new accesses": the device   *)
(* is not refused when no client has it, for as long as no release has     *)
(* been interrupted.                                                       *)
NotRefusedUnlessWedged ==
    [][\A c \in Clients : OpenBusy(c) => Users # {} \/ wedged]_vars

(* spif-driver.c:329, "check dma status": a transfer is not triggered, and *)
(* the buffer is not given up for reuse, while the previous transfer of    *)
(* the session is in progress.                                             *)
NoOverrun ==
    [][TransferWrite => ~ inp.busy \/ leftover]_vars

Returned == getter = "cleared" /\ getter' = "out"

(* spif-driver.c:355 and 364, "sleep until transfer complete" and "read    *)
(* actual transfer length": what GET_OUTP returns is the length of a frame *)
(* that came during the call, and the channel leaves the buffer alone, for *)
(* as long as no call has left without its frame.                          *)
WholeFrameUnlessAbandoned ==
    [][Returned /\ ~ abandoned =>
          frame.fresh /\ outp.len = frame.len /\ ~ outp.armed]_vars

(* As long as no call has left without its frame, no frame is overwritten  *)
(* before the client has been told of it.                                  *)
FramesReported ==
    [][FrameArrives /\ ~ abandoned => ~ frame.owed]_vars

(* spif-driver.c:440, "and wake up whoever requested the transfer": a call *)
(* that waits for a frame does not sleep through its arrival, not even     *)
(* when earlier calls were interrupted or timed out.                       *)
WaiterWoken == (getter = "waiting" /\ frame.fresh) ~> (getter # "waiting")

(* The comment at spiffer.cpp:395, "and wait until spif finishes the       *)
(* transfer": a client that polls the status until the pipe is not busy    *)
(* sees it so in the end, or has closed the device.  A transfer of no      *)
(* bytes (the length is not checked) hangs the pipe for the session whose  *)
(* first transfer it is, and for no other session.                         *)
TransfersFinishUnlessStarved ==
    (InUse /\ dma_busy /\ ~ starved) ~> (~ dma_busy \/ ~ InUse)

============================================================================
