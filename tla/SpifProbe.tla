------------------------------ MODULE SpifProbe ------------------------------
(***************************************************************************)
(* Start and end of the kernel driver (spif-driver.c): what probe acquires *)
(* for the board and for each pipe, the error exits of every function it   *)
(* calls, and remove.  Files may be opened and controllers may interrupt   *)
(* between any two steps.                                                  *)
(*                                                                         *)
(* pc is the step that the driver takes next.  The three places that free  *)
(* pipes (error4 and error2 of spif_pipes_init and spif_pipes_remove) free *)
(* the same resources in the same order, and share their steps.            *)
(*                                                                         *)
(* class_create and device_create of the kernel fail with an error code in *)
(* the pointer, never with the null pointer that lines 689 and 739 look    *)
(* for.  A class that failed is written to at line 746: the kernel faults, *)
(* and the probe ends there (pc is "oops").  A device that failed is taken *)
(* for created.  of_parse_phandle counts a reference of the node it finds, *)
(* which its caller has to put back.                                       *)
(***************************************************************************)
EXTENDS Integers

CONSTANTS
    Pipes,       \* drv->pipes, as read from the version register
    Outps,       \* drv->outps
    RsvdSize     \* drv->rsvd_sz: size of the reserved memory

ASSUME ProbeAssumption ==
    /\ Pipes \in Nat \ {0}
    /\ Outps \in Nat
    /\ RsvdSize \in Nat

PipeIds  == 0 .. Pipes - 1
NoPipe   == -1
IsOutp(i) == i < Outps
PmemSize == RsvdSize \div (2 * Pipes)

Nodes    == {"apbNode", "rsvdNode", "dmaNode"}
Shared   == {"drv", "apbNode", "apbr", "rsvdNode", "class", "region"}
PerPipe  == {"data", "dmaNode", "irq", "regs", "device", "cdev"}
Acquiring == {"findApb", "apbr", "check", "findRsvd", "rsvd", "class", "region",
              "pipe", "findDma", "irq", "map", "reset", "queue", "device", "cdev", "link"}
Freeing  == {"unwind", "deleteCdev", "destroyDevice", "unmap", "freeIrq", "freePipe",
             "unregister", "destroyClass", "unmapApbr", "freeDrv"}

VARIABLES
    pc,
    core,        \* the resources of the driver that are held, earlier probes' included
    has,         \* the resources of each pipe that are held
    dma_irq,     \* dma_irq > 0
    pipe,        \* the pipe at hand
    next_pipe,   \* the head of the list, and of drv->pipe_list
    next,        \* pipe->next
    pmem_pa,     \* the next window, from the start of the reserved memory
    window,      \* pipe->pmem_pa, from there too
    ready,       \* pipes with a wait queue that is initialised
    dev_open,    \* pipes that are marked as open
    open,        \* pipes with an open file
    irq_en,      \* pipes whose controller runs with its interrupt enabled
    early,       \* history: opened before their probe ended
    wedged       \* history: a release was interrupted by a signal

list   == <<pipe, next_pipe, next>>
memory == <<pmem_pa, window>>
files  == <<dev_open, open, irq_en, early, wedged>>
vars   == <<pc, core, has, dma_irq, list, memory, ready, files>>

TypeOK ==
    /\ pc \in {"off", "live", "oops"} \cup Acquiring \cup Freeing
    /\ core \subseteq Shared
    /\ has \in [PipeIds -> SUBSET PerPipe]
    /\ dma_irq \in [PipeIds -> BOOLEAN]
    /\ pipe \in 0 .. Pipes
    /\ next_pipe \in PipeIds \cup {NoPipe}
    /\ next \in [PipeIds -> PipeIds \cup {NoPipe}]
    /\ pmem_pa \in Nat /\ window \in [PipeIds -> Nat]
    /\ ready \subseteq PipeIds /\ dev_open \subseteq PipeIds /\ open \subseteq PipeIds
    /\ irq_en \subseteq PipeIds /\ early \subseteq PipeIds /\ wedged \subseteq PipeIds

Init ==
    /\ pc = "off" /\ core = {}
    /\ has = [i \in PipeIds |-> {}]
    /\ dma_irq = [i \in PipeIds |-> FALSE]
    /\ pipe = 0 /\ next_pipe = NoPipe
    /\ next = [i \in PipeIds |-> NoPipe]
    /\ pmem_pa = 0 /\ window = [i \in PipeIds |-> 0]
    /\ ready = {} /\ dev_open = {} /\ open = {}
    /\ irq_en = {} /\ early = {} /\ wedged = {}

---------------------------------------------------------------------------
Goto(from, to) == pc = from /\ pc' = to

(* A check or an acquisition fails: only the way on changes. *)
Fail(from, to) ==
    Goto(from, to) /\ UNCHANGED <<core, has, dma_irq, list, memory, ready, files>>

Acquire(r, from, to) ==
    /\ Goto(from, to)
    /\ core' = core \cup {r}
    /\ UNCHANGED <<has, dma_irq, memory, ready, files>>

Give(r) == has' = [has EXCEPT ![pipe] = @ \cup {r}]
Take(r) == has' = [has EXCEPT ![pipe] = @ \ {r}]

---------------------------------------------------------------------------
(* spif_driver_probe, spif_apbr_init and spif_rsvd_init *)

(* Files that a failed probe left behind are not followed further. *)
Load == open = {} /\ Acquire("drv", "off", "findApb") /\ UNCHANGED list

spif_apbr_init ==
    \/ Acquire("apbNode", "findApb", "apbr") /\ UNCHANGED list
    \/ Fail("findApb", "freeDrv")
    \/ Acquire("apbr", "apbr", "check") /\ UNCHANGED list
    \/ Fail("apbr", "freeDrv")
    \/ Fail("check", "findRsvd")     \* the board is there
    \/ Fail("check", "unmapApbr")

spif_rsvd_init ==
    \/ Acquire("rsvdNode", "findRsvd", "rsvd") /\ UNCHANGED list
    \/ Fail("findRsvd", "unmapApbr")
    \/ Fail("rsvd", "class")         \* found
    \/ Fail("rsvd", "unmapApbr")

---------------------------------------------------------------------------
(* spif_pipes_init, with spif_dmac_init and spif_cdev_init *)

CreateClass ==
    \/ Acquire("class", "class", "region") /\ UNCHANGED list
    \/ Fail("class", "oops")

AllocRegion ==
    \/ /\ Goto("region", "pipe")
       /\ core' = core \cup {"region"}
       /\ pipe' = 0 /\ next_pipe' = NoPipe
       /\ pmem_pa' = 0
       /\ UNCHANGED <<has, dma_irq, next, window, ready, files>>
    \/ Fail("region", "destroyClass")

AllocPipe ==
    /\ pipe < Pipes
    /\ \/ /\ Goto("pipe", "findDma")
          /\ Give("data")
          /\ UNCHANGED <<core, dma_irq, list, memory, ready, files>>
       \/ Fail("pipe", "unwind")

AllPipes ==
    /\ pipe = Pipes
    /\ Goto("pipe", "live")
    /\ early' = {}
    /\ UNCHANGED <<core, has, dma_irq, list, memory, ready, dev_open, open, irq_en, wedged>>

FindDmac ==
    \/ /\ Goto("findDma", "irq")
       /\ Give("dmaNode")
       /\ UNCHANGED <<core, dma_irq, list, memory, ready, files>>
    \/ Fail("findDma", "freePipe")

(* The interrupt may be refused.  An output without an interrupt is taken  *)
(* for an input.                                                           *)
RequestIrq ==
    \/ /\ Goto("irq", "map")
       /\ \E irq \in {FALSE, IsOutp(pipe)} :
             /\ dma_irq' = [dma_irq EXCEPT ![pipe] = irq]
             /\ IF irq THEN Give("irq") ELSE UNCHANGED has
       /\ UNCHANGED <<core, list, memory, ready, files>>
    \/ Fail("irq", "freePipe")

MapFailsAll == Fail("map", "unmap")
MapFails    == Fail("map", "freeIrq")

MapRegs ==
    \/ /\ Goto("map", "reset")
       /\ Give("regs")
       /\ UNCHANGED <<core, dma_irq, list, memory, ready, files>>
    \/ MapFails

ResetDmac ==
    /\ Goto("reset", "queue")
    /\ irq_en' = irq_en \ {pipe}
    /\ early' = early \ {pipe} /\ wedged' = wedged \ {pipe}
    /\ UNCHANGED <<core, has, dma_irq, list, memory, ready, dev_open, open>>

InitPipe ==
    /\ Goto("queue", "device")
    /\ ready' = IF IsOutp(pipe) THEN ready \cup {pipe} ELSE ready
    /\ window' = [window EXCEPT ![pipe] = pmem_pa]
    /\ UNCHANGED <<core, has, dma_irq, list, pmem_pa, files>>

(* Goes on whether or not the device was created. *)
CreateDevice ==
    /\ Goto("device", "cdev")
    /\ Give("device") \/ UNCHANGED has
    /\ dev_open' = dev_open \ {pipe}
    /\ UNCHANGED <<core, dma_irq, list, memory, ready, open, irq_en, early, wedged>>

(* From here on the device can be opened. *)
AddCdev ==
    \/ /\ Goto("cdev", "link")
       /\ Give("cdev")
       /\ UNCHANGED <<core, dma_irq, list, memory, ready, files>>
    \/ Fail("cdev", "destroyDevice")

NextWindowHalf == pmem_pa' = pmem_pa + PmemSize
NextWindow     == pmem_pa' = pmem_pa + 2 * PmemSize

(* The semaphore is initialised here. *)
LinkPipe ==
    /\ Goto("link", "pipe")
    /\ NextWindow
    /\ next' = [next EXCEPT ![pipe] = next_pipe]
    /\ next_pipe' = pipe
    /\ pipe' = pipe + 1
    /\ UNCHANGED <<core, has, dma_irq, window, ready, files>>

spif_dmac_init  == FindDmac \/ RequestIrq \/ MapRegs \/ ResetDmac
spif_cdev_init  == CreateDevice \/ AddCdev
spif_pipes_init ==
    \/ CreateClass \/ AllocRegion \/ AllocPipe \/ AllPipes
    \/ spif_dmac_init \/ InitPipe \/ spif_cdev_init \/ LinkPipe

---------------------------------------------------------------------------
(* The error exits, and spif_driver_remove with spif_pipes_remove *)

FreeNext ==
    /\ Goto("unwind", "deleteCdev")
    /\ next_pipe # NoPipe
    /\ pipe' = next_pipe
    /\ next_pipe' = next[next_pipe]
    /\ UNCHANGED <<core, has, dma_irq, next, memory, ready, files>>

NoneLeft == next_pipe = NoPipe /\ Fail("unwind", "unregister")

(* device_destroy looks for the device, and does nothing if there is none. *)
Free(r, from, to) ==
    /\ Goto(from, to)
    /\ Take(r)
    /\ UNCHANGED <<core, dma_irq, list, memory, ready, files>>

KeepIrq == Fail("freeIrq", "freePipe")
FreeIrq ==
    /\ Goto("freeIrq", "freePipe")
    /\ IF dma_irq[pipe] THEN Take("irq") ELSE UNCHANGED has
    /\ UNCHANGED <<core, dma_irq, list, memory, ready, files>>

FreePipe ==
    /\ Goto("freePipe", "unwind")
    /\ Take("data")
    /\ ready' = ready \ {pipe}
    /\ UNCHANGED <<core, dma_irq, list, memory, files>>

FreePipes ==
    \/ FreeNext \/ NoneLeft
    \/ Free("cdev", "deleteCdev", "destroyDevice")
    \/ Free("device", "destroyDevice", "unmap")
    \/ Free("regs", "unmap", "freeIrq")
    \/ FreeIrq \/ FreePipe

FreeShared(r, from, to) ==
    /\ Goto(from, to)
    /\ core' = core \ {r}
    /\ UNCHANGED <<has, dma_irq, list, memory, ready, files>>

FreeDriver ==
    \/ FreeShared("region", "unregister", "destroyClass")
    \/ FreeShared("class", "destroyClass", "unmapApbr")
    \/ FreeShared("apbr", "unmapApbr", "freeDrv")
    \/ FreeShared("drv", "freeDrv", "off")

Unused  == open = {}

(* An open file holds a reference of the module (dev_cdev.owner), and the  *)
(* module is not removed while there is one.                               *)
Remove == Unused /\ Fail("live", "unwind")

---------------------------------------------------------------------------
(* Clients.  The run time of an open pipe is in SpifPipe. *)

spif_open(i) ==
    /\ "cdev" \in has[i] /\ i \notin dev_open
    /\ dev_open' = dev_open \cup {i} /\ open' = open \cup {i}
    /\ irq_en' = IF dma_irq[i] THEN irq_en \cup {i} ELSE irq_en
    /\ early' = IF pc = "live" THEN early ELSE early \cup {i}
    /\ UNCHANGED <<pc, core, has, dma_irq, list, memory, ready, wedged>>

StopInput(i)    == UNCHANGED irq_en
StopChannels(i) == irq_en' = irq_en \ {i}

(* A release of a pipe that a failed probe has freed does what it may. *)
spif_release(i) ==
    /\ i \in open
    /\ open' = open \ {i}
    /\ \/ "data" \in has[i] /\ StopChannels(i) /\ dev_open' = dev_open \ {i}
       \/ "data" \notin has[i] /\ UNCHANGED dev_open
             /\ irq_en' \in {irq_en, irq_en \ {i}}
    /\ UNCHANGED <<pc, core, has, dma_irq, list, memory, ready, early, wedged>>

ReleaseInterrupted(i) ==
    /\ i \in open
    /\ open' = open \ {i}
    /\ wedged' = wedged \cup {i}
    /\ UNCHANGED <<pc, core, has, dma_irq, list, memory, ready, dev_open, irq_en, early>>

---------------------------------------------------------------------------
DriverStep ==
    spif_apbr_init \/ spif_rsvd_init \/ spif_pipes_init \/ FreePipes \/ FreeDriver

Next ==
    \/ Load \/ DriverStep \/ Remove
    \/ \E i \in PipeIds : spif_open(i) \/ spif_release(i) \/ ReleaseInterrupted(i)

Spec     == Init /\ [][Next]_vars
FairSpec == Spec /\ WF_vars(DriverStep)

---------------------------------------------------------------------------
(* Whichever step of a probe fails, its error exits give back everything   *)
(* that was acquired before it, and so does remove, line 460, "free and    *)
(* unregister all resources": everything but the references of the device  *)
(* tree nodes, which no line of the driver puts back.  (A probe that       *)
(* faults does not end, and keeps what it has.)                            *)
OnlyNodesLeak ==
    pc = "off" => core \subseteq Nodes /\ \A i \in PipeIds : has[i] \subseteq Nodes

(* They give back nothing else: a resource that is about to be freed is    *)
(* held, and the data of a pipe and of the driver go last.  (Only the      *)
(* device of a pipe may not be there: see CreateDevice and Free.)          *)
FreedIsHeld ==
    /\ pc = "deleteCdev"    => "cdev" \in has[pipe]
    /\ pc = "unmap"         => "regs" \in has[pipe]
    /\ pc = "freeIrq"       => (dma_irq[pipe] => "irq" \in has[pipe])
    /\ pc = "freePipe"      => has[pipe] \ Nodes = {"data"}
    /\ pc = "unregister"    => core \ Nodes = {"drv", "apbr", "class", "region"}
    /\ pc = "destroyClass"  => core \ Nodes = {"drv", "apbr", "class"}
    /\ pc = "unmapApbr"     => core \ Nodes = {"drv", "apbr"}
    /\ pc = "freeDrv"       => core \ Nodes = {"drv"}

(* A file that was opened on a complete driver finds its pipe and the      *)
(* registers of its controller, and an output its interrupt, for as long   *)
(* as it is open.  (A file that was opened while probe still ran may lose  *)
(* them to a later error exit.)                                            *)
OpenFilesHaveTheirPipe ==
    \A i \in open \ early :
        /\ {"data", "regs", "cdev"} \subseteq has[i]
        /\ dma_irq[i] => "irq" \in has[i]

(* When its controller interrupts, the handler (lines 429 to 445) finds    *)
(* mapped registers and an initialised wait queue, although the interrupt  *)
(* is requested before and freed after both: until the reset and from the  *)
(* release on the controller is quiet, unless a release was interrupted or *)
(* the probe that a file was opened in has failed.  (The line is shared:   *)
(* this says nothing of a call of the handler for another device.)         *)
HandlerFindsItsPipe ==
    \A i \in irq_en \ (early \cup wedged) :
        "irq" \in has[i] => "regs" \in has[i] /\ i \in ready

(* The buffers of two pipes never overlap, and none leaves the reserved    *)
(* memory (lines 770 to 817).                                              *)
WindowsApart ==
    \A i \in PipeIds : "cdev" \in has[i] =>
        /\ window[i] + 2 * PmemSize <= RsvdSize
        /\ \A j \in PipeIds \ {i} : "cdev" \in has[j] =>
              \/ window[i] + 2 * PmemSize <= window[j]
              \/ window[j] + 2 * PmemSize <= window[i]

=============================================================================
