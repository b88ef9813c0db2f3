--------------------------- MODULE SpifProbeProofs ---------------------------
(***************************************************************************)
(* Proofs about SpifProbe, for every number of pipes: what the error exits *)
(* and remove give back is what was acquired, but for the references of    *)
(* device tree nodes, and the interrupt handler and the open files find    *)
(* what they use.                                                          *)
(*                                                                         *)
(* The inductive invariant says what each step of the driver holds: the    *)
(* pipes of the list are complete, the pipe at hand holds what its step    *)
(* implies, and no other pipe holds anything.                              *)
(***************************************************************************)
EXTENDS SpifProbe, TLAPS

Building  == {"pipe", "findDma", "irq", "map", "reset", "queue", "device", "cdev", "link"}
AtHand    == (Building \ {"pipe"}) \cup
             {"deleteCdev", "destroyDevice", "unmap", "freeIrq", "freePipe"}
Unlisted  == {"off", "oops", "findApb", "apbr", "check", "findRsvd", "rsvd", "class", "region",
              "unregister", "destroyClass", "unmapApbr", "freeDrv"}

(* The list holds the pipes 0 .. next_pipe, the last one first.            *)
ListInv ==
    /\ pc \in {"off", "live", "oops"} \cup Acquiring \cup Freeing
    /\ pipe \in 0 .. Pipes /\ next_pipe \in NoPipe .. Pipes - 1
    /\ next \in [PipeIds -> PipeIds \cup {NoPipe}]
    /\ \A i \in PipeIds : i <= next_pipe => next[i] = i - 1
    /\ pc \in Building => pipe = next_pipe + 1
    /\ pc \in AtHand => pipe \in PipeIds /\ pipe > next_pipe
    /\ pc = "live" => next_pipe = Pipes - 1
    /\ pc \in Unlisted => next_pipe = NoPipe

(* The steps at which the pipe at hand holds each of its resources.        *)
CdevSteps   == {"link", "deleteCdev"}
DeviceSteps == CdevSteps \cup {"cdev", "destroyDevice"}
RegsSteps   == DeviceSteps \cup {"reset", "queue", "device", "unmap"}
IrqSteps    == RegsSteps \cup {"map", "freeIrq"}

Holds(i, steps) == i <= next_pipe \/ (i = pipe /\ pc \in steps)

HasInv ==
    /\ has \in [PipeIds -> SUBSET PerPipe]
    /\ dma_irq \in [PipeIds -> BOOLEAN]
    /\ \A i \in PipeIds :
          /\ dma_irq[i] => IsOutp(i)
          /\ "cdev" \in has[i] <=> Holds(i, CdevSteps)
          /\ "device" \in has[i] => Holds(i, DeviceSteps)
          /\ "regs" \in has[i] <=> Holds(i, RegsSteps)
          /\ "irq" \in has[i] <=> Holds(i, IrqSteps) /\ dma_irq[i]
          /\ "data" \in has[i] <=> Holds(i, AtHand)

(* The steps at which the driver does not hold each of its own.            *)
CoreInv ==
    /\ core \subseteq Shared
    /\ "drv" \in core <=> pc # "off"
    /\ "apbr" \in core <=> pc \notin {"off", "findApb", "apbr", "freeDrv"}
    /\ "class" \in core <=>
          pc \notin {"off", "oops", "findApb", "apbr", "check", "findRsvd", "rsvd", "class",
                     "unmapApbr", "freeDrv"}
    /\ "region" \in core <=> pc \notin Unlisted \ {"unregister"}

(* A pipe has been reset by this probe. *)
WasReset(i) ==
    i <= next_pipe \/ (i = pipe /\ pc \in {"queue", "device", "cdev", "link"})

FileInv ==
    /\ ready \subseteq PipeIds /\ dev_open \subseteq PipeIds /\ open \subseteq PipeIds
    /\ irq_en \subseteq PipeIds /\ early \subseteq PipeIds /\ wedged \subseteq PipeIds
    /\ \A i \in PipeIds :
          IsOutp(i) /\ Holds(i, {"device", "cdev", "link"}) => i \in ready
    /\ pc # "live" => open \subseteq early
    /\ pc \notin Freeing \cup {"off"} => \A i \in open : "cdev" \in has[i]
    /\ irq_en \subseteq open \cup early \cup wedged
    /\ \A i \in irq_en : WasReset(i) => i \in open \cup wedged

IInv == ListInv /\ HasInv /\ CoreInv /\ FileInv

---------------------------------------------------------------------------
(* What a client does leaves the driver's own state alone.                 *)
ClientStep == \E i \in PipeIds : spif_open(i) \/ spif_release(i) \/ ReleaseInterrupted(i)

driver == <<pc, core, has, dma_irq, list, memory, ready>>

LEMMA ClientsLeaveDriver == ClientStep => UNCHANGED driver
  BY DEF ClientStep, spif_open, spif_release, ReleaseInterrupted, driver

(* The list is changed by three steps only.                                *)
LEMMA ListKept == IInv /\ [Next]_vars => ListInv'
<1> SUFFICES ASSUME ListInv, [Next]_vars PROVE ListInv'
  BY DEF IInv
<1> USE ProbeAssumption DEF ListInv, PipeIds, NoPipe, Building, AtHand, Unlisted,
        Acquiring, Freeing, Goto
<1>1. CASE Load \/ spif_apbr_init \/ spif_rsvd_init
  BY <1>1 DEF Load, spif_apbr_init, spif_rsvd_init, Acquire, Fail, list
<1>2. CASE CreateClass
  BY <1>2 DEF CreateClass, Acquire, Fail, list
<1>3. CASE AllocRegion
  BY <1>3 DEF AllocRegion, Fail, list
<1>4. CASE AllocPipe
  BY <1>4 DEF AllocPipe, Fail, list
<1>5. CASE AllPipes
  BY <1>5 DEF AllPipes, Fail, list
<1>6. CASE spif_dmac_init
  BY <1>6 DEF spif_dmac_init, FindDmac, RequestIrq, MapRegs, MapFails, ResetDmac, Fail, list
<1>7. CASE InitPipe \/ spif_cdev_init
  BY <1>7 DEF InitPipe, spif_cdev_init, CreateDevice, AddCdev, Fail, list
<1>8. CASE LinkPipe
  <2>1. pipe \in PipeIds /\ pc' = "pipe" /\ next_pipe' = pipe /\ pipe' = pipe + 1
    BY <1>8 DEF LinkPipe
  <2>2. next' = [next EXCEPT ![pipe] = next_pipe]
    BY <1>8 DEF LinkPipe
  <2>3. next_pipe = pipe - 1
    BY <1>8 DEF LinkPipe
  <2> QED BY <2>1, <2>2, <2>3
<1>9. CASE FreePipes
  BY <1>9 DEF FreePipes, FreeNext, NoneLeft, Free, FreeIrq, FreePipe, Fail, list
<1>10. CASE FreeDriver
  BY <1>10 DEF FreeDriver, FreeShared, list
<1>11. CASE Remove
  BY <1>11 DEF Remove, Fail, list
<1>12. CASE ClientStep
  BY <1>12, ClientsLeaveDriver DEF driver, list
<1>13. CASE UNCHANGED vars
  BY <1>13 DEF vars, list
<1> QED
  BY <1>1, <1>2, <1>3, <1>4, <1>5, <1>6, <1>7, <1>8, <1>9, <1>10, <1>11, <1>12, <1>13
  DEF Next, DriverStep, spif_pipes_init, ClientStep

LEMMA CoreKept == IInv /\ [Next]_vars => CoreInv'
<1> SUFFICES ASSUME CoreInv, ListInv, [Next]_vars PROVE CoreInv'
  BY DEF IInv
<1> USE DEF CoreInv, Shared, Unlisted, Goto
<1>1. CASE Load \/ spif_apbr_init \/ spif_rsvd_init
  BY <1>1 DEF Load, spif_apbr_init, spif_rsvd_init, Acquire, Fail
<1>2. CASE CreateClass \/ AllocRegion
  BY <1>2 DEF CreateClass, AllocRegion, Acquire, Fail
<1>3. CASE AllocPipe \/ AllPipes \/ LinkPipe \/ InitPipe
  BY <1>3 DEF AllocPipe, AllPipes, LinkPipe, InitPipe, Fail
<1>4. CASE spif_dmac_init
  BY <1>4 DEF spif_dmac_init, FindDmac, RequestIrq, MapRegs, MapFails, ResetDmac, Fail
<1>5. CASE spif_cdev_init
  BY <1>5 DEF spif_cdev_init, CreateDevice, AddCdev, Fail
<1>6. CASE FreePipes
  BY <1>6 DEF FreePipes, FreeNext, NoneLeft, Free, FreeIrq, FreePipe, Fail
<1>7. CASE FreeDriver
  BY <1>7 DEF FreeDriver, FreeShared
<1>8. CASE Remove
  BY <1>8 DEF Remove, Fail
<1>9. CASE ClientStep
  BY <1>9, ClientsLeaveDriver DEF driver
<1>10. CASE UNCHANGED vars
  BY <1>10 DEF vars
<1> QED
  BY <1>1, <1>2, <1>3, <1>4, <1>5, <1>6, <1>7, <1>8, <1>9, <1>10
  DEF Next, DriverStep, spif_pipes_init, ClientStep

(* Every step gives and takes what its place in the sequence says.         *)
LEMMA HasKept == IInv /\ [Next]_vars => HasInv'
<1> SUFFICES ASSUME ListInv, HasInv, [Next]_vars PROVE HasInv'
  BY DEF IInv
<1> USE ProbeAssumption DEF HasInv, PerPipe, Goto, Holds, CdevSteps, DeviceSteps, RegsSteps,
        IrqSteps, AtHand, Building, ListInv, PipeIds, NoPipe, Unlisted
<1>1. CASE Load \/ spif_apbr_init \/ spif_rsvd_init
  BY <1>1 DEF Load, spif_apbr_init, spif_rsvd_init, Acquire, Fail, list
<1>2. CASE CreateClass \/ AllocRegion
  BY <1>2 DEF CreateClass, AllocRegion, Acquire, Fail, list
<1>3. CASE AllocPipe
  BY <1>3 DEF AllocPipe, Give, Fail, list
<1>4. CASE AllPipes
  BY <1>4 DEF AllPipes, list
<1>18. CASE FindDmac
  BY <1>18 DEF FindDmac, Give, Fail, list
<1>5. CASE RequestIrq
  <2>1. CASE Fail("irq", "freePipe")
    BY <2>1 DEF Fail, list
  <2>2. CASE /\ pc = "irq" /\ pc' = "map"
             /\ dma_irq' = [dma_irq EXCEPT ![pipe] = FALSE]
             /\ UNCHANGED <<has, list>>
    BY <2>2 DEF list
  <2>3. CASE /\ pc = "irq" /\ pc' = "map" /\ IsOutp(pipe)
             /\ dma_irq' = [dma_irq EXCEPT ![pipe] = TRUE]
             /\ Give("irq") /\ UNCHANGED list
    BY <2>3 DEF Give, list
  <2>4. IsOutp(pipe) \in BOOLEAN
    BY DEF IsOutp
  <2> HIDE DEF HasInv, ListInv, IsOutp
  <2> QED BY <1>5, <2>1, <2>2, <2>3, <2>4, Zenon DEF RequestIrq, Give
<1>6. CASE MapRegs \/ ResetDmac
  <2>1. CASE MapRegs /\ Give("regs")
    BY <2>1 DEF MapRegs, MapFails, Give, Fail, list
  <2>2. CASE MapFails
    BY <2>2 DEF MapFails, Fail, list
  <2>3. CASE ResetDmac
    BY <2>3 DEF ResetDmac, list
  <2> QED BY <1>6, <2>1, <2>2, <2>3 DEF MapRegs
<1>7. CASE InitPipe \/ spif_cdev_init
  BY <1>7 DEF InitPipe, spif_cdev_init, CreateDevice, AddCdev, Give, Fail, list
<1>8. CASE LinkPipe
  BY <1>8 DEF LinkPipe
<1>9. CASE FreeNext \/ NoneLeft
  BY <1>9 DEF FreeNext, NoneLeft, Fail, list
<1>10. CASE Free("cdev", "deleteCdev", "destroyDevice")
  BY <1>10 DEF Free, Take, list
<1>11. CASE Free("device", "destroyDevice", "unmap")
  BY <1>11 DEF Free, Take, list
<1>12. CASE Free("regs", "unmap", "freeIrq")
  BY <1>12 DEF Free, Take, list
<1>13. CASE FreeIrq \/ FreePipe
  <2>1. CASE FreeIrq /\ dma_irq[pipe]
    BY <2>1 DEF FreeIrq, Take, list
  <2>2. CASE FreeIrq /\ ~ dma_irq[pipe]
    BY <2>2 DEF FreeIrq, list
  <2>3. CASE FreePipe
    BY <2>3 DEF FreePipe, Take, list
  <2> QED BY <1>13, <2>1, <2>2, <2>3
<1>14. CASE FreeDriver
  BY <1>14 DEF FreeDriver, FreeShared, list
<1>15. CASE Remove
  BY <1>15 DEF Remove, Fail, list
<1>16. CASE ClientStep
  BY <1>16, ClientsLeaveDriver DEF driver, list
<1>17. CASE UNCHANGED vars
  BY <1>17 DEF vars, list
<1> QED
  BY <1>1, <1>2, <1>3, <1>4, <1>5, <1>6, <1>7, <1>8, <1>9, <1>10, <1>11, <1>12, <1>13,
     <1>14, <1>15, <1>16, <1>17, <1>18
  DEF Next, DriverStep, spif_pipes_init, spif_dmac_init, FreePipes, ClientStep

(* What is open, enabled and initialised, step by step.                    *)
LEMMA FilesKept == IInv /\ [Next]_vars => FileInv'
<1> SUFFICES ASSUME ListInv, HasInv, FileInv, [Next]_vars, HasInv' PROVE FileInv'
  BY HasKept DEF IInv
<1> USE DEF FileInv, Goto, Holds, WasReset, Freeing
<1>1. CASE Load
  BY <1>1 DEF Load, Acquire, list, files
<1>2. CASE spif_apbr_init \/ spif_rsvd_init \/ CreateClass
  BY <1>2 DEF spif_apbr_init, spif_rsvd_init, CreateClass, Acquire, Fail, list, files
<1>3. CASE AllocRegion
  BY <1>3, ProbeAssumption DEF AllocRegion, Fail, list, files, ListInv, NoPipe, PipeIds, Unlisted
<1>4. CASE AllocPipe
  BY <1>4 DEF AllocPipe, Give, Fail, list, files, ListInv, HasInv
<1>5. CASE AllPipes
  BY <1>5, ProbeAssumption DEF AllPipes, list, ListInv, Building, PipeIds, NoPipe
<1>6. CASE FindDmac \/ RequestIrq
  BY <1>6 DEF FindDmac, RequestIrq, Give, Fail, list, files, ListInv, HasInv
<1>7. CASE MapRegs
  BY <1>7 DEF MapRegs, MapFails, Give, Fail, list, files, ListInv, HasInv
<1>8. CASE ResetDmac
  BY <1>8 DEF ResetDmac, list, HasInv, CdevSteps, ListInv, AtHand, Building, PipeIds
<1>9. CASE InitPipe
  BY <1>9 DEF InitPipe, list, files, ListInv, AtHand, Building
<1>10. CASE CreateDevice \/ AddCdev
  BY <1>10 DEF CreateDevice, AddCdev, Give, Fail, list, files, ListInv, HasInv
<1>11. CASE LinkPipe
  BY <1>11, ProbeAssumption DEF LinkPipe, files, ListInv, Building, AtHand, PipeIds, NoPipe
<1>12. CASE FreeNext
  BY <1>12, ProbeAssumption DEF FreeNext, files, ListInv, PipeIds, NoPipe
<1>13. CASE NoneLeft \/ FreeIrq
  BY <1>13 DEF NoneLeft, FreeIrq, Take, Fail, list, files
<1>14. CASE \/ Free("cdev", "deleteCdev", "destroyDevice")
           \/ Free("device", "destroyDevice", "unmap")
           \/ Free("regs", "unmap", "freeIrq")
  BY <1>14 DEF Free, Take, list, files
<1>15. CASE FreePipe
  BY <1>15 DEF FreePipe, Take, list, files, ListInv, AtHand
<1>16. CASE FreeDriver
  BY <1>16 DEF FreeDriver, FreeShared, list, files
<1>17. CASE Remove
  BY <1>17 DEF Remove, Unused, Fail, list, files
<1>18. CASE \E i \in PipeIds : spif_open(i)
  BY <1>18 DEF spif_open, list
<1>19. CASE \E i \in PipeIds : spif_release(i)
  <2>1. PICK i \in PipeIds : spif_release(i)
    BY <1>19
  <2>2. /\ UNCHANGED <<pc, has, list, ready, early, wedged>>
        /\ open' = open \ {i}
    BY <2>1 DEF spif_release
  <2>3. CASE "data" \in has[i]
    <3>1. irq_en' = irq_en \ {i} /\ dev_open' = dev_open \ {i}
      BY <2>1, <2>3 DEF spif_release, StopChannels
    <3> QED BY <2>2, <3>1 DEF list
  <2>4. CASE "data" \notin has[i]
    <3>1. irq_en' \in {irq_en, irq_en \ {i}} /\ UNCHANGED dev_open /\ i \in open
      BY <2>1, <2>4 DEF spif_release
    <3>2. pc # "live" /\ ~ WasReset(i)
      BY <2>4, ProbeAssumption DEF HasInv, ListInv, AtHand, Building, PipeIds
    <3> QED BY <2>2, <3>1, <3>2 DEF list
  <2> QED BY <2>3, <2>4
<1>20. CASE \E i \in PipeIds : ReleaseInterrupted(i)
  BY <1>20 DEF ReleaseInterrupted, list
<1>21. CASE UNCHANGED vars
  BY <1>21 DEF vars, list, files
<1> QED
  BY <1>1, <1>2, <1>3, <1>4, <1>5, <1>6, <1>7, <1>8, <1>9, <1>10, <1>11, <1>12, <1>13,
     <1>14, <1>15, <1>16, <1>17, <1>18, <1>19, <1>20, <1>21
  DEF Next, DriverStep, spif_pipes_init, spif_dmac_init, spif_cdev_init, FreePipes

LEMMA InitEstablishes == Init => IInv
<1> SUFFICES ASSUME Init PROVE IInv
  OBVIOUS
<1> USE ProbeAssumption DEF Init, PipeIds, NoPipe
<1>1. ListInv
  BY DEF ListInv, Building, AtHand, Unlisted
<1>2. HasInv
  BY DEF HasInv, Holds, CdevSteps, DeviceSteps, RegsSteps, IrqSteps, AtHand, Building
<1>3. CoreInv
  BY DEF CoreInv, Unlisted
<1>4. FileInv
  BY DEF FileInv, Holds, WasReset, Freeing
<1> QED BY <1>1, <1>2, <1>3, <1>4 DEF IInv

LEMMA Always == Spec => []IInv
<1>1. IInv /\ [Next]_vars => IInv'
  BY ListKept, HasKept, CoreKept, FilesKept DEF IInv
<1> QED BY InitEstablishes, <1>1, PTL DEF Spec

---------------------------------------------------------------------------
(* Every exit of a probe that fails, and remove, leave nothing acquired    *)
(* but references of device tree nodes (OnlyNodesLeak).                    *)
THEOREM OnlyNodesAreLeaked == Spec => []OnlyNodesLeak
<1>1. IInv => OnlyNodesLeak
  <2> SUFFICES ASSUME IInv, pc = "off"
               PROVE  core \subseteq Nodes /\ \A i \in PipeIds : has[i] \subseteq Nodes
    BY DEF OnlyNodesLeak
  <2>1. core \subseteq Nodes
    BY DEF IInv, CoreInv, Shared, Unlisted, Nodes
  <2>2. ASSUME NEW i \in PipeIds PROVE has[i] \subseteq Nodes
    <3>1. ~ (i <= next_pipe)
      BY DEF IInv, ListInv, Unlisted, PipeIds, NoPipe
    <3>2. has[i] \subseteq PerPipe /\ \A r \in PerPipe \ {"dmaNode"} : r \notin has[i]
      BY <3>1 DEF IInv, HasInv, Holds, CdevSteps, DeviceSteps, RegsSteps, IrqSteps, AtHand,
                  Building, PerPipe
    <3> QED BY <3>2 DEF Nodes
  <2> QED BY <2>1, <2>2
<1> QED BY Always, <1>1, PTL

(* What an error exit frees is held, and the data of a pipe are the last   *)
(* of what it holds (FreedIsHeld); a device that was not created is not    *)
(* missed.                                                                 *)
THEOREM OnlyHeldIsFreed == Spec => []FreedIsHeld
<1>1. IInv => FreedIsHeld
  <2> SUFFICES ASSUME IInv PROVE FreedIsHeld
    OBVIOUS
  <2> USE DEF IInv, HasInv, Holds, CdevSteps, DeviceSteps, RegsSteps, IrqSteps, AtHand, Building
  <2>1. pc \in {"deleteCdev", "destroyDevice", "unmap", "freeIrq", "freePipe"}
          => pipe \in PipeIds /\ ~ (pipe <= next_pipe)
    BY DEF ListInv, PipeIds, NoPipe
  <2>2. /\ pc = "deleteCdev" => "cdev" \in has[pipe]
        /\ pc = "unmap" => "regs" \in has[pipe]
        /\ pc = "freeIrq" => (dma_irq[pipe] => "irq" \in has[pipe])
    BY <2>1
  <2>3. ASSUME pc = "freePipe" PROVE has[pipe] \ Nodes = {"data"}
    <3>1. /\ has[pipe] \subseteq PerPipe /\ "data" \in has[pipe]
          /\ \A r \in PerPipe \ {"data", "dmaNode"} : r \notin has[pipe]
      BY <2>1, <2>3 DEF PerPipe
    <3> QED BY <3>1 DEF Nodes
  <2>4. /\ pc = "unregister"   => core \ Nodes = {"drv", "apbr", "class", "region"}
        /\ pc = "destroyClass" => core \ Nodes = {"drv", "apbr", "class"}
        /\ pc = "unmapApbr"    => core \ Nodes = {"drv", "apbr"}
        /\ pc = "freeDrv"      => core \ Nodes = {"drv"}
    BY DEF CoreInv, Shared, Unlisted, Nodes
  <2> QED BY <2>2, <2>3, <2>4 DEF FreedIsHeld
<1> QED BY Always, <1>1, PTL

(* A file of a complete driver has its pipe, the registers, and the        *)
(* interrupt of an output (OpenFilesHaveTheirPipe).                        *)
THEOREM OpenFilesAreServed == Spec => []OpenFilesHaveTheirPipe
<1>1. IInv => OpenFilesHaveTheirPipe
  <2> SUFFICES ASSUME IInv, NEW i \in open \ early
               PROVE  {"data", "regs", "cdev"} \subseteq has[i] /\ (dma_irq[i] => "irq" \in has[i])
    BY DEF OpenFilesHaveTheirPipe
  <2>1. i \in PipeIds /\ pc = "live"
    BY DEF IInv, FileInv
  <2>2. i <= next_pipe
    BY <2>1, ProbeAssumption DEF IInv, ListInv, PipeIds
  <2> QED BY <2>1, <2>2 DEF IInv, HasInv, Holds
<1> QED BY Always, <1>1, PTL

(* The interrupt handler finds registers and wait queue when the           *)
(* controller interrupts, unless the file that started it was opened       *)
(* before the probe had ended, or its release was interrupted              *)
(* (HandlerFindsItsPipe).                                                  *)
THEOREM HandlerIsSafe == Spec => []HandlerFindsItsPipe
<1>1. IInv => HandlerFindsItsPipe
  <2> SUFFICES ASSUME IInv, NEW i \in irq_en \ (early \cup wedged), "irq" \in has[i]
               PROVE  "regs" \in has[i] /\ i \in ready
    BY DEF HandlerFindsItsPipe
  <2>1. i \in PipeIds /\ pc = "live"
    BY DEF IInv, FileInv
  <2>2. i <= next_pipe
    BY <2>1, ProbeAssumption DEF IInv, ListInv, PipeIds
  <2>3. IsOutp(i)
    BY <2>1 DEF IInv, HasInv
  <2> QED BY <2>1, <2>2, <2>3 DEF IInv, HasInv, FileInv, Holds
<1> QED BY Always, <1>1, PTL

---------------------------------------------------------------------------
(* The windows.  Pipe i has the one that starts i windows into the memory. *)
Start(n) == n * (2 * PmemSize)

LEMMA Quotient ==
    ASSUME NEW m \in Nat, NEW n \in Nat, n > 0
    PROVE  m \div n \in Nat /\ n * (m \div n) <= m
<1>1. m \div n \in Int
  BY SMT
<1>2. n * (m \div n) <= m
  BY SMT
<1>3. m \div n >= 0
  BY SMT
<1> QED BY <1>1, <1>2, <1>3, SMT

LEMMA PmemSizeFits == PmemSize \in Nat /\ Start(Pipes) <= RsvdSize
<1>1. 2 * Pipes \in Nat /\ 2 * Pipes > 0 /\ RsvdSize \in Nat
  BY ProbeAssumption
<1>2. PmemSize \in Nat /\ (2 * Pipes) * PmemSize <= RsvdSize
  BY <1>1, Quotient DEF PmemSize
<1>3. Pipes * (2 * PmemSize) = (2 * Pipes) * PmemSize
  BY <1>2, ProbeAssumption, SMT
<1> QED BY <1>2, <1>3 DEF Start

LEMMA StartsApart ==
    ASSUME NEW i \in Nat, NEW j \in Nat, i < j
    PROVE  Start(i) \in Nat /\ Start(i) + 2 * PmemSize = Start(i + 1) /\ Start(i + 1) <= Start(j)
<1> DEFINE w == 2 * PmemSize
<1>1. w \in Nat
  BY PmemSizeFits
<1> HIDE DEF w
<1>2. i * w \in Nat /\ i * w + w = (i + 1) * w
  BY <1>1, SMT
<1>3. j * w = (i + 1) * w + (j - i - 1) * w /\ (j - i - 1) * w >= 0
  BY <1>1, SMT
<1>4. (i + 1) * w \in Nat /\ (j - i - 1) * w \in Int /\ j * w \in Nat
  BY <1>1, SMT
<1>5. (i + 1) * w <= j * w
  BY <1>3, <1>4, SMT
<1> QED BY <1>2, <1>5 DEF Start, w

WindowInv ==
    /\ window \in [PipeIds -> Nat] /\ pmem_pa \in Nat
    /\ pc \in Building => pmem_pa = Start(pipe)
    /\ \A i \in PipeIds : Holds(i, DeviceSteps \cup {"device"}) => window[i] = Start(i)

LEMMA InitWindows == Init => WindowInv
<1> SUFFICES ASSUME Init PROVE WindowInv
  OBVIOUS
<1>1. window \in [PipeIds -> Nat] /\ pmem_pa \in Nat
  BY DEF Init
<1>2. pc \notin Building /\ ~ (pc \in DeviceSteps \cup {"device"}) /\ next_pipe = -1
  BY DEF Init, Building, DeviceSteps, CdevSteps, NoPipe
<1> QED BY <1>1, <1>2, ProbeAssumption DEF WindowInv, Holds, PipeIds

LEMMA WindowsKept == IInv /\ WindowInv /\ [Next]_vars => WindowInv'
<1> SUFFICES ASSUME ListInv, WindowInv, [Next]_vars, ListInv' PROVE WindowInv'
  BY ListKept DEF IInv
<1> USE DEF WindowInv, Holds, DeviceSteps, CdevSteps, Building, Goto
<1>1. CASE Load \/ spif_apbr_init \/ spif_rsvd_init \/ CreateClass
  BY <1>1 DEF Load, spif_apbr_init, spif_rsvd_init, CreateClass, Acquire, Fail, list, memory
<1>2. CASE AllocRegion
  <2>1. CASE Fail("region", "destroyClass")
    BY <2>1 DEF Fail, list, memory
  <2>2. CASE pc' = "pipe" /\ pipe' = 0 /\ next_pipe' = NoPipe /\ pmem_pa' = 0 /\ UNCHANGED window
    <3>1. Start(0) = 0
      BY PmemSizeFits DEF Start
    <3> QED BY <2>2, <3>1, ProbeAssumption DEF PipeIds, NoPipe
  <2> QED BY <1>2, <2>1, <2>2 DEF AllocRegion
<1>3. CASE AllocPipe \/ AllPipes \/ spif_dmac_init
  BY <1>3 DEF AllocPipe, AllPipes, spif_dmac_init, FindDmac, RequestIrq, MapRegs, MapFails, ResetDmac,
              Fail, list, memory
<1>4. CASE InitPipe
  <2>1. /\ pc = "queue" /\ pc' = "device" /\ UNCHANGED <<list, pmem_pa>>
        /\ window' = [window EXCEPT ![pipe] = pmem_pa]
    BY <1>4 DEF InitPipe
  <2>2. pipe \in PipeIds /\ pipe > next_pipe /\ pmem_pa = Start(pipe)
    BY <2>1 DEF ListInv, AtHand
  <2>3. Start(pipe) \in Nat
    BY <2>2, StartsApart, ProbeAssumption DEF PipeIds
  <2> QED BY <2>1, <2>2, <2>3 DEF list
<1>5. CASE spif_cdev_init
  BY <1>5 DEF spif_cdev_init, CreateDevice, AddCdev, Fail, list, memory
<1>6. CASE LinkPipe
  <2>1. /\ pc = "link" /\ pc' = "pipe" /\ UNCHANGED window
        /\ next_pipe' = pipe /\ pipe' = pipe + 1
        /\ pmem_pa' = pmem_pa + 2 * PmemSize
    BY <1>6 DEF LinkPipe, NextWindow
  <2>2. pipe \in PipeIds /\ pipe \in Nat /\ next_pipe = pipe - 1
    BY <2>1, ProbeAssumption DEF ListInv, AtHand, PipeIds
  <2>3. pmem_pa + 2 * PmemSize = Start(pipe + 1) /\ pmem_pa + 2 * PmemSize \in Nat
    BY <2>1, <2>2, StartsApart, PmemSizeFits
  <2> QED BY <2>1, <2>2, <2>3 DEF PipeIds
<1>7. CASE FreeNext
  <2>1. /\ pc' = "deleteCdev" /\ pipe' = next_pipe /\ next_pipe' = next_pipe - 1
        /\ UNCHANGED <<window, pmem_pa>> /\ next_pipe \in Int
    BY <1>7, ProbeAssumption DEF FreeNext, ListInv, PipeIds, NoPipe, memory
  <2> QED BY <2>1 DEF PipeIds
<1>8. CASE FreePipes /\ ~ FreeNext
  BY <1>8 DEF FreePipes, NoneLeft, Free, FreeIrq, FreePipe, Fail, list, memory
<1>9. CASE FreeDriver
  BY <1>9 DEF FreeDriver, FreeShared, list, memory
<1>10. CASE Remove
  BY <1>10 DEF Remove, Fail, list, memory
<1>11. CASE ClientStep
  BY <1>11, ClientsLeaveDriver DEF driver, list, memory
<1>12. CASE UNCHANGED vars
  BY <1>12 DEF vars, list, memory
<1> QED
  BY <1>1, <1>2, <1>3, <1>4, <1>5, <1>6, <1>7, <1>8, <1>9, <1>10, <1>11, <1>12
  DEF Next, DriverStep, spif_pipes_init, ClientStep

LEMMA AlwaysWindowed == Spec => []WindowInv
  BY InitWindows, WindowsKept, Always, PTL DEF Spec

(* The windows of the pipes are apart and within the memory, whatever its  *)
(* size: the division may leave some of it unused (WindowsApart).          *)
THEOREM WindowsStayApart == Spec => []WindowsApart
<1>1. WindowInv /\ IInv => WindowsApart
  <2> SUFFICES ASSUME WindowInv, IInv, NEW i \in PipeIds, "cdev" \in has[i]
               PROVE  /\ window[i] + 2 * PmemSize <= RsvdSize
                      /\ \A j \in PipeIds \ {i} : "cdev" \in has[j] =>
                            \/ window[i] + 2 * PmemSize <= window[j]
                            \/ window[j] + 2 * PmemSize <= window[i]
    BY DEF WindowsApart
  <2>1. ASSUME NEW j \in PipeIds, "cdev" \in has[j] PROVE j \in Nat /\ window[j] = Start(j)
    BY <2>1, ProbeAssumption DEF WindowInv, IInv, HasInv, Holds, DeviceSteps, CdevSteps, PipeIds
  <2>2. window[i] + 2 * PmemSize <= RsvdSize
    <3>1. i \in Nat /\ Pipes \in Nat /\ i < Pipes /\ window[i] = Start(i)
      BY <2>1, ProbeAssumption DEF PipeIds
    <3>2. Start(i) + 2 * PmemSize <= Start(Pipes) /\ Start(i) \in Nat
      BY <3>1, StartsApart
    <3>3. Start(Pipes) \in Nat /\ RsvdSize \in Nat
      BY <3>1, PmemSizeFits, ProbeAssumption DEF Start
    <3> QED BY <3>1, <3>2, <3>3, PmemSizeFits
  <2>3. ASSUME NEW j \in PipeIds \ {i}, "cdev" \in has[j]
        PROVE  \/ window[i] + 2 * PmemSize <= window[j]
               \/ window[j] + 2 * PmemSize <= window[i]
    <3>1. i \in Nat /\ j \in Nat /\ window[i] = Start(i) /\ window[j] = Start(j)
      BY <2>1, <2>3
    <3>2. CASE i < j
      BY <3>1, <3>2, StartsApart
    <3>3. CASE j < i
      BY <3>1, <3>3, StartsApart
    <3> QED BY <3>1, <3>2, <3>3
  <2> QED BY <2>2, <2>3
<1> QED BY Always, AlwaysWindowed, <1>1, PTL

(* Type correctness; the list never names a pipe that does not exist       *)
(* (TypeOK).                                                               *)
THEOREM TypeCorrect == Spec => []TypeOK
<1>1. IInv /\ WindowInv => TypeOK
  BY ProbeAssumption
  DEF IInv, WindowInv, ListInv, HasInv, CoreInv, FileInv, TypeOK, PipeIds, NoPipe
<1> QED BY Always, AlwaysWindowed, <1>1, PTL

=============================================================================
