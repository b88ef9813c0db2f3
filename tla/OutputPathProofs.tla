--------------------------- MODULE OutputPathProofs ---------------------------
(***************************************************************************)
(* Proofs about the output of the daemon, for any clients, requests and    *)
(* lengths of the socket's queue, with datagrams lost, repeated and        *)
(* reordered, and with a shutdown at any time.                             *)
(***************************************************************************)
EXTENDS OutputPath, TLAPS

LEMMA LastNamed == ASSUME TypeOK PROVE last.from \in Clients \cup {NoClient}
  BY DEF TypeOK, Datagram, NoDatagram

LEMMA TypesKept == ASSUME TypeOK, [Next]_vars PROVE TypeOK'
<1> USE OutputAssumption DEF TypeOK
<1>1. CASE Arrive
  <2>1. PICK d \in Datagram : queue' = Append(queue, d)
    BY <1>1 DEF Arrive
  <2>2. queue' \in Seq(Datagram) /\ Len(queue') <= QueueLen
    BY <1>1, <2>1 DEF Arrive
  <2> QED
    BY <1>1, <2>2 DEF Arrive, output, shared
<1>2. CASE Receive
  <2>1. Head(queue) \in Datagram /\ queue' \in Seq(Datagram) /\ Len(queue') <= QueueLen
    BY <1>2 DEF Receive
  <2>2. Head(queue).cmds \in Seq(Commands) /\ Head(queue).from \in Clients
    BY <2>1 DEF Datagram
  <2> QED
    BY <1>2, <2>1, <2>2, LastNamed DEF Receive, Written, output
<1>3. CASE ReceiveRest
  <2> QED
    BY <1>3, LastNamed DEF ReceiveRest, Written, output
<1>4. CASE RunCommand
  <2>1. last.from \in Clients \cup {NoClient}
    BY DEF Datagram, NoDatagram
  <2>2. cmds' \in Seq(Commands)
    BY <1>4 DEF RunCommand, More
  <2>3. out_start' \in BOOLEAN
    BY <1>4 DEF RunCommand
  <2>4. late' \in 0 .. MaxLate
    BY <1>4 DEF RunCommand, MaxLate
  <2> QED
    BY <1>4, <2>1, <2>2, <2>3, <2>4 DEF RunCommand, output
<1>5. CASE Flush \/ AllRun \/ CmdEnds
  BY <1>5 DEF Flush, AllRun, CmdEnds, output, shared
<1>6. CASE spiNNaker_listener
  <2> USE DEF spiNNaker_listener, Frame, TimeOut, Test, Check, Send, SendRest, OutStep
  <2>1. UNCHANGED <<main, cancelled, cmd_pc, cmds, queue, last, prev, client_addr,
                    out_start, regs>>
    BY <1>6 DEF command, shared
  <2>2. out_pc' \in {"none", "wait", "test", "check", "send", "sendRest", "ended"}
    BY <1>6 DEF TestCancel, CheckStart
  <2>3. port' \in Clients \cup {NoClient} /\ recent' \subseteq Clients \cup {NoClient}
    <3>1. Named \subseteq Clients \cup {NoClient}
      BY LastNamed DEF Named
    <3> QED
      BY <1>6, <3>1
  <2>4. late' \in 0 .. MaxLate
    BY <1>6 DEF MaxLate
  <2> QED
    BY <2>1, <2>2, <2>3, <2>4
<1>7. CASE spiNNaker_init \/ Stop \/ spiffer_stop \/ UNCHANGED vars
  <2> USE DEF spiNNaker_init, Stop, spiffer_stop, CancelOut, CancelCmd, JoinOut, JoinCmd,
              MainStep, vars
  <2>1. UNCHANGED <<cmd_pc, cmds, queue, last, prev, port, client_addr, out_start,
                    regs, recent, late>>
    BY <1>7 DEF command, shared, output
  <2>2. main' \in {"init", "live", "cancelOut", "joinOut", "cancelCmd", "joinCmd", "closed"}
    BY <1>7
  <2>3. cancelled' \subseteq {"cmd", "out"}
    BY <1>7
  <2>4. out_pc' \in {"none", "wait", "test", "check", "send", "sendRest", "ended"}
    BY <1>7 DEF output
  <2> QED
    BY <2>1, <2>2, <2>3, <2>4
<1> QED
  BY <1>1, <1>2, <1>3, <1>4, <1>5, <1>6, <1>7 DEF Next, out_udp_listener

(* Every variable keeps its type: whatever datagrams arrive, the address   *)
(* and the registers name clients (spiffer.cpp).                           *)
THEOREM TypeCorrect == Spec => []TypeOK
<1>1. ASSUME Init PROVE TypeOK
  <2>1. queue = <<>> /\ cmds = <<>>
    BY <1>1 DEF Init
  <2>2. queue \in Seq(Datagram) /\ Len(queue) <= QueueLen /\ cmds \in Seq(Commands)
    BY <2>1, OutputAssumption
  <2>3. late \in 0 .. MaxLate
    BY <1>1 DEF Init, MaxLate
  <2>4. out_start \in BOOLEAN
    BY <1>1 DEF Init, NotStarted
  <2>5. last \in Datagram \cup {NoDatagram}
    BY <1>1 DEF Init
  <2>6. client_addr \in [{"port", "host"} -> Clients \cup {NoClient}]
    <3>1. client_addr = [p \in {"port", "host"} |-> NoClient]
      BY <1>1 DEF Init
    <3> QED
      BY <3>1
  <2>7. regs \in [Settings -> Clients \cup {NoClient}]
    <3>1. regs = [s \in Settings |-> NoClient]
      BY <1>1 DEF Init
    <3> QED
      BY <3>1
  <2> QED
    BY <1>1, <2>2, <2>3, <2>4, <2>5, <2>6, <2>7 DEF Init, TypeOK
<1> QED
  BY <1>1, TypesKept, PTL DEF Spec

---------------------------------------------------------------------------
(* The stop *)

(* Who has passed the check did so before the output was stopped, and      *)
(* nothing has been sent since then.                                       *)
StopInv ==
    /\ late \in {0, 1} /\ out_start \in BOOLEAN
    /\ out_start => late = 0
    /\ Sending => late = 0

LEMMA StopInvKept == ASSUME StopInv, [Next]_vars PROVE StopInv'
<1> USE DEF StopInv, Sending
<1>1. CASE RunCommand
  <2>1. out_start' \in BOOLEAN
    BY <1>1 DEF RunCommand
  <2>2. late' = IF out_start' THEN 0 ELSE late
    BY <1>1 DEF RunCommand
  <2>3. out_pc' = out_pc
    BY <1>1 DEF RunCommand, output
  <2> QED
    BY <2>1, <2>2, <2>3
<1>2. CASE spiNNaker_listener
  BY <1>2 DEF spiNNaker_listener, Frame, TimeOut, Test, Check, Send, SendRest, OutStep,
              TestCancel, CheckStart, shared, MaxLate
<1>3. CASE Receive \/ ReceiveRest \/ Flush \/ AllRun \/ CmdEnds
  BY <1>3 DEF Receive, ReceiveRest, Flush, AllRun, CmdEnds, output, shared
<1>4. CASE Arrive \/ spiNNaker_init \/ Stop \/ spiffer_stop \/ UNCHANGED vars
  BY <1>4 DEF Arrive, spiNNaker_init, Stop, spiffer_stop, CancelOut, CancelCmd, JoinOut,
              JoinCmd, MainStep, shared, output, vars
<1> QED
  BY <1>1, <1>2, <1>3, <1>4 DEF Next, out_udp_listener

(* After a STOP at most one frame leaves, the one whose sender had passed  *)
(* the check of out_start (spiffer.cpp, spiNNaker_listener), wherever the  *)
(* commands fall between its steps.                                        *)
THEOREM OneFrameAfterStop == Spec => []StopIsPrompt
<1>1. Init => StopInv
  BY DEF Init, StopInv, Sending, NotStarted
<1>2. StopInv => StopIsPrompt
  BY DEF StopInv, StopIsPrompt
<1> QED
  BY <1>1, <1>2, StopInvKept, PTL DEF Spec

---------------------------------------------------------------------------
(* The address *)

(* Between datagrams both pieces of the address are those of the client of *)
(* the last one; while they are written, the host is that of the one       *)
(* before.  A command has a client, so has a started output, and a sender  *)
(* that has passed the check takes both pieces from recent clients.        *)
AddrInv ==
    /\ client_addr["port"] = last.from
    /\ client_addr["host"] = IF cmd_pc = "addr" THEN prev ELSE last.from
    /\ cmd_pc \in {"addr", "run", "flush"} => last.from \in Clients
    /\ out_start => {client_addr["port"], client_addr["host"]} \subseteq Clients
    /\ Sending => /\ {client_addr["port"], client_addr["host"]} \subseteq recent
                  /\ recent \subseteq Clients
    /\ out_pc = "sendRest" => port \in recent

LEMMA AddrInvKept == ASSUME TypeOK, AddrInv, [Next]_vars PROVE AddrInv'
<1> USE DEF TypeOK, AddrInv, Sending
<1>1. CASE Arrive
  BY <1>1 DEF Arrive, output, shared
<1>2. CASE Receive
  <2>1. last' \in Datagram
    BY <1>2 DEF Receive
  <2>2. /\ last'.from \in Clients /\ client_addr' = Written("port", last'.from)
        /\ Sending => recent' = recent \cup {last'.from}
    BY <1>2, <2>1 DEF Receive, Datagram
  <2>3. client_addr'["port"] = last'.from /\ client_addr'["host"] = client_addr["host"]
    BY <2>2 DEF Written
  <2>4. client_addr["host"] = last.from
    BY <1>2 DEF Receive
  <2> QED
    BY <1>2, <2>2, <2>3, <2>4 DEF Receive, output
<1>3. CASE ReceiveRest
  <2>1. client_addr'["port"] = last.from /\ client_addr'["host"] = last.from
    BY <1>3, LastNamed DEF ReceiveRest, Written
  <2> QED
    BY <1>3, <2>1 DEF ReceiveRest, output
<1>4. CASE RunCommand \/ Flush \/ AllRun \/ CmdEnds
  <2>1. UNCHANGED <<client_addr, last, prev, recent, out_pc, port>>
    BY <1>4 DEF RunCommand, Flush, AllRun, CmdEnds, output, shared
  <2>2. cmd_pc # "addr" /\ cmd_pc' # "addr"
    BY <1>4 DEF RunCommand, Flush, AllRun, CmdEnds
  <2>3. cmd_pc' \in {"run", "flush"} => last.from \in Clients
    BY <1>4 DEF RunCommand, Flush, AllRun, CmdEnds
  <2>4. out_start' => out_start \/ last.from \in Clients
    BY <1>4 DEF RunCommand, Flush, AllRun, CmdEnds, shared
  <2> QED
    BY <2>1, <2>2, <2>3, <2>4
<1>5. CASE spiNNaker_listener
  BY <1>5 DEF spiNNaker_listener, Frame, TimeOut, Test, Check, Send, SendRest, OutStep,
              TestCancel, CheckStart, Named, shared, command
<1>6. CASE spiNNaker_init \/ Stop \/ spiffer_stop \/ UNCHANGED vars
  BY <1>6 DEF spiNNaker_init, Stop, spiffer_stop, CancelOut, CancelCmd, JoinOut, JoinCmd,
              MainStep, shared, command, output, vars
<1> QED
  BY <1>1, <1>2, <1>3, <1>4, <1>5, <1>6 DEF Next, out_udp_listener

(* The port and the host that a frame is sent to are those of clients, and *)
(* of recent ones, also when datagrams come between the check of out_start *)
(* and the end of sendto: the two threads share the address without a lock *)
(* (SentToRecentClient).                                                   *)
THEOREM FramesGoToRecentClient == Spec => SentToRecentClient
<1>1. Init => AddrInv
  BY DEF Init, AddrInv, Sending, NoDatagram, NotStarted
<1>2. ASSUME AddrInv, [Next]_vars
      PROVE  [out_pc = "sendRest" /\ out_pc' = "wait"
                 => {port, client_addr["host"]} \subseteq recent \cap Clients]_vars
  BY <1>2 DEF AddrInv, Sending
<1> QED
  BY <1>1, <1>2, AddrInvKept, TypeCorrect, PTL DEF Spec, SentToRecentClient

=============================================================================
