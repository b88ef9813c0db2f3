----------------------------- MODULE OutputPath -----------------------------
(***************************************************************************)
(* The output of the daemon (spiffer.cpp), for one output pipe: the thread *)
(* that executes the commands of UDP clients, the thread that sends them   *)
(* the frames of the driver, and the shutdown of both.                     *)
(*                                                                         *)
(* Datagrams may be lost, repeated and reordered: any request of any       *)
(* client may arrive at any time.  GET_OUTP gives a frame or nothing; when *)
(* it gives which is in SpifPipe.  The two threads share the address of    *)
(* the client without a lock: it is copied in two pieces on either side.   *)
(***************************************************************************)
EXTENDS Sequences, Naturals

CONSTANTS
    Clients,
    NoClient,
    Requests,     \* sequences of commands that clients send
    QueueLen      \* datagrams that the socket holds; bound of the model

Settings == {"SET_TICK", "SET_LEN"}
Commands == Settings \cup {"START", "STOP", "unknown"}
Datagram == [from : Clients, cmds : Requests]

ASSUME OutputAssumption ==
    /\ NoClient \notin Clients
    /\ Requests \subseteq Seq(Commands)
    /\ QueueLen \in Nat \ {0}

VARIABLES
    main,        \* where main, or the handler of SIGTERM, is
    cancelled,   \* threads that a cancellation is pending for
    queue,       \* datagrams in out_udp_skt
    cmd_pc,      \* out_udp_listener: its step,
    cmds,        \* dd: the commands that are left
    out_pc,      \* spiNNaker_listener: its step,
    port,        \* the piece of the address that it has read
    client_addr,
    out_start,
    regs,        \* the client that has set each register of the dispatcher
    last,        \* history: the last datagram received,
    prev,        \* the client of the one before, while the address is written,
    recent,      \* clients that the address may name, since the check of out_start,
    late         \* frames sent since the output was stopped

shared   == <<client_addr, out_start, regs>>
command  == <<cmd_pc, cmds, queue, last, prev>>
output   == <<out_pc, port>>
vars     == <<main, cancelled, command, output, shared, recent, late>>

NoDatagram == [from |-> NoClient, cmds |-> <<>>]
MaxLate    == 2

TypeOK ==
    /\ main \in {"init", "live", "cancelOut", "joinOut", "cancelCmd", "joinCmd", "closed"}
    /\ cancelled \subseteq {"cmd", "out"}
    /\ queue \in Seq(Datagram) /\ Len(queue) <= QueueLen
    /\ cmd_pc \in {"wait", "addr", "run", "flush", "ended"}
    /\ cmds \in Seq(Commands)
    /\ out_pc \in {"none", "wait", "test", "check", "send", "sendRest", "ended"}
    /\ port \in Clients \cup {NoClient}
    /\ client_addr \in [{"port", "host"} -> Clients \cup {NoClient}]
    /\ out_start \in BOOLEAN
    /\ regs \in [Settings -> Clients \cup {NoClient}]
    /\ last \in Datagram \cup {NoDatagram}
    /\ prev \in Clients \cup {NoClient} /\ recent \subseteq Clients \cup {NoClient}
    /\ late \in 0 .. MaxLate

(* The sender has passed the check of out_start. *)
Sending == out_pc \in {"send", "sendRest"}

Started    == TRUE
NotStarted == FALSE

Init ==
    /\ main = "init" /\ cancelled = {}
    /\ queue = <<>> /\ cmd_pc = "wait" /\ cmds = <<>>
    /\ out_pc = "none" /\ port = NoClient
    /\ client_addr = [p \in {"port", "host"} |-> NoClient]
    /\ out_start = NotStarted
    /\ regs = [s \in Settings |-> NoClient]
    /\ last = NoDatagram /\ prev = NoClient /\ recent = {} /\ late = 0

---------------------------------------------------------------------------
(* out_udp_listener *)

Arrive ==
    /\ Len(queue) < QueueLen /\ main # "closed"
    /\ \E d \in Datagram : queue' = Append(queue, d)
    /\ UNCHANGED <<main, cancelled, cmd_pc, cmds, last, prev, output, shared, recent, late>>

FirstWritten(piece, from) ==
    IF client_addr[piece] = NoClient THEN [client_addr EXCEPT ![piece] = from] ELSE client_addr
Written(piece, from) == [client_addr EXCEPT ![piece] = from]

Receive ==
    /\ cmd_pc = "wait" /\ queue # <<>> /\ "cmd" \notin cancelled
    /\ queue' = Tail(queue) /\ last' = Head(queue) /\ cmds' = Head(queue).cmds
    /\ client_addr' = Written("port", Head(queue).from)
    /\ cmd_pc' = "addr"
    /\ prev' = last.from
    /\ recent' = IF Sending THEN recent \cup {Head(queue).from} ELSE {}
    /\ UNCHANGED <<main, cancelled, output, out_start, regs, late>>

ReceiveRest ==
    /\ cmd_pc = "addr" /\ cmd_pc' = "run"
    /\ client_addr' = Written("host", last.from)
    /\ prev' = NoClient
    /\ UNCHANGED <<main, cancelled, cmds, queue, last, output, out_start, regs, recent, late>>

More        == Len(cmds) > 0

RunCommand ==
    /\ cmd_pc = "run" /\ More
    /\ cmd_pc' = "flush" /\ cmds' = Tail(cmds)
    /\ out_start' = CASE Head(cmds) = "START" -> TRUE
                      [] Head(cmds) = "STOP" -> FALSE
                      [] OTHER -> out_start
    /\ regs' = [s \in Settings |-> IF s = Head(cmds) THEN last.from ELSE regs[s]]
    /\ late' = IF out_start' THEN 0 ELSE late
    /\ UNCHANGED <<main, cancelled, queue, last, prev, output, client_addr, recent>>

(* The log is written out after each command. *)
Flush ==
    /\ cmd_pc = "flush" /\ "cmd" \notin cancelled
    /\ cmd_pc' = "run"
    /\ UNCHANGED <<main, cancelled, cmds, queue, last, prev, output, shared, recent, late>>

AllRun ==
    /\ cmd_pc = "run" /\ ~ More
    /\ cmd_pc' = "wait"
    /\ UNCHANGED <<main, cancelled, cmds, queue, last, prev, output, shared, recent, late>>

CmdEnds ==
    /\ cmd_pc \in {"wait", "flush"} /\ "cmd" \in cancelled
    /\ cmd_pc' = "ended"
    /\ UNCHANGED <<main, cancelled, cmds, queue, last, prev, output, shared, recent, late>>

out_udp_listener == Receive \/ ReceiveRest \/ RunCommand \/ Flush \/ AllRun \/ CmdEnds

---------------------------------------------------------------------------
(* spiNNaker_listener *)

OutStep(from, to) ==
    /\ out_pc = from /\ out_pc' = to
    /\ UNCHANGED <<main, cancelled, command, shared>>

Frame   == OutStep("wait", "check") /\ UNCHANGED <<port, recent, late>>
TimeOut == OutStep("wait", "test") /\ UNCHANGED <<port, recent, late>>

IgnoreCancel == "wait"
TestCancel   == IF "out" \in cancelled THEN "ended" ELSE "wait"

Test == OutStep("test", TestCancel) /\ UNCHANGED <<port, recent, late>>

CheckNothing == "send"
CheckStart   == IF out_start THEN "send" ELSE "wait"

Named == IF cmd_pc = "addr" THEN {prev, last.from} ELSE {last.from}

Check ==
    /\ OutStep("check", CheckStart)
    /\ recent' = IF Sending' THEN Named ELSE {}
    /\ UNCHANGED <<port, late>>

(* sendto is a cancellation point. *)
Send ==
    \/ /\ "out" \notin cancelled /\ OutStep("send", "sendRest")
       /\ port' = client_addr["port"]
       /\ UNCHANGED <<recent, late>>
    \/ /\ "out" \in cancelled /\ OutStep("send", "ended")
       /\ UNCHANGED <<port, recent, late>>

SendRest ==
    /\ OutStep("sendRest", "wait")
    /\ late' = IF ~ out_start /\ late < MaxLate THEN late + 1 ELSE late
    /\ port' = NoClient
    /\ recent' = {}

spiNNaker_listener == Frame \/ TimeOut \/ Test \/ Check \/ Send \/ SendRest

---------------------------------------------------------------------------
(* main, and its part of spiffer_stop *)

MainStep(from, to) ==
    /\ main = from /\ main' = to
    /\ UNCHANGED <<command, port, shared, recent, late>>

spiNNaker_init ==
    MainStep("init", "live") /\ out_pc' = "wait" /\ UNCHANGED cancelled

Stop == MainStep("live", "cancelOut") /\ UNCHANGED <<cancelled, out_pc>>

CancelOut == MainStep("cancelOut", "joinOut") /\ cancelled' = cancelled \cup {"out"} /\ UNCHANGED out_pc
CancelCmd == MainStep("cancelCmd", "joinCmd") /\ cancelled' = cancelled \cup {"cmd"} /\ UNCHANGED out_pc

OutJoined == out_pc = "ended"

JoinOut == OutJoined /\ MainStep("joinOut", "cancelCmd") /\ UNCHANGED <<cancelled, out_pc>>

(* The socket and the pipe are closed. *)
JoinCmd == cmd_pc = "ended" /\ MainStep("joinCmd", "closed") /\ UNCHANGED <<cancelled, out_pc>>

spiffer_stop == CancelOut \/ JoinOut \/ CancelCmd \/ JoinCmd

---------------------------------------------------------------------------
Next ==
    \/ Arrive \/ out_udp_listener \/ spiNNaker_listener
    \/ spiNNaker_init \/ Stop \/ spiffer_stop

Spec     == Init /\ [][Next]_vars
FairSpec ==
    /\ Spec
    /\ WF_vars(out_udp_listener) /\ WF_vars(spiNNaker_listener)
    /\ WF_vars(spiNNaker_init) /\ WF_vars(spiffer_stop)

---------------------------------------------------------------------------

(* The port and the host that a frame is sent to are each those of a       *)
(* client, and of a recent one: whose datagram was the last at the check   *)
(* of out_start, or came since then, or was the last but one while the     *)
(* address of the last was being written.  The two may be of two clients,  *)
(* since nothing locks the address.                                        *)
SentToRecentClient ==
    [][out_pc = "sendRest" /\ out_pc' = "wait"
          => {port, client_addr["host"]} \subseteq recent \cap Clients]_vars

(* At most one frame follows the STOP that stopped the output.             *)
StopIsPrompt == late <= 1

(* The shutdown ends if the output stays started or GET_OUTP gives nothing *)
(* from time to time.  (While it is stopped and frames keep coming, the    *)
(* sender never comes to a cancellation point.)                            *)
StopEnds ==
    <>[]out_start \/ []<>(out_pc \in {"test", "ended"})
        => (main = "cancelOut" ~> main = "closed")

=============================================================================
