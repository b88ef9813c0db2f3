------------------------------ MODULE Spiffer ------------------------------
(***************************************************************************)
(* The life cycle of the daemon spiffer (spiffer.cpp and the support of    *)
(* the two camera families): start-up, the survey of the USB devices, the  *)
(* listeners that a survey starts and stops, the signals SIGUSR1 (a camera *)
(* has been connected) and SIGTERM, and the disconnection of cameras.      *)
(*                                                                         *)
(* A survey runs in the main thread, in a signal handler on top of it, in  *)
(* the call back of libcaer or in the listener of a Prophesee camera; the  *)
(* lock usb_mtx lets one run at a time.  The steps of a survey are apart,  *)
(* so that threads, signals and cameras may move between them.             *)
(***************************************************************************)
EXTENDS Integers, Sequences, FiniteSets

CONSTANTS
    Cameras,     \* serial numbers
    Kind,        \* the support each camera needs: "CAER" or "META"
    NPipes,      \* pipe_num_in, which is SPIF_HW_PIPES_NUM
    NThreads,    \* bound: thread identifiers
    Echoes,      \* bound: signals that udev sends for one connection
    MaxChanges,  \* bound: connections and disconnections
    Upsets       \* what may disturb the daemon: a subset of Disturbance

Disturbance ==
    {"term",       \* SIGTERM
     "elsewhere"}  \* a library thread takes a SIGUSR1 that the main thread blocks

ASSUME SpifferAssumption ==
    /\ Cameras \subseteq Nat /\ IsFiniteSet(Cameras)
    /\ Kind \in [Cameras -> {"CAER", "META"}]
    /\ NPipes \in Nat \ {0}
    /\ NThreads \in Nat
    /\ Echoes \in Nat \ {0}
    /\ MaxChanges \in Nat
    /\ Upsets \subseteq Disturbance

Pipes    == 0 .. NPipes - 1
Threads  == 1 .. NThreads
Nobody   == 0            \* a thread handle that was never written
NoDevice == -1           \* SPIFFER_USB_NO_DEVICE
StartUpNoDevice == NoDevice
StartUp  == NPipes       \* SPIFFER_USB_DISCOVER_CNT: there is nothing to shut down

VARIABLES
    process,     \* "running", "killed", "crashed" or "stopped"
    main,        \* where the main thread is, under the handlers
    handlers,    \* signal handlers on the main thread, the running one first
    taken,       \* signal_usr1_taken
    pending,     \* a SIGUSR1 waits for delivery
    owed,        \* signals that udev has yet to send
    plugged,     \* cameras on the bus
    changes,     \* connections and disconnections so far
    cnt,         \* usb_devs.cnt
    params,      \* usb_devs.params: from device index to [cam, pipe, hdl]
    listener,    \* from pipe to thread handle
    thread,      \* the threads behind the handles
    usb_mtx,     \* who surveys: "free", "main", "usr1", "camera" or "listener"
    job,         \* where the survey and the stop are: [step, pipe, target, discon]
    overlooked   \* history: a change since the last discovery went unnoticed

signals == <<handlers, taken, pending, owed>>
bus     == <<plugged, changes>>
usb_devs == <<cnt, params>>
vars    == <<process, main, signals, bus, usb_devs, listener, thread,
             usb_mtx, job, overlooked>>

Gone == [st |-> "gone", kind |-> "none", pipe |-> 0, dev |-> 0, cam |-> 0,
         broken |-> FALSE, cancelled |-> FALSE]
JobFrom(step, dev) == [step |-> step, pipe |-> 0, target |-> Nobody, discon |-> dev]
NoJob == JobFrom("none", NoDevice)

Steps == {"none", "cancel", "join", "wait", "devices", "discover", "start", "unlock",
          "outputs", "exit"}

Thread == [st : {"new", "listening", "failed", "surveying", "surveyed", "paused", "gone"},
           kind : {"none", "UDP", "CAER", "META"}, pipe : Nat, dev : Pipes,
           cam : Cameras \cup {0}, broken : BOOLEAN, cancelled : BOOLEAN]
Param  == [cam : Cameras \cup {0}, pipe : Nat, hdl : {"open", "broken", "none"}]
Job    == {r \in [step : Steps, pipe : Nat, target : Threads \cup {Nobody}, discon : Int] :
              r.step \in {"cancel", "join", "wait"} => r.pipe \in Pipes}

DaemonOK ==
    /\ process \in {"running", "killed", "crashed", "stopped"}
    /\ main \in {"init", "sleeping", "checked", "pause"}
    /\ handlers \in Seq({"usr1", "term"})
    /\ taken \in BOOLEAN /\ pending \in BOOLEAN /\ owed \in Nat
    /\ changes \in Nat
    /\ usb_mtx \in {"free", "main", "usr1", "camera", "listener"}
    /\ overlooked \in BOOLEAN

TableOK ==
    /\ plugged \subseteq Cameras
    /\ cnt \in 0 .. NPipes /\ params \in [Pipes -> Param]
    /\ \A d \in 0 .. cnt - 1 : params[d].cam \in Cameras

ThreadsOK ==
    /\ listener \in [Pipes -> Threads \cup {Nobody}]
    /\ thread \in [Threads -> Thread]
    /\ job \in [{"survey", "stop"} -> Job]

TypeOK == DaemonOK /\ TableOK /\ ThreadsOK

Init ==
    /\ process = "running" /\ main = "init"
    /\ handlers = <<>> /\ taken = FALSE /\ pending = FALSE /\ owed = 0
    /\ plugged \in SUBSET Cameras /\ changes = 0
    /\ cnt = 0 /\ params = [d \in Pipes |-> [cam |-> 0, pipe |-> 0, hdl |-> "none"]]
    /\ listener = [p \in Pipes |-> Nobody]
    /\ thread = [t \in Threads |-> Gone]
    /\ usb_mtx = "free" /\ job = [survey |-> NoJob, stop |-> NoJob]
    /\ overlooked = FALSE

---------------------------------------------------------------------------
(* Who may run, and the lock *)

Devs    == 0 .. cnt - 1
Running == process = "running"
Top     == IF handlers = <<>> THEN "main" ELSE Head(handlers)

(* A handler suspends what it interrupts; other threads go on.             *)
Scheduled(j) ==
    /\ Running
    /\ IF j = "stop" THEN Top = "term" ELSE usb_mtx \in {Top, "camera", "listener"}

Crash == process' = "crashed"

LockKeepingListeners(who, dev) ==
    /\ usb_mtx = "free"
    /\ usb_mtx' = who
    /\ job' = [job EXCEPT !.survey = JobFrom("discover", dev)]
    /\ UNCHANGED overlooked

(* pthread_mutex_trylock and, from then on, the survey.                    *)
Lock(who, dev) ==
    /\ usb_mtx = "free"
    /\ usb_mtx' = who
    /\ job' = [job EXCEPT !.survey =
                  JobFrom(IF dev < NPipes THEN "cancel" ELSE "discover", dev)]
    /\ UNCHANGED overlooked

(* Somebody surveys already: "leave without doing anything".               *)
Leave ==
    /\ usb_mtx # "free"
    /\ overlooked' = TRUE
    /\ UNCHANGED <<usb_mtx, job>>

---------------------------------------------------------------------------
(* spiffer_input_shutdown, called by a survey and by spiffer_stop *)

Advance(j, step) == job' = [job EXCEPT ![j].step = step]

(* The listener of a disconnected Prophesee camera is left to itself.      *)
LeftAlone(j) ==
    /\ job[j].discon # NoDevice
    /\ params[job[j].discon].pipe = job[j].pipe
    /\ Kind[params[job[j].discon].cam] = "META"

NextPipe(j) ==
    job' = [job EXCEPT ![j].pipe = @ + 1, ![j].target = Nobody,
                       ![j].step = IF job[j].pipe + 1 = NPipes THEN "devices" ELSE "cancel"]

SkipListener(j) ==
    /\ job[j].step = "cancel" /\ LeftAlone(j)
    /\ NextPipe(j)
    /\ UNCHANGED <<process, main, signals, bus, usb_devs, listener, thread, usb_mtx, overlooked>>

CancelListenerForgotten(j) ==
    /\ job[j].step = "cancel" /\ ~ LeftAlone(j)
    /\ IF listener[job[j].pipe] = Nobody THEN Crash /\ UNCHANGED job
       ELSE Advance(j, "join") /\ UNCHANGED process
    /\ UNCHANGED <<main, signals, bus, usb_devs, listener, thread, usb_mtx, overlooked>>

(* Cancelling a thread that was never created dereferences a null handle.  *)
CancelListener(j) ==
    /\ job[j].step = "cancel" /\ ~ LeftAlone(j)
    /\ LET t == listener[job[j].pipe] IN
       IF t = Nobody
       THEN Crash /\ UNCHANGED <<job, thread>>
       ELSE /\ Advance(j, "join")
            /\ thread' = IF thread[t].st = "gone" THEN thread
                         ELSE [thread EXCEPT ![t].cancelled = TRUE]
            /\ UNCHANGED process
    /\ UNCHANGED <<main, signals, bus, usb_devs, listener, usb_mtx, overlooked>>

(* The handle is read again: a survey may have written it in between.      *)
JoinListener(j) ==
    /\ job[j].step = "join"
    /\ job' = [job EXCEPT ![j].step = "wait", ![j].target = listener[job[j].pipe]]
    /\ UNCHANGED <<process, main, signals, bus, usb_devs, listener, thread, usb_mtx, overlooked>>

(* A thread that somebody has joined already is not waited for.            *)
Joined(j) ==
    /\ job[j].step = "wait" /\ thread[job[j].target].st = "gone"
    /\ NextPipe(j)
    /\ UNCHANGED <<process, main, signals, bus, usb_devs, listener, thread, usb_mtx, overlooked>>

ShutdownDevs(j) ==
    /\ job[j].step = "devices"
    /\ params' = [d \in Pipes |-> IF d \in Devs \ {job[j].discon}
                                   THEN [params[d] EXCEPT !.hdl = "none"] ELSE params[d]]
    /\ Advance(j, IF j = "stop" THEN "outputs" ELSE "discover")
    /\ UNCHANGED <<process, main, signals, bus, cnt, listener, thread, usb_mtx, overlooked>>

spiffer_input_shutdown(j) ==
    /\ Scheduled(j)
    /\ \/ SkipListener(j) \/ CancelListener(j)
       \/ JoinListener(j) \/ Joined(j)
       \/ ShutdownDevs(j)

---------------------------------------------------------------------------
(* The rest of usb_survey_devs *)

OfKind(k) == {c \in plugged : Kind[c] = k}

(* Prophesee cameras are looked for first; cameras are not mixed.          *)
Discoverable == IF OfKind("META") # {} THEN OfKind("META") ELSE OfKind("CAER")

(* The libraries list cameras in any order, and no more than there are pipes. *)
Found(n) == {f \in [0 .. n - 1 -> Discoverable] :
                \A d, e \in 0 .. n - 1 : f[d] = f[e] => d = e}

FoundCount == IF Cardinality(Discoverable) < NPipes
              THEN Cardinality(Discoverable) ELSE NPipes

PipeUnsorted(f, d) == d

(* usb_sort_pipes: the position of a camera in the order of serial numbers. *)
PipeOf(f, d) == Cardinality({e \in DOMAIN f : f[e] < f[d]})

usb_discover_devs ==
    /\ job.survey.step = "discover"
    /\ \E f \in Found(FoundCount) :
          params' = [d \in Pipes |->
                        IF d \in DOMAIN f
                        THEN [cam |-> f[d], pipe |-> PipeOf(f, d), hdl |-> "open"]
                        ELSE params[d]]
    /\ cnt' = FoundCount
    /\ Advance("survey", "start")
    /\ overlooked' = FALSE
    /\ UNCHANGED <<process, main, signals, bus, listener, thread, usb_mtx>>

Unused == {t \in Threads :
              /\ thread[t].st = "gone"
              /\ \A p \in Pipes : listener[p] # t
              /\ job.stop.target # t}

Handles == {f \in [Pipes -> Unused] : \A p, q \in Pipes : f[p] = f[q] => p = q}

DevsOn(p) == {d \in Devs : params[d].pipe = p}

NewListener(p, d) ==
    [Gone EXCEPT !.st = "new", !.pipe = p, !.dev = d,
                 !.kind = IF d \in DevsOn(p) THEN Kind[params[d].cam] ELSE "UDP"]

(* One listener on each pipe: for the cameras, then for UDP.  Which unused *)
(* handle a thread gets makes no difference.                               *)
StartListeners ==
    /\ job.survey.step = "start"
    /\ Handles # {}
    /\ listener' = CHOOSE f \in Handles : TRUE
    /\ \E dev \in [Pipes -> Pipes] :
          /\ \A p \in Pipes : DevsOn(p) # {} => dev[p] \in DevsOn(p)
          /\ \A p \in Pipes : DevsOn(p) = {} => dev[p] = p
          /\ thread' = [t \in Threads |->
                 IF \E p \in Pipes : listener'[p] = t
                 THEN LET p == CHOOSE p \in Pipes : listener'[p] = t IN NewListener(p, dev[p])
                 ELSE thread[t]]
    /\ Advance("survey", "unlock")
    /\ UNCHANGED <<process, main, signals, bus, usb_devs, usb_mtx, overlooked>>

Unlock ==
    /\ job.survey.step = "unlock"
    /\ usb_mtx' = "free"
    /\ job' = [job EXCEPT !.survey = NoJob]
    /\ thread' = [t \in Threads |->
                     IF thread[t].st = "surveying" THEN [thread[t] EXCEPT !.st = "surveyed"]
                     ELSE thread[t]]
    /\ UNCHANGED <<process, main, signals, bus, usb_devs, listener, overlooked>>

usb_survey_devs ==
    \/ spiffer_input_shutdown("survey")
    \/ Scheduled("survey") /\ (usb_discover_devs \/ StartListeners \/ Unlock)

---------------------------------------------------------------------------
(* The main thread *)

SigInit ==
    /\ Running /\ main = "init"
    /\ main' = "sleeping"
    /\ UNCHANGED <<process, signals, bus, usb_devs, listener, thread, usb_mtx, job, overlooked>>

CheckCountInverted ==
    /\ Running /\ Top = "main" /\ main = "sleeping"
    /\ main' = IF cnt # 0 THEN "checked" ELSE "pause"
    /\ UNCHANGED <<process, signals, bus, usb_devs, listener, thread, usb_mtx, job, overlooked>>

(* "discover USB devces only if no USB-triggered signals already caused discovery" *)
CheckCount ==
    /\ Running /\ Top = "main" /\ main = "sleeping"
    /\ main' = IF cnt = 0 THEN "checked" ELSE "pause"
    /\ UNCHANGED <<process, signals, bus, usb_devs, listener, thread, usb_mtx, job, overlooked>>

StartUpSurvey ==
    /\ Running /\ Top = "main" /\ main = "checked"
    /\ Lock("main", StartUp) \/ Leave
    /\ main' = "pause"
    /\ UNCHANGED <<process, signals, bus, usb_devs, listener, thread>>

---------------------------------------------------------------------------
(* SIGUSR1.  Only the main thread takes signals: listeners block them from *)
(* their first instructions on.  A signal comes when it likes: before      *)
(* sig_init it ends the daemon.                                            *)

(* udev runs pkill.                                                        *)
SendUsr1 ==
    /\ Running /\ owed > 0
    /\ owed' = owed - 1
    /\ IF main = "init" THEN process' = "killed" /\ UNCHANGED pending
                        ELSE pending' = TRUE /\ UNCHANGED process
    /\ UNCHANGED <<main, handlers, taken, bus, usb_devs, listener, thread, usb_mtx, job, overlooked>>

Handling(s) == \E i \in 1 .. Len(handlers) : handlers[i] = s

Deliver == Running /\ pending /\ ~ Handling("usr1") /\ pending' = FALSE

(* signal_usr1_taken: this signal is not serviced.                         *)
SkipUsr1 ==
    /\ Deliver /\ taken
    /\ taken' = FALSE
    /\ overlooked' = TRUE
    /\ UNCHANGED <<process, main, handlers, owed, bus, usb_devs, listener, thread, usb_mtx, job>>

sig_usr1 ==
    /\ Deliver /\ ~ taken
    /\ handlers' = <<"usr1">> \o handlers
    /\ Lock("usr1", NoDevice) \/ Leave
    /\ UNCHANGED <<process, main, taken, owed, bus, usb_devs, listener, thread>>

(* Back from usb_survey_devs: "avoid responding to repeated signal instances". *)
ReturnUsr1 ==
    /\ Running /\ Top = "usr1" /\ usb_mtx # "usr1"
    /\ taken' = pending
    /\ handlers' = Tail(handlers)
    /\ UNCHANGED <<process, main, pending, owed, bus, usb_devs, listener, thread,
                   usb_mtx, job, overlooked>>

(* Another thread runs the handler, and finds signal_mtx taken.            *)
Usr1Elsewhere ==
    /\ "elsewhere" \in Upsets
    /\ Running /\ pending /\ Handling("usr1")
    /\ pending' = FALSE
    /\ overlooked' = TRUE
    /\ UNCHANGED <<process, main, handlers, taken, owed, bus, usb_devs, listener, thread,
                   usb_mtx, job>>

---------------------------------------------------------------------------
(* SIGTERM: spiffer_stop runs in the handler, without the lock *)

sig_term ==
    /\ "term" \in Upsets
    /\ Running /\ ~ Handling("term")
    /\ IF main = "init"
       THEN process' = "killed" /\ UNCHANGED <<handlers, job>>
       ELSE /\ handlers' = <<"term">> \o handlers
            /\ job' = [job EXCEPT !.stop = JobFrom("cancel", NoDevice)]
            /\ UNCHANGED process
    /\ UNCHANGED <<main, taken, pending, owed, bus, usb_devs, listener, thread,
                   usb_mtx, overlooked>>

(* The output threads are cancelled and joined, one after the other.  They *)
(* need not end (StopEnds of OutputPath).                                  *)
JoinOutputs ==
    /\ Scheduled("stop") /\ job.stop.step = "outputs"
    /\ Advance("stop", "exit")
    /\ UNCHANGED <<process, main, signals, bus, usb_devs, listener, thread, usb_mtx, overlooked>>

Exit ==
    /\ Scheduled("stop") /\ job.stop.step = "exit"
    /\ process' = "stopped"
    /\ UNCHANGED <<main, signals, bus, usb_devs, listener, thread, usb_mtx, job, overlooked>>

spiffer_stop == spiffer_input_shutdown("stop") \/ JoinOutputs \/ Exit

---------------------------------------------------------------------------
(* The listeners *)

Become(t, st) == thread' = [thread EXCEPT ![t].st = st]

StartUDP(t) ==
    /\ thread[t].st = "new" /\ thread[t].kind = "UDP"
    /\ Become(t, "listening")
    /\ UNCHANGED <<process, usb_devs, overlooked>>

Opened(t) == [thread EXCEPT ![t].st = "listening",
                            ![t].pipe = params[thread[t].dev].pipe,
                            ![t].cam = params[thread[t].dev].cam,
                            ![t].broken = params[thread[t].dev].hdl = "broken"]

(* caerDeviceDataStart fails on a camera that has gone: the thread returns. *)
StartCAER(t) ==
    /\ thread[t].st = "new" /\ thread[t].kind = "CAER"
    /\ IF params[thread[t].dev].hdl = "open"
       THEN thread' = Opened(t) /\ UNCHANGED overlooked
       ELSE thread' = [thread EXCEPT ![t] = Gone] /\ overlooked' = TRUE
    /\ UNCHANGED <<process, usb_devs>>

(* Takes the camera out of the table; an empty pointer is dereferenced.    *)
StartMETA(t) ==
    /\ thread[t].st = "new" /\ thread[t].kind = "META"
    /\ IF params[thread[t].dev].hdl = "none"
       THEN Crash /\ UNCHANGED <<thread, usb_devs>>
       ELSE /\ thread' = Opened(t)
            /\ params' = [params EXCEPT ![thread[t].dev].hdl = "none"]
            /\ UNCHANGED <<process, cnt>>
    /\ UNCHANGED overlooked

CancelledBetweenBatches(t) ==
    /\ thread[t].cancelled /\ thread[t].st = "listening"
    /\ thread' = [thread EXCEPT ![t] = Gone]
    /\ UNCHANGED <<process, usb_devs, overlooked>>

(* Between batches of events, or while it waits for one.  Transfers finish *)
(* (TransfersFinishUnlessStarved of SpifPipe), so every listener gets      *)
(* there.                                                                  *)
Cancelled(t) ==
    /\ thread[t].cancelled
    /\ \/ thread[t].st = "listening"
       \/ thread[t].st = "failed" /\ thread[t].kind = "CAER"
    /\ thread' = [thread EXCEPT ![t] = Gone]
    /\ UNCHANGED <<process, usb_devs, overlooked>>

(* wait_next_buffer returns an error; the thread cannot be cancelled now.  *)
WaitFails(t) ==
    /\ thread[t].st = "listening" /\ thread[t].kind = "META" /\ thread[t].broken
    /\ Become(t, "failed")
    /\ UNCHANGED <<process, usb_devs, overlooked>>

(* spiffer_meta_shutdown_dev, of whatever has the index now; then pause(). *)
ShutdownMETA(t) ==
    /\ thread[t].st = "surveyed"
    /\ Become(t, "paused")
    /\ params' = IF Kind[params[thread[t].dev].cam] = "META"
                 THEN [params EXCEPT ![thread[t].dev].hdl = "none"] ELSE params
    /\ UNCHANGED <<process, cnt, overlooked>>

ListenerStep(t) ==
    /\ Running
    /\ \/ StartUDP(t) \/ StartCAER(t) \/ StartMETA(t)
       \/ Cancelled(t) \/ WaitFails(t) \/ ShutdownMETA(t)
    /\ UNCHANGED <<main, signals, bus, listener, usb_mtx, job>>

(* The listener of a Prophesee camera that has gone surveys itself.        *)
SurveyMETA(t) ==
    /\ Running /\ thread[t].st = "failed" /\ thread[t].kind = "META"
    /\ \/ Lock("listener", thread[t].dev) /\ Become(t, "surveying")
       \/ Leave /\ Become(t, "surveyed")
    /\ UNCHANGED <<process, main, signals, bus, usb_devs, listener>>

(* libcaer calls back, once, when the camera of a stream has gone.         *)
NotifyCAER(t) ==
    /\ Running /\ thread[t].st = "listening" /\ thread[t].kind = "CAER" /\ thread[t].broken
    /\ Lock("camera", thread[t].dev) \/ Leave
    /\ Become(t, "failed")
    /\ UNCHANGED <<process, main, signals, bus, usb_devs, listener>>

Disconnected(t) == SurveyMETA(t) \/ NotifyCAER(t)

---------------------------------------------------------------------------
(* The bus *)

Connect(c) ==
    /\ c \notin plugged /\ changes < MaxChanges
    /\ plugged' = plugged \cup {c} /\ changes' = changes + 1
    /\ \E n \in 1 .. Echoes : owed' = owed + n
    /\ UNCHANGED <<process, main, handlers, taken, pending, usb_devs, listener, thread,
                   usb_mtx, job, overlooked>>

Disconnect(c) ==
    /\ c \in plugged /\ changes < MaxChanges
    /\ plugged' = plugged \ {c} /\ changes' = changes + 1
    /\ params' = [d \in Pipes |->
                     IF params[d].cam = c /\ params[d].hdl = "open"
                     THEN [params[d] EXCEPT !.hdl = "broken"] ELSE params[d]]
    /\ thread' = [t \in Threads |->
                     IF thread[t].st = "listening" /\ thread[t].kind # "UDP" /\ thread[t].cam = c
                     THEN [thread[t] EXCEPT !.broken = TRUE] ELSE thread[t]]
    /\ UNCHANGED <<process, main, signals, cnt, listener, usb_mtx, job, overlooked>>

---------------------------------------------------------------------------

MainStep == SigInit \/ CheckCount \/ StartUpSurvey
Usr1Step == SkipUsr1 \/ sig_usr1 \/ ReturnUsr1

Next ==
    \/ MainStep \/ usb_survey_devs
    \/ SendUsr1 \/ Usr1Step \/ Usr1Elsewhere
    \/ sig_term \/ spiffer_stop
    \/ \E t \in Threads : ListenerStep(t) \/ Disconnected(t)
    \/ \E c \in Cameras : Running /\ (Connect(c) \/ Disconnect(c))

(* Every thread runs on, udev sends what it owes, and the libraries report *)
(* a camera that has gone.  Cameras and SIGTERM come when they like, and   *)
(* the output threads may never end.                                       *)
Fairness ==
    /\ WF_vars(MainStep) /\ WF_vars(usb_survey_devs)
    /\ WF_vars(spiffer_input_shutdown("stop")) /\ WF_vars(Exit)
    /\ WF_vars(SendUsr1) /\ WF_vars(Usr1Step)
    /\ \A t \in Threads : WF_vars(ListenerStep(t)) /\ WF_vars(Disconnected(t))

Spec     == Init /\ [][Next]_vars
FairSpec == Spec /\ Fairness

---------------------------------------------------------------------------
Listens(t) == thread[t].st = "listening"

(* spiffer.cpp:811, "creates a listener thread per spif pipe": whatever    *)
(* surveys, signals and disconnections interleave, no two threads fill the *)
(* buffer of the same pipe.                                                *)
SoleListener ==
    \A t, u \in Threads :
        Listens(t) /\ Listens(u) /\ thread[t].pipe = thread[u].pipe => t = u

(* README of spiffer, "sorts USB cameras by serial number and connects the *)
(* lower number to pipe0": also while listeners of an earlier survey still *)
(* run.                                                                    *)
SortedBySerial ==
    \A t, u \in Threads :
        /\ Listens(t) /\ thread[t].kind # "UDP"
        /\ Listens(u) /\ thread[u].kind # "UDP"
        /\ thread[t].cam < thread[u].cam
        => thread[t].pipe < thread[u].pipe

(* spiffer.cpp:101, "shutdown input listeners and USB devices": a shutdown *)
(* does not touch a thread that does not exist, and no listener finds its  *)
(* camera taken away: with one exception, a signal that is handled before  *)
(* the first survey has created the listeners.                             *)
CrashesOnlyAtStartUp ==
    process = "crashed" => handlers # <<>> /\ \A p \in Pipes : listener[p] = Nobody

Quiescent ==
    /\ Running /\ main = "pause" /\ handlers = <<>> /\ usb_mtx = "free"
    /\ ~ pending /\ owed = 0
    /\ \A t \in Threads :
          /\ thread[t].st \notin {"new", "surveyed"}
          /\ thread[t].broken => thread[t].st # "listening"
          /\ thread[t].kind = "META" => thread[t].st # "failed"

Served == {thread[t].cam : t \in {u \in Threads : Listens(u) /\ thread[u].kind # "UDP"}}

PipesMatchBus ==
    /\ Served \subseteq Discoverable
    /\ Cardinality(Served) = FoundCount
    /\ \A p \in Pipes : \E t \in Threads : Listens(t) /\ thread[t].pipe = p

(* The README of spiffer, "switches between UDP and USB listening as a     *)
(* result of USB camera connections": once all is quiet, the cameras that  *)
(* are there have a pipe each, and every pipe has a listener: unless a     *)
(* change since the last discovery was overlooked, that is its signal was  *)
(* skipped, its survey was refused, or the camera had gone before the      *)
(* start of its listener.                                                  *)
SwitchesUnlessOverlooked == Quiescent /\ ~ overlooked => PipesMatchBus

(* spiffer.cpp:601, "release the lock": a survey ends, although it waits   *)
(* for other threads while it holds the lock: unless SIGTERM interrupts    *)
(* it, and the stop comes to wait for the output threads.                  *)
SurveysEnd ==
    (usb_mtx # "free") ~> (usb_mtx = "free" \/ ~ Running \/ job.stop.step = "outputs")

(* spiffer.cpp:166, "stop spiffer - caused by systemd request": SIGTERM    *)
(* ends the daemon, and until it waits for the output threads nothing but  *)
(* a survey that starts listeners during the stop, which does not lock,    *)
(* can keep it from that.                                                  *)
TermStopsUnlessReplaced ==
    \/ <>(Handling("term") /\ job.survey.step = "unlock")
    \/ <>[](job.stop.step = "outputs")
    \/ Handling("term") ~> ~ Running

============================================================================
