--------------------------- MODULE SpifferProofs ---------------------------
(* Proofs about Spiffer, for any number of pipes, cameras and threads. *)
EXTENDS Spiffer, FiniteSetTheorems, TLAPS

(* A thread that listens, is about to, or has just lost its camera.        *)
Active(t) == thread[t].st \in {"new", "listening", "failed"}

(* The table still says of the thread what it said when it was created.    *)
InTable(t) ==
    /\ params[thread[t].dev].pipe = thread[t].pipe
    /\ Kind[params[thread[t].dev].cam] = thread[t].kind

Owns(t) ==
    /\ thread[t].pipe \in Pipes
    /\ listener[thread[t].pipe] = t
    /\ thread[t].kind # "UDP" => InTable(t)

Cleared(p) == \A t \in Threads : listener[p] = t => ~ Active(t)

(* Only the handle of a pipe leads to an active thread on it.              *)
HandlesKnown == \A t \in Threads : Active(t) => Owns(t)

(* A survey has cleared the pipes that it has passed.                      *)
ClearedBehind ==
    /\ job.survey.step \in {"cancel", "join", "wait"} =>
          /\ job.survey.pipe \in Pipes
          /\ \A p \in Pipes : p < job.survey.pipe => Cleared(p)
    /\ job.survey.step \in {"devices", "discover", "start"} =>
          \A p \in Pipes : Cleared(p)
    /\ job.survey.step = "wait" => job.survey.target = listener[job.survey.pipe]

(* A survey skips no pipe but the one of the listener that runs it.        *)
SkipsItself ==
    job.survey.step \in {"cancel", "join", "wait"} =>
        \/ job.survey.discon = NoDevice
        \/ /\ job.survey.discon \in Pipes
           /\ Kind[params[job.survey.discon].cam] = "CAER"
        \/ \E t \in Threads :
              /\ thread[t].st = "surveying" /\ Owns(t) /\ thread[t].kind = "META"
              /\ thread[t].dev = job.survey.discon

(* Until the start-up survey, nothing has been created.                    *)
NothingYet ==
    main # "pause" =>
        /\ \A p \in Pipes : listener[p] = Nobody
        /\ \A t \in Threads : thread[t].st = "gone"
        /\ job.survey.step \in {"none", "cancel"}
        /\ job.survey.pipe = 0 /\ job.survey.discon = NoDevice

Inv == TypeOK /\ HandlesKnown /\ ClearedBehind /\ SkipsItself /\ NothingYet

---------------------------------------------------------------------------
(* Types *)

LEMMA DaemonIsTyped == ASSUME DaemonOK, [Next]_vars PROVE DaemonOK'
<1> USE DEF DaemonOK, signals, bus, vars, Crash, Lock, Leave, Deliver
<1>1. CASE MainStep
  BY <1>1 DEF MainStep, SigInit, CheckCount, StartUpSurvey
<1>2. CASE usb_survey_devs
  BY <1>2 DEF usb_survey_devs, spiffer_input_shutdown, SkipListener, CancelListener,
              JoinListener, Joined, ShutdownDevs, usb_discover_devs, StartListeners, Unlock
<1>3. CASE SendUsr1
  <2>1. owed' \in Nat
    <3>1. owed \in Nat /\ owed > 0 /\ owed' = owed - 1
      BY <1>3 DEF SendUsr1
    <3> QED
      BY <3>1
  <2> QED
    BY <1>3, <2>1 DEF SendUsr1
<1>4. CASE Usr1Step \/ Usr1Elsewhere
  <2>1. CASE sig_usr1
    <3>1. handlers' = <<"usr1">> \o handlers
      BY <2>1 DEF sig_usr1
    <3>2. handlers' \in Seq({"usr1", "term"})
      BY <3>1
    <3> QED
      BY <2>1, <3>2 DEF sig_usr1
  <2>2. CASE ReturnUsr1
    <3>1. handlers # <<>>
      BY <2>2 DEF ReturnUsr1, Top
    <3>2. Tail(handlers) \in Seq({"usr1", "term"})
      BY <3>1
    <3> QED
      BY <2>2, <3>2 DEF ReturnUsr1
  <2> QED
    BY <1>4, <2>1, <2>2 DEF Usr1Step, SkipUsr1, Usr1Elsewhere
<1>5. CASE sig_term \/ spiffer_stop
  <2>1. CASE sig_term
    <3>1. <<"term">> \o handlers \in Seq({"usr1", "term"})
      OBVIOUS
    <3>2. handlers' \in Seq({"usr1", "term"})
      BY <2>1, <3>1 DEF sig_term
    <3> QED
      BY <2>1, <3>2 DEF sig_term
  <2>2. CASE spiffer_stop
    BY <2>2 DEF spiffer_stop, JoinOutputs, Exit, spiffer_input_shutdown, SkipListener,
                CancelListener, JoinListener, Joined, ShutdownDevs
  <2> QED
    BY <1>5, <2>1, <2>2
<1>6. ASSUME NEW t \in Threads, ListenerStep(t) \/ Disconnected(t) PROVE DaemonOK'
  BY <1>6 DEF ListenerStep, StartUDP, StartCAER, StartMETA, Cancelled, WaitFails,
              ShutdownMETA, Disconnected, SurveyMETA, NotifyCAER
<1>7. ASSUME NEW c \in Cameras, Connect(c) \/ Disconnect(c) PROVE DaemonOK'
  BY <1>7 DEF Connect, Disconnect
<1>8. CASE UNCHANGED vars
  BY <1>8
<1> QED
  BY <1>1, <1>2, <1>3, <1>4, <1>5, <1>6, <1>7, <1>8 DEF Next

(* The cameras on the bus are finitely many, so the libraries list a       *)
(* number of them, and a position in the sorted list is a number.          *)
LEMMA DiscoverableIsFinite ==
    ASSUME TableOK
    PROVE  /\ Discoverable \subseteq Cameras
           /\ FoundCount \in 0 .. NPipes
<1>1. Discoverable \subseteq Cameras
  BY DEF Discoverable, OfKind, TableOK
<1>2. IsFiniteSet(Discoverable)
  BY <1>1, FS_Subset, SpifferAssumption
<1>3. Cardinality(Discoverable) \in Nat
  BY <1>2, FS_CardinalityType
<1> QED
  BY <1>1, <1>3, SpifferAssumption DEF FoundCount

LEMMA PipeOfIsNat ==
    ASSUME NEW n \in Nat, NEW f \in Found(n), NEW d PROVE PipeOf(f, d) \in Nat
<1>1. DOMAIN f = 0 .. n - 1
  BY DEF Found
<1>2. IsFiniteSet(0 .. n - 1)
  BY FS_Interval
<1>3. {e \in DOMAIN f : f[e] < f[d]} \in SUBSET (0 .. n - 1)
  BY <1>1
<1>4. IsFiniteSet({e \in DOMAIN f : f[e] < f[d]})
  BY <1>2, <1>3, FS_Subset
<1> QED
  BY <1>4, FS_CardinalityType DEF PipeOf

LEMMA TableIsTyped == ASSUME TableOK, ThreadsOK, [Next]_vars PROVE TableOK'
<1> USE SpifferAssumption DEF TableOK, Param, Pipes, usb_devs, bus, vars
<1>1. CASE usb_discover_devs
  <2>1. PICK f \in Found(FoundCount) :
           params' = [d \in Pipes |->
                         IF d \in DOMAIN f
                         THEN [cam |-> f[d], pipe |-> PipeOf(f, d), hdl |-> "open"]
                         ELSE params[d]]
    BY <1>1 DEF usb_discover_devs
  <2>2. /\ FoundCount \in 0 .. NPipes
        /\ f \in [0 .. FoundCount - 1 -> Cameras]
    BY DiscoverableIsFinite DEF Found
  <2>3. \A d \in DOMAIN f : f[d] \in Cameras /\ PipeOf(f, d) \in Nat
    BY <2>2, PipeOfIsNat
  <2>4. params' \in [Pipes -> Param]
    BY <2>1, <2>3
  <2>5. \A d \in 0 .. FoundCount - 1 : params'[d].cam \in Cameras
    BY <2>1, <2>2
  <2> QED
    BY <1>1, <2>2, <2>4, <2>5 DEF usb_discover_devs
<1>2. ASSUME NEW j, ShutdownDevs(j) PROVE TableOK'
  <2>1. params' = [d \in Pipes |-> IF d \in Devs \ {job[j].discon}
                                    THEN [params[d] EXCEPT !.hdl = "none"] ELSE params[d]]
    BY <1>2 DEF ShutdownDevs
  <2>2. \A d \in Pipes : params'[d] \in Param /\ params'[d].cam = params[d].cam
    BY <2>1
  <2>3. params' \in [Pipes -> Param]
    BY <2>1, <2>2
  <2> QED
    BY <1>2, <2>2, <2>3 DEF ShutdownDevs
<1>3. ASSUME NEW t \in Threads, ListenerStep(t) PROVE TableOK'
  <2>1. UNCHANGED usb_devs \/ params' = [params EXCEPT ![thread[t].dev].hdl = "none"]
    BY <1>3 DEF ListenerStep, StartUDP, StartCAER, StartMETA, Cancelled, WaitFails, ShutdownMETA
  <2>2. UNCHANGED <<plugged, cnt>>
    BY <1>3 DEF ListenerStep, StartUDP, StartCAER, StartMETA, Cancelled, WaitFails, ShutdownMETA
  <2>3. thread[t].dev \in Pipes
    BY DEF ThreadsOK, Thread
  <2>4. \A d \in Pipes : params'[d] = params[d] \/ params'[d] = [params[d] EXCEPT !.hdl = "none"]
    BY <2>1, <2>3
  <2>5. \A d \in Pipes : params'[d] \in Param /\ params'[d].cam = params[d].cam
    <3> SUFFICES ASSUME NEW d \in Pipes
                 PROVE  params'[d] \in Param /\ params'[d].cam = params[d].cam
      OBVIOUS
    <3>1. params[d] \in Param /\ [params[d] EXCEPT !.hdl = "none"] \in Param
      OBVIOUS
    <3>2. [params[d] EXCEPT !.hdl = "none"].cam = params[d].cam
      OBVIOUS
    <3> QED
      BY <2>4, <3>1, <3>2
  <2>6. params' \in [Pipes -> Param]
    BY <2>1, <2>5
  <2> QED
    BY <2>2, <2>5, <2>6
<1>4. ASSUME NEW c \in Cameras, Connect(c) PROVE TableOK'
  BY <1>4 DEF Connect
<1>5. ASSUME NEW c \in Cameras, Disconnect(c) PROVE TableOK'
  <2>1. params' = [d \in Pipes |->
                      IF params[d].cam = c /\ params[d].hdl = "open"
                      THEN [params[d] EXCEPT !.hdl = "broken"] ELSE params[d]]
    BY <1>5 DEF Disconnect
  <2>2. \A d \in Pipes : params'[d] \in Param /\ params'[d].cam = params[d].cam
    BY <2>1
  <2>3. params' \in [Pipes -> Param]
    BY <2>1, <2>2
  <2> QED
    BY <1>5, <2>2, <2>3 DEF Disconnect
<1>6. CASE UNCHANGED <<plugged, usb_devs>>
  BY <1>6
<1>7. \/ UNCHANGED <<plugged, usb_devs>>
      \/ usb_discover_devs
      \/ \E j : ShutdownDevs(j)
      \/ \E t \in Threads : ListenerStep(t)
      \/ \E c \in Cameras : Connect(c) \/ Disconnect(c)
  BY DEF Next, MainStep, SigInit, CheckCount, StartUpSurvey, usb_survey_devs,
         spiffer_input_shutdown, SkipListener, CancelListener, JoinListener, Joined,
         StartListeners, Unlock, SendUsr1, Usr1Step, SkipUsr1, sig_usr1, ReturnUsr1,
         Usr1Elsewhere, sig_term, spiffer_stop,
         JoinOutputs, Exit, Disconnected, SurveyMETA, NotifyCAER
<1> QED
  BY <1>1, <1>2, <1>3, <1>4, <1>5, <1>6, <1>7

LEMMA AdvanceIsTyped ==
    ASSUME ThreadsOK, NEW j \in {"survey", "stop"}, NEW step \in Steps, Advance(j, step),
           step \in {"cancel", "join", "wait"} => job[j].pipe \in Pipes
    PROVE  job' \in [{"survey", "stop"} -> Job]
<1> DEFINE r == [job[j] EXCEPT !.step = step]
<1>1. r \in Job
  BY DEF ThreadsOK, Job
<1>2. job' = [job EXCEPT ![j] = r]
  BY DEF Advance
<1> QED
  BY <1>1, <1>2 DEF ThreadsOK

LEMMA NextPipeIsTyped ==
    ASSUME ThreadsOK, NEW j \in {"survey", "stop"}, NextPipe(j),
           job[j].step \in {"cancel", "wait"}
    PROVE  job' \in [{"survey", "stop"} -> Job]
<1> DEFINE r == [job[j] EXCEPT !.pipe = @ + 1, !.target = Nobody,
                       !.step = IF job[j].pipe + 1 = NPipes THEN "devices" ELSE "cancel"]
<1>1. job[j].pipe \in Pipes /\ job[j] \in Job
  BY DEF ThreadsOK, Job
<1>2. job[j].pipe + 1 \in Nat /\ (job[j].pipe + 1 # NPipes => job[j].pipe + 1 \in Pipes)
  BY <1>1, SpifferAssumption DEF Pipes
<1>3. r \in [step : Steps, pipe : Nat, target : Threads \cup {Nobody}, discon : Int]
  BY <1>1, <1>2 DEF Job, Steps
<1>4. r.step \in {"cancel", "join", "wait"} => r.pipe \in Pipes
  BY <1>1, <1>2 DEF Job
<1>5. r \in Job
  BY <1>3, <1>4 DEF Job
<1>6. job' = [job EXCEPT ![j] = r]
  BY DEF NextPipe
<1> QED
  BY <1>5, <1>6 DEF ThreadsOK

LEMMA ShutdownIsTyped ==
    ASSUME TableOK, ThreadsOK, NEW j \in {"survey", "stop"}, spiffer_input_shutdown(j)
    PROVE  ThreadsOK'
<1>1. CASE SkipListener(j)
  BY <1>1, NextPipeIsTyped DEF SkipListener, ThreadsOK
<1>2. CASE CancelListener(j)
  <2> DEFINE t == listener[job[j].pipe]
  <2>1. job[j].step = "cancel" /\ job[j].pipe \in Pipes
    BY <1>2 DEF CancelListener, ThreadsOK, Job
  <2>2. t # Nobody => t \in Threads
    BY <2>1 DEF ThreadsOK
  <2>3. \/ thread' = thread
        \/ t \in Threads /\ thread' = [thread EXCEPT ![t].cancelled = TRUE]
    BY <1>2, <2>2 DEF CancelListener
  <2>4. \A u \in Threads : [thread[u] EXCEPT !.cancelled = TRUE] \in Thread
    BY DEF ThreadsOK, Thread
  <2>5. thread' \in [Threads -> Thread]
    BY <2>3, <2>4 DEF ThreadsOK
  <2>6. UNCHANGED job \/ Advance(j, "join")
    BY <1>2 DEF CancelListener
  <2>7. job' \in [{"survey", "stop"} -> Job]
    BY <2>1, <2>6, AdvanceIsTyped DEF ThreadsOK, Steps
  <2> QED
    BY <1>2, <2>5, <2>7 DEF CancelListener, ThreadsOK
<1>3. CASE JoinListener(j)
  <2> DEFINE r == [job[j] EXCEPT !.step = "wait", !.target = listener[job[j].pipe]]
  <2>1. r \in Job
    BY <1>3 DEF JoinListener, ThreadsOK, Job, Steps
  <2>2. job' = [job EXCEPT ![j] = r]
    BY <1>3 DEF JoinListener
  <2> QED
    BY <1>3, <2>1, <2>2 DEF JoinListener, ThreadsOK
<1>4. CASE Joined(j)
  BY <1>4, NextPipeIsTyped DEF Joined, ThreadsOK
<1>5. CASE ShutdownDevs(j)
  BY <1>5, AdvanceIsTyped DEF ShutdownDevs, ThreadsOK, Steps
<1> QED
  BY <1>1, <1>2, <1>3, <1>4, <1>5 DEF spiffer_input_shutdown

LEMMA StartIsTyped == ASSUME TableOK, ThreadsOK, StartListeners PROVE ThreadsOK'
<1> USE SpifferAssumption
<1>1. listener' \in Handles
  BY DEF StartListeners
<1>2. listener' \in [Pipes -> Threads \cup {Nobody}]
  BY <1>1 DEF Handles, Unused
<1>3. PICK dev \in [Pipes -> Pipes] :
         thread' = [t \in Threads |->
             IF \E p \in Pipes : listener'[p] = t
             THEN LET p == CHOOSE p \in Pipes : listener'[p] = t IN NewListener(p, dev[p])
             ELSE thread[t]]
  BY DEF StartListeners
<1>4. \A p \in Pipes : NewListener(p, dev[p]) \in Thread
  <2> SUFFICES ASSUME NEW p \in Pipes PROVE NewListener(p, dev[p]) \in Thread
    OBVIOUS
  <2>1. dev[p] \in DevsOn(p) => Kind[params[dev[p]].cam] \in {"CAER", "META"}
    BY DEF DevsOn, Devs, TableOK
  <2>2. p \in Nat /\ 0 \in Pipes
    BY DEF Pipes
  <2> QED
    BY <2>1, <2>2 DEF NewListener, Gone, Thread
<1>5. thread' \in [Threads -> Thread]
  BY <1>3, <1>4 DEF ThreadsOK
<1>6. job' \in [{"survey", "stop"} -> Job]
  BY AdvanceIsTyped DEF StartListeners, Steps
<1> QED
  BY <1>2, <1>5, <1>6 DEF ThreadsOK

LEMMA JobFromIsTyped ==
    ASSUME NEW step \in {"none", "cancel", "discover"}, NEW dev \in Int
    PROVE  JobFrom(step, dev) \in Job
<1>1. 0 \in Pipes
  BY SpifferAssumption DEF Pipes
<1> QED
  BY <1>1 DEF JobFrom, Job, Steps

LEMMA LockIsTyped ==
    ASSUME ThreadsOK, NEW who, NEW dev \in Int, Lock(who, dev) \/ Leave
    PROVE  job' \in [{"survey", "stop"} -> Job]
<1>1. CASE Leave
  BY <1>1 DEF Leave, ThreadsOK
<1>2. CASE Lock(who, dev)
  <2> DEFINE step == IF dev < NPipes THEN "cancel" ELSE "discover"
             r == JobFrom(step, dev)
  <2>1. r \in Job
    BY JobFromIsTyped
  <2>2. job' = [job EXCEPT !["survey"] = r]
    BY <1>2 DEF Lock
  <2> QED
    BY <2>1, <2>2 DEF ThreadsOK
<1> QED
  BY <1>1, <1>2

LEMMA ListenerIsTyped ==
    ASSUME TableOK, ThreadsOK, NEW t \in Threads, ListenerStep(t) PROVE ThreadsOK'
<1>1. thread[t] \in Thread /\ params[thread[t].dev] \in Param
  BY DEF ThreadsOK, TableOK, Thread
<1>2. \A st \in {"listening", "failed", "paused"} : [thread[t] EXCEPT !.st = st] \in Thread
  BY <1>1 DEF Thread
<1>3. [thread[t] EXCEPT !.st = "listening",
                        !.pipe = params[thread[t].dev].pipe,
                        !.cam = params[thread[t].dev].cam,
                        !.broken = params[thread[t].dev].hdl = "broken"] \in Thread
  BY <1>1 DEF Thread, Param
<1>4. Gone \in Thread
  BY SpifferAssumption DEF Gone, Thread, Pipes
<1>5. thread' = thread \/ \E r \in Thread : thread' = [thread EXCEPT ![t] = r]
  <2>1. CASE StartUDP(t) \/ WaitFails(t) \/ ShutdownMETA(t)
    BY <2>1, <1>2 DEF StartUDP, WaitFails, ShutdownMETA, Become
  <2>2. CASE StartCAER(t)
    BY <2>2, <1>3, <1>4 DEF StartCAER, Opened
  <2>3. CASE StartMETA(t)
    BY <2>3, <1>3 DEF StartMETA, Opened
  <2>4. CASE Cancelled(t)
    BY <2>4, <1>4 DEF Cancelled
  <2> QED
    BY <2>1, <2>2, <2>3, <2>4 DEF ListenerStep
<1> QED
  BY <1>5 DEF ListenerStep, ThreadsOK

LEMMA ThreadsAreTyped == ASSUME TableOK, ThreadsOK, [Next]_vars PROVE ThreadsOK'
<1>1. CASE UNCHANGED <<listener, thread, job>>
  BY <1>1 DEF ThreadsOK
<1>2. CASE spiffer_input_shutdown("survey") \/ spiffer_input_shutdown("stop")
  BY <1>2, ShutdownIsTyped
<1>3. CASE usb_discover_devs
  BY <1>3, AdvanceIsTyped DEF usb_discover_devs, ThreadsOK, Steps
<1>4. CASE StartListeners
  BY <1>4, StartIsTyped
<1>5. CASE Unlock
  <2>1. \A t \in Threads : [thread[t] EXCEPT !.st = "surveyed"] \in Thread
    BY DEF ThreadsOK, Thread
  <2>2. thread' \in [Threads -> Thread]
    BY <1>5, <2>1 DEF Unlock, ThreadsOK
  <2>3. NoJob \in Job
    BY JobFromIsTyped DEF NoJob, NoDevice
  <2>4. job' = [job EXCEPT !["survey"] = NoJob] /\ listener' = listener
    BY <1>5 DEF Unlock
  <2> QED
    BY <2>2, <2>3, <2>4 DEF ThreadsOK
<1>6. CASE StartUpSurvey \/ sig_usr1
  BY <1>6, LockIsTyped, SpifferAssumption
  DEF StartUpSurvey, sig_usr1, StartUp, NoDevice, ThreadsOK
<1>7. CASE sig_term
  <2>1. JobFrom("cancel", NoDevice) \in Job
    BY JobFromIsTyped DEF NoDevice
  <2>2. job' = job \/ job' = [job EXCEPT !["stop"] = JobFrom("cancel", NoDevice)]
    BY <1>7 DEF sig_term
  <2> QED
    BY <1>7, <2>1, <2>2 DEF sig_term, ThreadsOK
<1>8. ASSUME NEW t \in Threads, ListenerStep(t) PROVE ThreadsOK'
  BY <1>8, ListenerIsTyped
<1>9. ASSUME NEW t \in Threads, Disconnected(t) PROVE ThreadsOK'
  <2>1. thread[t].dev \in Int
    BY DEF ThreadsOK, Thread, Pipes
  <2>2. \/ Lock("listener", thread[t].dev) \/ Leave
        \/ Lock("camera", thread[t].dev) \/ Leave
    BY <1>9 DEF Disconnected, SurveyMETA, NotifyCAER
  <2>3. job' \in [{"survey", "stop"} -> Job]
    BY <2>1, <2>2, LockIsTyped
  <2>4. \A st \in {"surveying", "surveyed", "failed"} : [thread[t] EXCEPT !.st = st] \in Thread
    BY DEF ThreadsOK, Thread
  <2>5. thread' \in [Threads -> Thread] /\ listener' = listener
    BY <1>9, <2>4 DEF Disconnected, SurveyMETA, NotifyCAER, Become, ThreadsOK
  <2> QED
    BY <2>3, <2>5 DEF ThreadsOK
<1>10. ASSUME NEW c \in Cameras, Disconnect(c) PROVE ThreadsOK'
  <2>1. \A t \in Threads : [thread[t] EXCEPT !.broken = TRUE] \in Thread
    BY DEF ThreadsOK, Thread
  <2> QED
    BY <1>10, <2>1 DEF Disconnect, ThreadsOK
<1>11. CASE JoinOutputs
  BY <1>11, AdvanceIsTyped DEF JoinOutputs, ThreadsOK, Steps
<1> QED
  BY <1>1, <1>2, <1>3, <1>4, <1>5, <1>6, <1>7, <1>8, <1>9, <1>10, <1>11
  DEF Next, MainStep, SigInit, CheckCount, usb_survey_devs, SendUsr1, Usr1Step, SkipUsr1,
      ReturnUsr1, Usr1Elsewhere, spiffer_stop, JoinOutputs, Exit, Connect, vars

LEMMA InitIsTyped == ASSUME Init PROVE TypeOK
<1>1. DaemonOK
  <2>1. handlers = <<>>
    BY DEF Init
  <2>2. handlers \in Seq({"usr1", "term"})
    BY <2>1
  <2> QED
    BY <2>2 DEF Init, DaemonOK
<1>2. TableOK
  BY SpifferAssumption DEF Init, TableOK, Param, Pipes
<1>3. Gone \in Thread
  BY SpifferAssumption DEF Gone, Thread, Pipes
<1>4. NoJob \in Job
  BY JobFromIsTyped DEF NoJob, NoDevice
<1>5. ThreadsOK
  BY <1>3, <1>4 DEF Init, ThreadsOK
<1> QED
  BY <1>1, <1>2, <1>5 DEF TypeOK

(* Every variable keeps its type, and a survey and a stop only name pipes  *)
(* that there are, whatever signals and cameras do (spiffer.cpp).          *)
THEOREM TypeCorrect == Spec => []TypeOK
<1>1. Init => TypeOK
  BY InitIsTyped
<1>2. TypeOK /\ [Next]_vars => TypeOK'
  BY DaemonIsTyped, TableIsTyped, ThreadsAreTyped DEF TypeOK
<1> QED
  BY <1>1, <1>2, PTL DEF Spec

---------------------------------------------------------------------------
(* Listeners, handles and surveys *)

Same(t) == /\ thread'[t].pipe = thread[t].pipe
           /\ thread'[t].dev = thread[t].dev
           /\ thread'[t].kind = thread[t].kind

(* No thread becomes active, none ceases to survey, none moves.            *)
Calm ==
    /\ listener' = listener
    /\ \A d \in Pipes : params'[d].pipe = params[d].pipe /\ params'[d].cam = params[d].cam
    /\ \A t \in Threads :
          /\ thread[t].st = "gone" => thread'[t].st = "gone"
          /\ Active(t)' => Active(t) /\ Same(t)
          /\ thread[t].st = "surveying" => thread'[t].st = "surveying" /\ Same(t)

LEMMA UntouchedIsCalm ==
    ASSUME UNCHANGED <<listener, thread>>,
           \A d \in Pipes : params'[d].pipe = params[d].pipe /\ params'[d].cam = params[d].cam
    PROVE  Calm
BY DEF Calm, Same, Active

LEMMA ListenerIsCalm ==
    ASSUME TypeOK, HandlesKnown, NEW t \in Threads, ListenerStep(t) \/ Disconnected(t)
    PROVE  Calm
<1> USE DEF TypeOK, TableOK, ThreadsOK, Thread, Param
<1>1. thread[t].dev \in Pipes
  OBVIOUS
<1>2. listener' = listener
  BY DEF ListenerStep, Disconnected, SurveyMETA, NotifyCAER
<1>3. \A d \in Pipes : params'[d].pipe = params[d].pipe /\ params'[d].cam = params[d].cam
  <2>1. \/ UNCHANGED params
        \/ params' = [params EXCEPT ![thread[t].dev].hdl = "none"]
    BY DEF ListenerStep, StartUDP, StartCAER, StartMETA, Cancelled, WaitFails, ShutdownMETA,
           Disconnected, SurveyMETA, NotifyCAER, usb_devs
  <2>2. \A d \in Pipes : params'[d] = params[d] \/ params'[d] = [params[d] EXCEPT !.hdl = "none"]
    BY <1>1, <2>1
  <2>3. \A d \in Pipes : /\ [params[d] EXCEPT !.hdl = "none"].pipe = params[d].pipe
                         /\ [params[d] EXCEPT !.hdl = "none"].cam = params[d].cam
    OBVIOUS
  <2> QED
    BY <2>2, <2>3
<1>4. \A u \in Threads \ {t} : thread'[u] = thread[u]
  BY DEF ListenerStep, StartUDP, StartCAER, StartMETA, Cancelled, WaitFails, ShutdownMETA,
         Disconnected, SurveyMETA, NotifyCAER, Become, Opened
<1>5. thread[t].st \notin {"gone", "surveying"} \/ thread' = thread
  BY DEF ListenerStep, StartUDP, StartCAER, StartMETA, Cancelled, WaitFails, ShutdownMETA,
         Disconnected, SurveyMETA, NotifyCAER, Become
<1>6. Active(t)' => Active(t) /\ Same(t)
  <2>1. CASE StartCAER(t) \/ StartMETA(t)
    <3>1. /\ thread[t].st = "new" /\ thread[t].kind # "UDP"
          /\ thread' = thread \/ thread' = Opened(t) \/ thread' = [thread EXCEPT ![t] = Gone]
      BY <2>1 DEF StartCAER, StartMETA
    <3>2. Active(t) /\ params[thread[t].dev].pipe = thread[t].pipe
      BY <3>1 DEF Active, HandlesKnown, Owns, InTable
    <3>3. CASE thread' = [thread EXCEPT ![t] = Gone]
      BY <3>3 DEF Active, Gone
    <3>4. CASE thread' = Opened(t)
      BY <3>2, <3>4 DEF Opened, Same
    <3> QED
      BY <3>1, <3>2, <3>3, <3>4 DEF Same
  <2>2. CASE StartUDP(t) \/ WaitFails(t) \/ ShutdownMETA(t) \/ Disconnected(t)
    <3>1. \E st \in {"listening", "failed", "paused", "surveying", "surveyed"} : Become(t, st)
      BY <2>2 DEF StartUDP, WaitFails, ShutdownMETA, Disconnected, SurveyMETA, NotifyCAER
    <3>2. Same(t)
      BY <3>1 DEF Become, Same
    <3>3. thread[t].st \in {"new", "listening", "failed"} \/ ShutdownMETA(t)
      BY <2>2 DEF StartUDP, WaitFails, Disconnected, SurveyMETA, NotifyCAER
    <3>4. ShutdownMETA(t) => ~ Active(t)'
      BY DEF ShutdownMETA, Become, Active
    <3> QED
      BY <3>2, <3>3, <3>4 DEF Active
  <2>3. CASE Cancelled(t)
    BY <2>3 DEF Cancelled, Active, Gone
  <2> QED
    BY <2>1, <2>2, <2>3 DEF ListenerStep
<1> QED
  BY <1>2, <1>3, <1>4, <1>5, <1>6 DEF Calm, Same, Active

LEMMA ShutdownIsCalm ==
    ASSUME TypeOK, NEW j \in {"survey", "stop"}, spiffer_input_shutdown(j)
    PROVE  Calm
<1> USE DEF TypeOK, TableOK, ThreadsOK
<1>1. CASE CancelListener(j)
  <2> DEFINE u == listener[job[j].pipe]
  <2>1. UNCHANGED <<listener, params>>
    BY <1>1 DEF CancelListener, usb_devs
  <2>2. \A t \in Threads : /\ thread'[t].st = thread[t].st
                           /\ Same(t)
    <3>1. thread' = thread \/ thread' = [thread EXCEPT ![u].cancelled = TRUE]
      BY <1>1 DEF CancelListener
    <3> QED
      BY <3>1 DEF Thread, Same
  <2> QED
    BY <2>1, <2>2 DEF Calm, Active
<1>2. CASE ShutdownDevs(j)
  <2>1. params' = [d \in Pipes |-> IF d \in Devs \ {job[j].discon}
                                    THEN [params[d] EXCEPT !.hdl = "none"] ELSE params[d]]
    BY <1>2 DEF ShutdownDevs
  <2>2. \A d \in Pipes : params'[d].pipe = params[d].pipe /\ params'[d].cam = params[d].cam
    BY <2>1 DEF Param
  <2> QED
    BY <1>2, <2>2, UntouchedIsCalm DEF ShutdownDevs
<1>3. CASE SkipListener(j) \/ JoinListener(j) \/ Joined(j)
  BY <1>3, UntouchedIsCalm DEF SkipListener, JoinListener, Joined, usb_devs
<1> QED
  BY <1>1, <1>2, <1>3 DEF spiffer_input_shutdown

LEMMA MostAreCalm ==
    ASSUME TypeOK, HandlesKnown, [Next]_vars
    PROVE  Calm \/ usb_discover_devs \/ StartListeners \/ Unlock
<1>1. CASE UNCHANGED <<listener, thread, params>>
  BY <1>1, UntouchedIsCalm
<1>2. ASSUME NEW c \in Cameras, Disconnect(c) PROVE Calm
  <2>1. \A d \in Pipes : params'[d].pipe = params[d].pipe /\ params'[d].cam = params[d].cam
    BY <1>2 DEF Disconnect, TypeOK, TableOK, Param
  <2>2. \A t \in Threads : thread'[t].st = thread[t].st /\ Same(t)
    BY <1>2 DEF Disconnect, TypeOK, ThreadsOK, Thread, Same
  <2> QED
    BY <1>2, <2>1, <2>2 DEF Disconnect, Calm, Active
<1> QED
  BY <1>1, <1>2, ListenerIsCalm, ShutdownIsCalm
  DEF Next, MainStep, SigInit, CheckCount, StartUpSurvey, usb_survey_devs, SendUsr1,
      Usr1Step, SkipUsr1, sig_usr1, ReturnUsr1, Usr1Elsewhere, sig_term, spiffer_stop,
      JoinOutputs, Exit,
      Connect, vars, usb_devs

LEMMA CalmKeepsOwners ==
    ASSUME TypeOK, HandlesKnown, Calm
    PROVE  /\ HandlesKnown'
           /\ \A p \in Pipes : Cleared(p) => Cleared(p)'
           /\ \A t \in Threads : thread[t].st = "surveying" /\ Owns(t) => Owns(t)'
<1> USE DEF TypeOK, ThreadsOK, Thread
<1>1. \A t \in Threads : Same(t) /\ Owns(t) => Owns(t)'
  BY DEF Calm, Same, Owns, InTable
<1> QED
  BY <1>1 DEF Calm, HandlesKnown, Cleared

(* The invariant but for the types.                                        *)
Known == HandlesKnown /\ ClearedBehind /\ SkipsItself /\ NothingYet

LEMMA CalmKeepsKnown ==
    ASSUME Inv, Calm, UNCHANGED job.survey, main' # "pause" => main # "pause"
    PROVE  Known'
<1> USE DEF Inv
<1>1. HandlesKnown'
  BY CalmKeepsOwners
<1>2. ClearedBehind'
  BY CalmKeepsOwners DEF ClearedBehind, Calm
<1>3. SkipsItself'
  BY CalmKeepsOwners DEF SkipsItself, Calm, Same
<1>4. NothingYet'
  BY DEF NothingYet, Calm
<1> QED
  BY <1>1, <1>2, <1>3, <1>4 DEF Known

LEMMA NextPipeKeepsKnown ==
    ASSUME Inv, Calm, NextPipe("survey"), job.survey.step \in {"cancel", "wait"},
           Cleared(job.survey.pipe), main = "pause", main' = main
    PROVE  Known'
<1> USE DEF Inv
<1>1. job.survey.pipe \in Pipes
  BY DEF ClearedBehind
<1>2. /\ job'.survey.pipe = job.survey.pipe + 1
      /\ job'.survey.discon = job.survey.discon
      /\ job'.survey.step = IF job.survey.pipe + 1 = NPipes THEN "devices" ELSE "cancel"
  BY DEF NextPipe, TypeOK, ThreadsOK, Job
<1>3. \A p \in Pipes : p < job.survey.pipe + 1 => Cleared(p)'
  BY <1>1, CalmKeepsOwners DEF ClearedBehind, Pipes
<1>4. ClearedBehind'
  BY <1>1, <1>2, <1>3, SpifferAssumption DEF ClearedBehind, Pipes
<1>5. SkipsItself'
  BY <1>2, CalmKeepsOwners DEF SkipsItself, Calm, Same
<1> QED
  BY <1>4, <1>5, CalmKeepsOwners DEF Known, NothingYet

LEMMA ShutdownKeepsKnown ==
    ASSUME Inv, spiffer_input_shutdown("survey"), main' = main
    PROVE  Known'
<1> USE DEF Inv
<1>1. Calm
  BY ShutdownIsCalm
<1>2. CASE SkipListener("survey")
  <2>1. /\ job.survey.step = "cancel" /\ LeftAlone("survey") /\ NextPipe("survey")
        /\ job.survey.discon # NoDevice
        /\ Kind[params[job.survey.discon].cam] = "META"
    BY <1>2 DEF SkipListener, LeftAlone
  <2>2. main = "pause"
    BY <2>1 DEF NothingYet
  <2>3. PICK t \in Threads :
           /\ thread[t].st = "surveying" /\ Owns(t) /\ thread[t].kind = "META"
           /\ thread[t].dev = job.survey.discon
    BY <2>1 DEF SkipsItself
  <2>4. thread[t].pipe = job.survey.pipe
    BY <2>1, <2>3 DEF LeftAlone, Owns, InTable
  <2>5. Cleared(job.survey.pipe)
    BY <2>3, <2>4 DEF Cleared, Owns, Active
  <2> QED
    BY <1>1, <2>1, <2>2, <2>5, NextPipeKeepsKnown
<1>3. CASE CancelListener("survey")
  <2>1. CASE UNCHANGED job
    BY <1>1, <2>1, CalmKeepsKnown
  <2>2. CASE job' # job
    <3>1. /\ job.survey.step = "cancel" /\ Advance("survey", "join")
          /\ listener[job.survey.pipe] # Nobody
      BY <1>3, <2>2 DEF CancelListener
    <3>2. main = "pause"
      BY <3>1 DEF NothingYet, ClearedBehind
    <3>3. /\ job'.survey.step = "join" /\ job'.survey.pipe = job.survey.pipe
          /\ job'.survey.discon = job.survey.discon
      BY <3>1 DEF Advance, TypeOK, ThreadsOK, Job
    <3>4. ClearedBehind'
      BY <1>1, <3>1, <3>3, CalmKeepsOwners DEF ClearedBehind
    <3>5. SkipsItself'
      BY <1>1, <3>1, <3>3, CalmKeepsOwners DEF SkipsItself, Calm, Same
    <3> QED
      BY <1>1, <3>2, <3>4, <3>5, CalmKeepsOwners DEF Known, NothingYet
  <2> QED
    BY <2>1, <2>2
<1>4. CASE JoinListener("survey")
  <2>1. /\ job.survey.step = "join"
        /\ job'.survey.step = "wait" /\ job'.survey.pipe = job.survey.pipe
        /\ job'.survey.target = listener[job.survey.pipe]
        /\ job'.survey.discon = job.survey.discon
    BY <1>4 DEF JoinListener, TypeOK, ThreadsOK, Job
  <2>2. main = "pause"
    BY <2>1 DEF NothingYet
  <2>3. ClearedBehind'
    BY <1>1, <1>4, <2>1, CalmKeepsOwners DEF ClearedBehind, JoinListener
  <2>4. SkipsItself'
    BY <1>1, <2>1, CalmKeepsOwners DEF SkipsItself, Calm, Same
  <2> QED
    BY <1>1, <2>2, <2>3, <2>4, CalmKeepsOwners DEF Known, NothingYet
<1>5. CASE Joined("survey")
  <2>1. /\ job.survey.step = "wait" /\ thread[job.survey.target].st = "gone"
        /\ NextPipe("survey")
    BY <1>5 DEF Joined
  <2>2. job.survey.target = listener[job.survey.pipe]
    BY <2>1 DEF ClearedBehind
  <2>3. Cleared(job.survey.pipe)
    BY <2>1, <2>2 DEF Cleared, Active
  <2>4. main = "pause"
    BY <2>1 DEF NothingYet
  <2> QED
    BY <1>1, <2>1, <2>3, <2>4, NextPipeKeepsKnown
<1>6. CASE ShutdownDevs("survey")
  <2>1. job.survey.step = "devices" /\ job'.survey.step = "discover"
    BY <1>6 DEF ShutdownDevs, Advance, TypeOK, ThreadsOK, Job
  <2>2. main = "pause"
    BY <2>1 DEF NothingYet
  <2>3. ClearedBehind'
    BY <1>1, <2>1, CalmKeepsOwners DEF ClearedBehind
  <2> QED
    BY <1>1, <2>1, <2>2, <2>3, CalmKeepsOwners DEF Known, NothingYet, SkipsItself
<1> QED
  BY <1>2, <1>3, <1>4, <1>5, <1>6 DEF spiffer_input_shutdown

(* Once every pipe is cleared, nobody listens or is about to.              *)
LEMMA ClearedMeansIdle ==
    ASSUME HandlesKnown, \A p \in Pipes : Cleared(p)
    PROVE  \A t \in Threads : ~ Active(t)
BY DEF HandlesKnown, Owns, Cleared

LEMMA DiscoveryKeepsKnown == ASSUME Inv, usb_discover_devs PROVE Known'
<1> USE DEF Inv
<1>1. /\ job.survey.step = "discover" /\ job'.survey.step = "start"
      /\ UNCHANGED <<main, listener, thread>>
  BY DEF usb_discover_devs, Advance, TypeOK, ThreadsOK, Job
<1>2. main = "pause"
  BY <1>1 DEF NothingYet
<1>3. \A t \in Threads : ~ Active(t)'
  BY <1>1, ClearedMeansIdle DEF ClearedBehind, Active
<1> QED
  BY <1>1, <1>2, <1>3 DEF Known, HandlesKnown, ClearedBehind, Cleared, SkipsItself, NothingYet

LEMMA StartKeepsKnown == ASSUME Inv, StartListeners PROVE Known'
<1> USE DEF Inv
<1>1. /\ job.survey.step = "start" /\ job'.survey.step = "unlock"
      /\ UNCHANGED <<main, params>>
  BY DEF StartListeners, Advance, TypeOK, ThreadsOK, Job, usb_devs
<1>2. main = "pause"
  BY <1>1 DEF NothingYet
<1>3. \A t \in Threads : ~ Active(t)
  BY <1>1, ClearedMeansIdle DEF ClearedBehind
<1>4. PICK dev \in [Pipes -> Pipes] :
         thread' = [t \in Threads |->
             IF \E p \in Pipes : listener'[p] = t
             THEN LET p == CHOOSE p \in Pipes : listener'[p] = t IN NewListener(p, dev[p])
             ELSE thread[t]]
  BY DEF StartListeners
<1>5. ASSUME NEW t \in Threads, Active(t)' PROVE Owns(t)'
  <2>1. \E p \in Pipes : listener'[p] = t
    BY <1>3, <1>4, <1>5 DEF Active
  <2>2. PICK p \in Pipes : listener'[p] = t /\ thread'[t] = NewListener(p, dev[p])
    BY <1>4, <2>1
  <2>3. thread'[t].pipe = p /\ thread'[t].dev = dev[p]
    BY <2>2 DEF NewListener, Gone
  <2>4. /\ thread'[t].kind # "UDP" => dev[p] \in DevsOn(p)
        /\ dev[p] \in DevsOn(p) => thread'[t].kind = Kind[params[dev[p]].cam]
    BY <2>2 DEF NewListener, Gone
  <2> QED
    BY <1>1, <2>2, <2>3, <2>4 DEF Owns, InTable, DevsOn
<1> QED
  BY <1>1, <1>2, <1>5 DEF Known, HandlesKnown, ClearedBehind, SkipsItself, NothingYet

LEMMA UnlockKeepsKnown == ASSUME Inv, Unlock PROVE Known'
<1> USE DEF Inv
<1>1. /\ job.survey.step = "unlock" /\ job'.survey.step = "none"
      /\ UNCHANGED <<main, listener, params>>
  BY DEF Unlock, NoJob, JobFrom, TypeOK, ThreadsOK, usb_devs
<1>2. main = "pause"
  BY <1>1 DEF NothingYet
<1>3. \A t \in Threads : Active(t)' => thread'[t] = thread[t]
  BY DEF Unlock, Active
<1> QED
  BY <1>1, <1>2, <1>3
  DEF Known, HandlesKnown, Owns, InTable, Active, ClearedBehind, SkipsItself, NothingYet

(* What a survey finds when it gets the lock.                              *)
LEMMA LockedSurvey ==
    ASSUME TypeOK, NEW who, NEW dev \in Int, Lock(who, dev)
    PROVE  /\ job'.survey.step = IF dev < NPipes THEN "cancel" ELSE "discover"
           /\ job'.survey.pipe = 0 /\ job'.survey.discon = dev
BY DEF Lock, JobFrom, TypeOK, ThreadsOK

LEMMA LockKeepsKnown ==
    ASSUME Inv, Calm, NEW who, NEW dev \in Int, Lock(who, dev),
           dev # StartUp => dev < NPipes,
           dev = StartUp => \A p \in Pipes : Cleared(p),
           dev # NoDevice => main' = "pause",
           main' # "pause" => main # "pause",
           dev < NPipes => SkipsItself'
    PROVE  Known'
<1> USE SpifferAssumption DEF Inv
<1>1. /\ job'.survey.step = IF dev < NPipes THEN "cancel" ELSE "discover"
      /\ job'.survey.pipe = 0 /\ job'.survey.discon = dev
  BY LockedSurvey
<1>2. dev < NPipes => ClearedBehind'
  BY <1>1 DEF ClearedBehind, Pipes
<1>3. ~ (dev < NPipes) => ClearedBehind' /\ SkipsItself'
  BY <1>1, CalmKeepsOwners DEF ClearedBehind, SkipsItself
<1>4. NothingYet'
  <2>1. CASE main' = "pause"
    BY <2>1 DEF NothingYet
  <2>2. CASE main' # "pause"
    <3>1. main # "pause" /\ dev = NoDevice
      BY <2>2
    <3>2. job'.survey.step = "cancel"
      BY <1>1, <3>1 DEF NoDevice
    <3> QED
      BY <1>1, <3>1, <3>2 DEF NothingYet, Calm
  <2> QED
    BY <2>1, <2>2
<1> QED
  BY <1>2, <1>3, <1>4, CalmKeepsOwners DEF Known

LEMMA DisconnectedKeepsKnown ==
    ASSUME Inv, NEW t \in Threads, Disconnected(t) PROVE Known'
<1> USE SpifferAssumption DEF Inv
<1>1. Calm
  BY ListenerIsCalm
<1>2. UNCHANGED <<main, listener, params>>
  BY DEF Disconnected, SurveyMETA, NotifyCAER, usb_devs
<1>3. CASE Leave
  BY <1>1, <1>2, <1>3, CalmKeepsKnown DEF Leave
<1>4. CASE ~ Leave
  <2>1. /\ Active(t)
        /\ thread[t].dev \in Pipes /\ thread[t].dev \in Int /\ thread[t].dev < NPipes
        /\ \/ Lock("listener", thread[t].dev) /\ Become(t, "surveying") /\ thread[t].kind = "META"
           \/ Lock("camera", thread[t].dev) /\ thread[t].kind = "CAER"
    BY <1>4 DEF Disconnected, SurveyMETA, NotifyCAER, Active, TypeOK, ThreadsOK, Thread, Pipes
  <2>2. Owns(t) /\ InTable(t)
    BY <2>1 DEF HandlesKnown, Owns
  <2>3. main = "pause"
    BY <2>1 DEF NothingYet, Active
  <2>4. thread[t].dev # StartUp /\ thread[t].dev # NoDevice
    BY <2>1 DEF StartUp, NoDevice, Pipes
  <2>5. job'.survey.discon = thread[t].dev
    BY <2>1, LockedSurvey
  <2>6. SkipsItself'
    <3>1. CASE thread[t].kind = "CAER"
      BY <1>2, <2>1, <2>2, <2>5, <3>1 DEF SkipsItself, InTable
    <3>2. CASE Become(t, "surveying") /\ thread[t].kind = "META"
      <4>1. /\ thread'[t].st = "surveying" /\ thread'[t].kind = "META"
            /\ thread'[t].dev = thread[t].dev /\ thread'[t].pipe = thread[t].pipe
        BY <3>2 DEF Become, TypeOK, ThreadsOK, Thread
      <4>2. InTable(t)'
        BY <1>2, <2>2, <3>2, <4>1 DEF InTable
      <4>3. listener'[thread'[t].pipe] = t /\ thread'[t].pipe \in Pipes
        BY <1>2, <2>2, <4>1 DEF Owns
      <4>4. Owns(t)'
        BY <4>2, <4>3 DEF Owns
      <4> QED
        BY <2>5, <4>1, <4>4 DEF SkipsItself
    <3> QED
      BY <2>1, <3>1, <3>2
  <2> QED
    BY <1>1, <1>2, <2>1, <2>3, <2>4, <2>6, LockKeepsKnown
<1> QED
  BY <1>3, <1>4

LEMMA MainKeepsKnown == ASSUME Inv, StartUpSurvey \/ sig_usr1 PROVE Known'
<1> USE SpifferAssumption DEF Inv
<1>1. UNCHANGED <<listener, thread, params>>
  BY DEF StartUpSurvey, sig_usr1, usb_devs
<1>2. Calm
  BY <1>1, UntouchedIsCalm
<1>3. main' # "pause" => main # "pause"
  BY DEF StartUpSurvey, sig_usr1
<1>4. CASE Leave
  BY <1>2, <1>3, <1>4, CalmKeepsKnown DEF Leave
<1>5. CASE StartUpSurvey /\ ~ Leave
  <2>1. Lock("main", StartUp) /\ main = "checked" /\ main' = "pause"
    BY <1>5 DEF StartUpSurvey
  <2>2. \A p \in Pipes : Cleared(p)
    BY <2>1 DEF NothingYet, Cleared, Active
  <2>3. StartUp \in Int /\ ~ (StartUp < NPipes)
    BY DEF StartUp
  <2> QED
    BY <1>2, <1>3, <2>1, <2>2, <2>3, LockKeepsKnown
<1>6. CASE sig_usr1 /\ ~ Leave
  <2>1. Lock("usr1", NoDevice)
    BY <1>6 DEF sig_usr1
  <2>2. NoDevice \in Int /\ NoDevice < NPipes /\ NoDevice # StartUp
    BY DEF NoDevice, StartUp
  <2>3. SkipsItself'
    BY <2>1, <2>2, LockedSurvey DEF SkipsItself
  <2> QED
    BY <1>2, <1>3, <2>1, <2>2, <2>3, LockKeepsKnown
<1> QED
  BY <1>4, <1>5, <1>6

LEMMA NextKeepsInv == ASSUME Inv, [Next]_vars PROVE Inv'
<1> USE DEF Inv
<1>1. TypeOK'
  BY DaemonIsTyped, TableIsTyped, ThreadsAreTyped DEF TypeOK
<1>2. Calm \/ usb_discover_devs \/ StartListeners \/ Unlock
  BY MostAreCalm
<1>3. CASE usb_survey_devs
  <2>1. main' = main
    BY <1>3 DEF usb_survey_devs, spiffer_input_shutdown, SkipListener, CancelListener,
                JoinListener, Joined, ShutdownDevs, usb_discover_devs, StartListeners, Unlock
  <2> QED
    BY <1>1, <1>3, <2>1, ShutdownKeepsKnown, DiscoveryKeepsKnown, StartKeepsKnown,
       UnlockKeepsKnown DEF usb_survey_devs, Known
<1>4. CASE StartUpSurvey \/ sig_usr1
  BY <1>1, <1>4, MainKeepsKnown DEF Known
<1>5. ASSUME NEW t \in Threads, Disconnected(t) PROVE Inv'
  BY <1>1, <1>5, DisconnectedKeepsKnown DEF Known
<1>6. CASE spiffer_stop
  <2>1. Calm
    BY <1>6, ShutdownIsCalm, UntouchedIsCalm DEF spiffer_stop, JoinOutputs, Exit, usb_devs
  <2>2. main' = main
    BY <1>6 DEF spiffer_stop,
                JoinOutputs, Exit, spiffer_input_shutdown, SkipListener, CancelListener,
                JoinListener, Joined, ShutdownDevs
  <2>3. job'.survey = job.survey
    BY <1>6 DEF spiffer_stop,
                JoinOutputs, Exit, spiffer_input_shutdown, SkipListener, CancelListener,
                JoinListener, Joined, ShutdownDevs, NextPipe, Advance, TypeOK, ThreadsOK
  <2> QED
    BY <1>1, <2>1, <2>2, <2>3, CalmKeepsKnown DEF Known
<1>7. CASE sig_term
  <2>1. Calm
    BY <1>7, UntouchedIsCalm DEF sig_term, usb_devs
  <2>2. main' = main /\ job'.survey = job.survey
    BY <1>7 DEF sig_term, TypeOK, ThreadsOK
  <2> QED
    BY <1>1, <2>1, <2>2, CalmKeepsKnown DEF Known
<1>8. ASSUME NEW t \in Threads, ListenerStep(t) PROVE Inv'
  BY <1>1, <1>8, ListenerIsCalm, CalmKeepsKnown DEF ListenerStep, Known
<1>9. ASSUME NEW c \in Cameras, Disconnect(c) PROVE Inv'
  <2>1. \A t \in Threads : thread'[t].st = thread[t].st /\ Same(t)
    BY <1>9 DEF Disconnect, TypeOK, ThreadsOK, Thread, Same
  <2>2. \A d \in Pipes : params'[d].pipe = params[d].pipe /\ params'[d].cam = params[d].cam
    BY <1>9 DEF Disconnect, TypeOK, TableOK, Param
  <2>3. Calm
    BY <1>9, <2>1, <2>2 DEF Disconnect, Calm, Active
  <2> QED
    BY <1>1, <1>9, <2>3, CalmKeepsKnown DEF Disconnect, Known
<1>10. CASE SigInit \/ CheckCount \/ UNCHANGED <<main, listener, thread, params, job>>
  <2>1. UNCHANGED <<listener, thread, params, job>> /\ (main' # "pause" => main # "pause")
    BY <1>10 DEF SigInit, CheckCount, usb_devs
  <2> QED
    BY <1>1, <2>1, UntouchedIsCalm, CalmKeepsKnown DEF Known
<1> QED
  BY <1>3, <1>4, <1>5, <1>6, <1>7, <1>8, <1>9, <1>10
  DEF Next, MainStep, SendUsr1, Usr1Step, SkipUsr1, ReturnUsr1, Usr1Elsewhere, Connect,
      vars, usb_devs

LEMMA InitHasInv == ASSUME Init PROVE Inv
<1>1. TypeOK
  BY InitIsTyped
<1>2. \A t \in Threads : thread[t].st = "gone"
  BY DEF Init, Gone
<1>3. /\ job.survey.step = "none" /\ job.survey.pipe = 0
      /\ job.survey.discon = NoDevice
  BY DEF Init, NoJob, JobFrom
<1>4. \A p \in Pipes : listener[p] = Nobody
  BY DEF Init
<1> QED
  BY <1>1, <1>2, <1>3, <1>4
  DEF Inv, HandlesKnown, Active, ClearedBehind, SkipsItself, NothingYet

(* A thread that listens, or is about to, is the one that the handle of    *)
(* its pipe leads to, and a survey creates listeners only when none is     *)
(* left: the handles that spiffer_input_shutdown cancels and joins         *)
(* (spiffer.cpp:114) are enough to stop them all.                          *)
THEOREM NoListenerEscapes == Spec => []HandlesKnown
<1>1. Init => Inv
  BY InitHasInv
<1>2. Inv /\ [Next]_vars => Inv'
  BY NextKeepsInv
<1>3. Inv => HandlesKnown
  BY DEF Inv
<1> QED
  BY <1>1, <1>2, <1>3, PTL DEF Spec

(* No two threads listen for the same pipe (spiffer.cpp:811), whatever     *)
(* surveys, signals, disconnections and SIGTERM interleave.                *)
THEOREM OneListenerPerPipe == Spec => []SoleListener
<1>1. HandlesKnown => SoleListener
  BY DEF HandlesKnown, SoleListener, Owns, Active, Listens
<1> QED
  BY <1>1, NoListenerEscapes, PTL

---------------------------------------------------------------------------
(* Cameras and serial numbers *)

Films(t) == Active(t) /\ thread[t].kind # "UDP"

(* The lock is held while a survey runs, a stop runs in its handler, and   *)
(* the table is empty until the start-up survey.                           *)
LockInv ==
    /\ usb_mtx = "free" => job.survey.step = "none"
    /\ job.stop.step # "none" => Handling("term")
    /\ main # "pause" => cnt = 0

(* usb_sort_pipes has given each camera a pipe of its own, in the order of *)
(* the serial numbers.                                                     *)
TableSorted ==
    /\ \A d \in Devs : params[d].pipe \in Pipes
    /\ \A d, e \in Devs :
          /\ params[d].cam < params[e].cam => params[d].pipe < params[e].pipe
          /\ params[d].cam = params[e].cam => d = e

(* A listener films the camera that the table has at its index.            *)
CamInv ==
    \A t \in Threads : Films(t) =>
        /\ thread[t].dev \in Devs
        /\ thread[t].st # "new" => thread[t].cam = params[thread[t].dev].cam

LEMMA LowerSerialLowerPipe ==
    ASSUME TableOK, NEW n \in Nat, NEW f \in Found(n), NEW d \in 0 .. n - 1
    PROVE  /\ f[d] \in Discoverable /\ f[d] \in Nat
           /\ PipeOf(f, d) \in 0 .. n - 1
           /\ \A e \in 0 .. n - 1 : f[d] < f[e] => PipeOf(f, d) < PipeOf(f, e)
<1> DEFINE Below(e) == {g \in 0 .. n - 1 : f[g] < f[e]}
<1>1. /\ DOMAIN f = 0 .. n - 1
      /\ \A e \in 0 .. n - 1 : f[e] \in Discoverable /\ f[e] \in Nat
  BY DiscoverableIsFinite, SpifferAssumption DEF Found
<1>2. /\ IsFiniteSet(0 .. n - 1) /\ Cardinality(0 .. n - 1) = n
  BY FS_Interval
<1>3. \A e : /\ PipeOf(f, e) = Cardinality(Below(e))
             /\ IsFiniteSet(Below(e)) /\ Cardinality(Below(e)) \in Nat
  <2> TAKE e
  <2>1. Below(e) \in SUBSET (0 .. n - 1)
    OBVIOUS
  <2>2. IsFiniteSet(Below(e))
    BY <1>2, <2>1, FS_Subset
  <2> QED
    BY <1>1, <2>2, FS_CardinalityType DEF PipeOf
<1>4. PipeOf(f, d) \in 0 .. n - 1
  <2>1. /\ IsFiniteSet((0 .. n - 1) \ {d})
        /\ Cardinality((0 .. n - 1) \ {d}) = n - 1
    BY <1>2, FS_RemoveElement
  <2>2. Below(d) \in SUBSET ((0 .. n - 1) \ {d})
    BY <1>1
  <2>3. Cardinality(Below(d)) <= n - 1
    BY <2>1, <2>2, FS_Subset
  <2> HIDE DEF Below
  <2> QED
    BY <1>3, <2>3
<1>5. ASSUME NEW e \in 0 .. n - 1, f[d] < f[e] PROVE PipeOf(f, d) < PipeOf(f, e)
  <2>1. Below(d) \in SUBSET Below(e)
    <3>1. f[d] \in Nat /\ f[e] \in Nat /\ \A g \in 0 .. n - 1 : f[g] \in Nat
      BY <1>1
    <3> QED
      BY <1>5, <3>1
  <2>2. d \in Below(e) /\ d \notin Below(d)
    BY <1>1, <1>5
  <2>3. /\ Cardinality(Below(d)) <= Cardinality(Below(e))
        /\ Cardinality(Below(d)) # Cardinality(Below(e))
    BY <1>3, <2>1, <2>2, FS_Subset
  <2> HIDE DEF Below
  <2> QED
    BY <1>3, <2>3
<1> QED
  BY <1>1, <1>4, <1>5

LEMMA DiscoverySorts == ASSUME Inv, usb_discover_devs PROVE TableSorted'
<1> USE SpifferAssumption DEF Inv, TypeOK
<1>1. PICK f \in Found(FoundCount) :
         params' = [d \in Pipes |->
                       IF d \in DOMAIN f
                       THEN [cam |-> f[d], pipe |-> PipeOf(f, d), hdl |-> "open"]
                       ELSE params[d]]
  BY DEF usb_discover_devs
<1>2. /\ FoundCount \in Nat /\ FoundCount <= NPipes /\ Devs' = 0 .. FoundCount - 1
      /\ DOMAIN f = 0 .. FoundCount - 1
      /\ \A d, e \in 0 .. FoundCount - 1 : f[d] = f[e] => d = e
  BY DiscoverableIsFinite DEF usb_discover_devs, Devs, Found
<1>3. \A d \in Devs' : /\ d \in Pipes
                       /\ params'[d].cam = f[d] /\ params'[d].pipe = PipeOf(f, d)
                       /\ PipeOf(f, d) \in Pipes
  <2> SUFFICES ASSUME NEW d \in 0 .. FoundCount - 1
               PROVE  /\ d \in Pipes
                      /\ params'[d].cam = f[d] /\ params'[d].pipe = PipeOf(f, d)
                      /\ PipeOf(f, d) \in Pipes
    BY <1>2
  <2>1. d \in Pipes /\ PipeOf(f, d) \in Pipes
    BY <1>2, LowerSerialLowerPipe DEF Pipes
  <2> QED
    BY <1>1, <1>2, <2>1
<1>4. \A d, e \in Devs' : f[d] < f[e] => PipeOf(f, d) < PipeOf(f, e)
  BY <1>2, LowerSerialLowerPipe
<1> QED
  BY <1>2, <1>3, <1>4 DEF TableSorted

(* Who listens keeps its camera; who starts to takes it from the table.    *)
CamKept(t) ==
    thread'[t].st # "new" =>
        \/ thread[t].st # "new" /\ thread'[t].cam = thread[t].cam
        \/ thread'[t].cam = params[thread[t].dev].cam

LEMMA CamerasAreKept ==
    ASSUME TypeOK, HandlesKnown, [Next]_vars, ~ StartListeners, NEW t \in Threads, Films(t)'
    PROVE  Films(t) /\ CamKept(t)
<1> USE DEF TypeOK, ThreadsOK, Thread, Films, CamKept
<1>1. CASE thread'[t] = thread[t]
  BY <1>1 DEF Active
<1>2. ASSUME NEW u \in Threads, ListenerStep(u) \/ Disconnected(u), thread'[t] # thread[t]
      PROVE  Films(t) /\ CamKept(t)
  <2>1. t = u /\ Calm
    BY <1>2, ListenerIsCalm
    DEF ListenerStep, StartUDP, StartCAER, StartMETA, Cancelled, WaitFails, ShutdownMETA,
        Disconnected, SurveyMETA, NotifyCAER, Become, Opened
  <2>2. Films(t)
    BY <2>1 DEF Calm, Same
  <2>3. CASE StartCAER(t) \/ StartMETA(t)
    BY <1>2, <2>3 DEF StartCAER, StartMETA, Opened, Gone, Active
  <2>4. CASE WaitFails(t) \/ ShutdownMETA(t) \/ Disconnected(t)
    <3>1. \E st \in {"failed", "paused", "surveying", "surveyed"} : Become(t, st)
      BY <2>4 DEF WaitFails, ShutdownMETA, Disconnected, SurveyMETA, NotifyCAER
    <3>2. thread'[t].cam = thread[t].cam
      BY <3>1 DEF Become
    <3>3. thread[t].st # "new"
      BY <2>4 DEF WaitFails, ShutdownMETA, Disconnected, SurveyMETA, NotifyCAER
    <3> QED
      BY <2>2, <3>2, <3>3
  <2>5. CASE StartUDP(t) \/ Cancelled(t)
    BY <1>2, <2>5, <2>2 DEF StartUDP, Cancelled, Gone, Active, Become
  <2> QED
    BY <1>2, <2>1, <2>2, <2>3, <2>4, <2>5 DEF ListenerStep
<1>3. CASE /\ thread'[t].st = thread[t].st /\ thread'[t].kind = thread[t].kind
           /\ thread'[t].cam = thread[t].cam
  BY <1>3 DEF Active
<1>4. ASSUME NEW j \in {"survey", "stop"}, CancelListener(j)
      PROVE  thread'[t] = thread[t] \/ thread'[t] = [thread[t] EXCEPT !.cancelled = TRUE]
  BY <1>4 DEF CancelListener
<1>5. CASE Unlock
  BY <1>5 DEF Unlock, Active
<1>6. ASSUME NEW c \in Cameras, Disconnect(c)
      PROVE  thread'[t] = thread[t] \/ thread'[t] = [thread[t] EXCEPT !.broken = TRUE]
  BY <1>6 DEF Disconnect
<1> QED
  BY <1>1, <1>2, <1>3, <1>4, <1>5, <1>6
  DEF Next, MainStep, SigInit, CheckCount, StartUpSurvey, usb_survey_devs,
      spiffer_input_shutdown, SkipListener, JoinListener, Joined, ShutdownDevs,
      usb_discover_devs, SendUsr1,
      Usr1Step, SkipUsr1, sig_usr1, ReturnUsr1, Usr1Elsewhere, sig_term, spiffer_stop,
      JoinOutputs, Exit,
      Connect, vars

LEMMA TableStands ==
    ASSUME TypeOK, HandlesKnown, [Next]_vars, ~ usb_discover_devs
    PROVE  /\ cnt' = cnt
           /\ \A d \in Pipes : params'[d].pipe = params[d].pipe /\ params'[d].cam = params[d].cam
<1>1. cnt' = cnt
  BY DEF Next, MainStep, SigInit, CheckCount, StartUpSurvey, usb_survey_devs,
      spiffer_input_shutdown, SkipListener, CancelListener, JoinListener, Joined, ShutdownDevs,
      StartListeners, Unlock, SendUsr1,
      Usr1Step, SkipUsr1, sig_usr1, ReturnUsr1, Usr1Elsewhere, sig_term, spiffer_stop,
      JoinOutputs, Exit,
      ListenerStep, StartUDP, StartCAER, StartMETA, Cancelled, WaitFails, ShutdownMETA,
      Disconnected, SurveyMETA, NotifyCAER, Connect, Disconnect, vars, usb_devs
<1>2. CASE Calm
  BY <1>1, <1>2 DEF Calm
<1>3. CASE StartListeners \/ Unlock
  BY <1>1, <1>3 DEF StartListeners, Unlock, usb_devs
<1> QED
  BY <1>2, <1>3, MostAreCalm

(* spiffer_stop does not return to what it interrupted.                    *)
LEMMA TermStays ==
    ASSUME TypeOK, [Next]_vars, Handling("term") PROVE Handling("term")'
<1> USE DEF TypeOK
<1>1. CASE sig_usr1
  <2>1. handlers' = <<"usr1">> \o handlers /\ handlers \in Seq({"usr1", "term"})
    BY <1>1 DEF sig_usr1, DaemonOK
  <2>2. \A i \in 1 .. Len(handlers) :
           i + 1 \in 1 .. Len(handlers') /\ handlers'[i + 1] = handlers[i]
    BY <2>1
  <2> QED
    BY <2>2 DEF Handling
<1>2. CASE sig_term /\ handlers' # handlers
  <2>1. handlers' = <<"term">> \o handlers /\ handlers \in Seq({"usr1", "term"})
    BY <1>2 DEF sig_term, DaemonOK
  <2>2. 1 \in 1 .. Len(handlers') /\ handlers'[1] = "term"
    BY <2>1
  <2> QED
    BY <2>2 DEF Handling
<1>3. CASE ReturnUsr1
  <2>1. handlers \in Seq({"usr1", "term"}) /\ handlers # <<>> /\ handlers[1] = "usr1"
        /\ handlers' = Tail(handlers)
    BY <1>3 DEF ReturnUsr1, DaemonOK, Top
  <2>2. \A i \in 1 .. Len(handlers) : i # 1 =>
           i - 1 \in 1 .. Len(handlers') /\ handlers'[i - 1] = handlers[i]
    BY <2>1
  <2> QED
    BY <2>1, <2>2 DEF Handling
<1>4. CASE UNCHANGED handlers
  BY <1>4 DEF Handling
<1> QED
  BY <1>1, <1>2, <1>3, <1>4 DEF signals, sig_term,
      Next, MainStep, SigInit, CheckCount, StartUpSurvey, usb_survey_devs,
      spiffer_input_shutdown, SkipListener, CancelListener, JoinListener, Joined,
      ShutdownDevs, usb_discover_devs, StartListeners, Unlock, SendUsr1,
      Usr1Step, SkipUsr1, Usr1Elsewhere, spiffer_stop, JoinOutputs, Exit,
      ListenerStep, Disconnected, SurveyMETA, NotifyCAER, Connect, Disconnect, vars

LEMMA LockSteps ==
    ASSUME Inv, LockInv, [Next]_vars PROVE LockInv'
<1> USE DEF Inv, TypeOK, ThreadsOK
<1>1. main' # "pause" => cnt' = 0
  <2>1. CASE usb_discover_devs
    BY <2>1 DEF usb_discover_devs, NothingYet
  <2>2. CASE ~ usb_discover_devs
    <3>1. main' # "pause" => main # "pause"
      BY DEF Next, MainStep, SigInit, CheckCount, StartUpSurvey, usb_survey_devs,
          spiffer_input_shutdown, SkipListener, CancelListener, JoinListener, Joined,
          ShutdownDevs, usb_discover_devs, StartListeners, Unlock, SendUsr1,
          Usr1Step, SkipUsr1, sig_usr1, ReturnUsr1, Usr1Elsewhere, sig_term, spiffer_stop,
          JoinOutputs, Exit,
          ListenerStep, Disconnected, SurveyMETA, NotifyCAER, Connect, Disconnect, vars
    <3> QED
      BY <2>2, <3>1, TableStands DEF LockInv
  <2> QED
    BY <2>1, <2>2
<1>2. usb_mtx' = "free" => job'.survey.step = "none"
  <2>1. CASE job'.survey = job.survey /\ usb_mtx' = usb_mtx
    BY <2>1 DEF LockInv
  <2>2. CASE spiffer_input_shutdown("survey") \/ usb_discover_devs \/ StartListeners
    <3>1. job.survey.step # "none" /\ usb_mtx' = usb_mtx
      BY <2>2 DEF spiffer_input_shutdown, SkipListener, CancelListener, JoinListener, Joined,
          ShutdownDevs, usb_discover_devs, StartListeners
    <3> QED
      BY <3>1 DEF LockInv
  <2>3. CASE Unlock
    BY <2>3 DEF Unlock, NoJob, JobFrom
  <2>4. ASSUME NEW who \in {"main", "usr1", "listener", "camera"}, NEW dev, Lock(who, dev)
        PROVE  usb_mtx' # "free"
    BY <2>4 DEF Lock
  <2>5. CASE Leave
    BY <2>5 DEF Leave, LockInv
  <2>6. CASE spiffer_input_shutdown("stop")
    BY <2>6 DEF LockInv, spiffer_input_shutdown, SkipListener, CancelListener, JoinListener,
        Joined, ShutdownDevs, NextPipe, Advance
  <2>7. CASE sig_term \/ JoinOutputs
    BY <2>7 DEF LockInv, sig_term, JoinOutputs, Advance
  <2>8. CASE StartUpSurvey \/ sig_usr1
    BY <2>4, <2>5, <2>8 DEF StartUpSurvey, sig_usr1
  <2>9. ASSUME NEW t \in Threads, Disconnected(t)
        PROVE  usb_mtx' = "free" => job'.survey.step = "none"
    BY <2>4, <2>5, <2>9 DEF Disconnected, SurveyMETA, NotifyCAER
  <2> QED
    BY <2>1, <2>2, <2>3, <2>6, <2>7, <2>8, <2>9
    DEF Next, MainStep, SigInit, CheckCount, usb_survey_devs, SendUsr1,
        Usr1Step, SkipUsr1, ReturnUsr1, Usr1Elsewhere, spiffer_stop, Exit,
        ListenerStep, Connect, Disconnect, vars
<1>3. job'.stop.step # "none" => Handling("term")'
  <2>2. sig_term /\ job' # job => Handling("term")'
    <3> SUFFICES ASSUME sig_term, job' # job PROVE Handling("term")'
      BY TermStays DEF LockInv
    <3>1. handlers' = <<"term">> \o handlers /\ handlers \in Seq({"usr1", "term"})
      BY DEF sig_term, DaemonOK
    <3>2. 1 \in 1 .. Len(handlers') /\ handlers'[1] = "term"
      BY <3>1
    <3> QED
      BY <3>2 DEF Handling
  <2>3. ~ sig_term => job'.stop = job.stop \/ job.stop.step # "none"
    BY DEF Next, MainStep, SigInit, CheckCount, StartUpSurvey, usb_survey_devs,
        spiffer_input_shutdown, SkipListener, CancelListener, JoinListener, Joined,
        ShutdownDevs, usb_discover_devs, StartListeners, Unlock, SendUsr1, NextPipe, Advance,
        Usr1Step, SkipUsr1, sig_usr1, ReturnUsr1, Usr1Elsewhere, spiffer_stop,
        JoinOutputs, Exit,
        ListenerStep, Disconnected, SurveyMETA, NotifyCAER, Lock, Leave, Connect, Disconnect,
        vars
  <2>4. job' = job => (job.stop.step # "none" => Handling("term")')
    BY TermStays DEF LockInv
  <2> QED
    BY <2>2, <2>3, <2>4, TermStays DEF LockInv
<1> QED
  BY <1>1, <1>2, <1>3 DEF LockInv

SerialInv == Inv /\ LockInv /\ TableSorted /\ CamInv

LEMMA NextKeepsSerialInv == ASSUME SerialInv, [Next]_vars PROVE SerialInv'
<1> USE DEF SerialInv
<1>1. Inv' /\ LockInv'
  BY NextKeepsInv, LockSteps
<1>2. TableSorted'
  <2>1. CASE usb_discover_devs
    BY <2>1, DiscoverySorts
  <2>2. CASE ~ usb_discover_devs
    <3>1. Devs' = Devs /\ Devs \subseteq Pipes
      BY <2>2, TableStands, SpifferAssumption DEF Inv, TypeOK, TableOK, Devs, Pipes
    <3> QED
      BY <2>2, <3>1, TableStands DEF Inv, TableSorted
  <2> QED
    BY <2>1, <2>2
<1>3. ASSUME NEW t \in Threads, Films(t)'
      PROVE  /\ thread'[t].dev \in Devs'
             /\ thread'[t].st # "new" => thread'[t].cam = params'[thread'[t].dev].cam
  <2>1. CASE StartListeners
    <3>1. job.survey.step = "start" /\ Devs' = Devs
      BY <2>1 DEF StartListeners, usb_devs, Devs
    <3>2. ~ Active(t)
      BY <3>1, ClearedMeansIdle DEF Inv, ClearedBehind
    <3>3. PICK dev \in [Pipes -> Pipes] :
             thread' = [u \in Threads |->
                 IF \E p \in Pipes : listener'[p] = u
                 THEN LET p == CHOOSE p \in Pipes : listener'[p] = u IN NewListener(p, dev[p])
                 ELSE thread[u]]
      BY <2>1 DEF StartListeners
    <3>4. PICK p \in Pipes : thread'[t] = NewListener(p, dev[p])
      BY <1>3, <3>2, <3>3 DEF Films, Active
    <3>5. thread'[t].st = "new" /\ thread'[t].dev = dev[p] /\ dev[p] \in DevsOn(p)
      BY <1>3, <3>4 DEF NewListener, Gone, Films
    <3> QED
      BY <3>1, <3>5 DEF DevsOn
  <2>2. CASE ~ StartListeners
    <3>1. Films(t) /\ CamKept(t)
      BY <1>3, <2>2, CamerasAreKept DEF Inv
    <3>2. thread[t].dev \in Devs /\ thread[t].dev \in Pipes
      BY <3>1 DEF CamInv, Inv, TypeOK, ThreadsOK, Thread
    <3>3. ~ usb_discover_devs
      BY <3>1, ClearedMeansIdle DEF usb_discover_devs, Inv, ClearedBehind, Films
    <3>4. thread'[t].dev = thread[t].dev
      <4>1. CASE Calm
        BY <1>3, <4>1 DEF Calm, Films, Same
      <4>2. CASE Unlock
        BY <3>1, <4>2 DEF Unlock, Films, Active
      <4> QED
        BY <2>2, <3>3, <4>1, <4>2, MostAreCalm DEF Inv
    <3>5. Devs' = Devs /\ params'[thread[t].dev].cam = params[thread[t].dev].cam
      BY <3>2, <3>3, TableStands DEF Devs, Inv
    <3> QED
      BY <3>1, <3>2, <3>4, <3>5 DEF CamKept, CamInv
  <2> QED
    BY <2>1, <2>2
<1> QED
  BY <1>1, <1>2, <1>3 DEF CamInv

LEMMA SerialInvHolds == Spec => []SerialInv
<1>1. Init => Inv
  BY InitHasInv
<1>2. Init => LockInv /\ TableSorted /\ CamInv
  BY DEF Init, LockInv, TableSorted, CamInv, Devs, Films, Active, NoJob, JobFrom, Gone
<1>3. SerialInv /\ [Next]_vars => SerialInv'
  BY NextKeepsSerialInv
<1> QED
  BY <1>1, <1>2, <1>3, PTL DEF Spec, SerialInv

(* Of two threads that listen to cameras, the one with the lower serial    *)
(* number fills the lower pipe ("sorts USB cameras by serial number and    *)
(* connects the lower number to pipe0", README of spiffer), also while     *)
(* listeners of an earlier survey still run.                               *)
THEOREM LowerSerialNumberFirst == Spec => []SortedBySerial
<1>1. SerialInv => SortedBySerial
  <2> SUFFICES ASSUME SerialInv, NEW t \in Threads, NEW u \in Threads,
                      Listens(t), thread[t].kind # "UDP",
                      Listens(u), thread[u].kind # "UDP",
                      thread[t].cam < thread[u].cam
               PROVE  thread[t].pipe < thread[u].pipe
    BY DEF SortedBySerial
  <2>1. Films(t) /\ Films(u)
    BY DEF Films, Active, Listens
  <2>2. /\ thread[t].dev \in Devs /\ thread[t].cam = params[thread[t].dev].cam
        /\ thread[u].dev \in Devs /\ thread[u].cam = params[thread[u].dev].cam
    BY <2>1 DEF SerialInv, CamInv, Listens
  <2>3. /\ params[thread[t].dev].pipe = thread[t].pipe
        /\ params[thread[u].dev].pipe = thread[u].pipe
    BY <2>1 DEF SerialInv, Inv, HandlesKnown, Films, Owns, InTable
  <2> QED
    BY <2>2, <2>3 DEF SerialInv, TableSorted
<1> QED
  BY <1>1, SerialInvHolds, PTL

---------------------------------------------------------------------------
(* Shutdowns and the threads they cancel *)

Created == \A p \in Pipes : listener[p] \in Threads

(* A survey writes all handles, and the threads behind them survey only    *)
(* then.  The start-up survey has no listeners to shut down.               *)
StartedUp ==
    /\ (\A p \in Pipes : listener[p] = Nobody) \/ Created
    /\ (\E t \in Threads : thread[t].st # "gone") => Created
    /\ usb_mtx \in {"camera", "listener"} => Created
    /\ usb_mtx = "main" => job.survey.step \in {"discover", "start", "unlock"}

LEMMA CalmKeepsStartedUp ==
    ASSUME StartedUp, Calm, UNCHANGED usb_mtx, job'.survey = job.survey PROVE StartedUp'
  BY DEF StartedUp, Calm, Created

LEMMA NextKeepsStartedUp == ASSUME SerialInv, StartedUp, [Next]_vars PROVE StartedUp'
<1> USE DEF SerialInv, Inv, TypeOK, ThreadsOK
<1>1. CASE StartUpSurvey
  <2>1. UNCHANGED <<thread, listener>>
    BY <1>1 DEF StartUpSurvey
  <2>2. CASE Lock("main", StartUp)
    <3>1. usb_mtx' = "main" /\ job'.survey.step = "discover"
      BY <2>2, LockedSurvey, SpifferAssumption DEF Lock, StartUp
    <3> QED
      BY <2>1, <3>1 DEF StartedUp, Created
  <2>3. CASE Leave
    BY <2>1, <2>3 DEF Leave, StartedUp, Created
  <2> QED
    BY <1>1, <2>2, <2>3 DEF StartUpSurvey
<1>2. CASE usb_discover_devs
  BY <1>2 DEF usb_discover_devs, Advance, StartedUp, Created
<1>3. CASE StartListeners
  <2>1. Created'
    BY <1>3 DEF StartListeners, Handles, Unused, Created
  <2> QED
    BY <1>3, <2>1 DEF StartListeners, Advance, StartedUp
<1>4. CASE Unlock
  <2>1. \A t \in Threads : thread'[t].st # "gone" => thread[t].st # "gone"
    BY <1>4 DEF Unlock
  <2> QED
    BY <1>4, <2>1 DEF Unlock, StartedUp, Created
<1>5. CASE spiffer_input_shutdown("survey")
  <2>1. usb_mtx # "main"
    BY <1>5 DEF spiffer_input_shutdown, SkipListener, CancelListener, JoinListener, Joined,
                ShutdownDevs, StartedUp
  <2>2. UNCHANGED usb_mtx
    BY <1>5 DEF spiffer_input_shutdown, SkipListener, CancelListener, JoinListener, Joined,
                ShutdownDevs
  <2> QED
    BY <1>5, <2>1, <2>2, ShutdownIsCalm DEF StartedUp, Created, Calm
<1>6. CASE SendUsr1 \/ sig_term \/ ReturnUsr1 \/ SkipUsr1 \/ Usr1Elsewhere
  BY <1>6 DEF SendUsr1, sig_term, ReturnUsr1, SkipUsr1, Usr1Elsewhere, StartedUp, Created
<1>7. CASE sig_usr1
  BY <1>7 DEF sig_usr1, Lock, Leave, StartedUp, Created
<1>8. ASSUME NEW t \in Threads, Disconnected(t) PROVE StartedUp'
  <2>1. Created /\ listener' = listener
    BY <1>8 DEF Disconnected, SurveyMETA, NotifyCAER, StartedUp
  <2>2. UNCHANGED <<usb_mtx, job>> \/ usb_mtx' # "main"
    BY <1>8 DEF Disconnected, SurveyMETA, NotifyCAER, Lock, Leave
  <2> QED
    BY <2>1, <2>2 DEF StartedUp, Created
<1>9. ASSUME NEW t \in Threads, ListenerStep(t) PROVE StartedUp'
  BY <1>9, ListenerIsCalm, CalmKeepsStartedUp DEF ListenerStep
<1>10. CASE spiffer_stop
  <2>1. UNCHANGED usb_mtx /\ job'.survey = job.survey
    BY <1>10 DEF spiffer_stop, JoinOutputs, Exit, spiffer_input_shutdown, SkipListener,
                 CancelListener, JoinListener, Joined, ShutdownDevs, NextPipe, Advance
  <2>2. CASE spiffer_input_shutdown("stop")
    BY <2>1, <2>2, ShutdownIsCalm, CalmKeepsStartedUp
  <2>3. CASE JoinOutputs \/ Exit
    BY <2>1, <2>3 DEF JoinOutputs, Exit, StartedUp, Created
  <2> QED
    BY <1>10, <2>2, <2>3 DEF spiffer_stop
<1>11. ASSUME NEW c \in Cameras, Disconnect(c) PROVE StartedUp'
  <2>1. \A t \in Threads : thread'[t].st = thread[t].st
    BY <1>11 DEF Disconnect
  <2> QED
    BY <1>11, <2>1 DEF Disconnect, StartedUp, Created
<1>12. CASE UNCHANGED <<thread, usb_mtx, listener, job>>
  BY <1>12 DEF StartedUp, Created
<1> QED
  BY <1>1, <1>2, <1>3, <1>4, <1>5, <1>6, <1>7, <1>8, <1>9, <1>10, <1>11, <1>12
  DEF Next, MainStep, SigInit, CheckCount, usb_survey_devs, Usr1Step, Connect, vars

(* A shutdown that finds no thread is that of a signal handler, before the *)
(* first survey has created the listeners.                                 *)
LEMMA CancelOfNobody ==
    ASSUME SerialInv, StartedUp, NEW j \in {"survey", "stop"}, Scheduled(j),
           CancelListener(j), listener[job[j].pipe] = Nobody
    PROVE  handlers # <<>> /\ \A p \in Pipes : listener[p] = Nobody
<1> USE DEF SerialInv, Inv, TypeOK, ThreadsOK
<1>1. job[j].step = "cancel" /\ job[j].pipe \in Pipes
  BY DEF CancelListener, Job
<1>2. ~ Created
  BY <1>1 DEF Created, Threads, Nobody
<1>3. CASE j = "stop"
  BY <1>2, <1>3 DEF Scheduled, Top, StartedUp
<1>4. CASE j = "survey"
  BY <1>1, <1>2, <1>4 DEF Scheduled, Top, StartedUp
<1> QED
  BY <1>3, <1>4

(* A daemon that has crashed does nothing. *)
LEMMA CrashIsFinal ==
    ASSUME process = "crashed", [Next]_vars PROVE UNCHANGED <<handlers, listener>>
  BY DEF Running, Scheduled, Deliver, signals,
         Next, MainStep, SigInit, CheckCount, StartUpSurvey, usb_survey_devs,
         spiffer_input_shutdown, SendUsr1, Usr1Step, SkipUsr1, sig_usr1, ReturnUsr1,
         Usr1Elsewhere, sig_term, spiffer_stop, JoinOutputs, Exit, ListenerStep, Disconnected,
         SurveyMETA, NotifyCAER, vars

LEMMA NextMayCrash ==
    ASSUME \A c \in Cameras : Kind[c] = "CAER",
           SerialInv, StartedUp, CrashesOnlyAtStartUp, [Next]_vars
    PROVE  CrashesOnlyAtStartUp'
<1>1. ASSUME NEW t \in Threads, StartMETA(t) PROVE FALSE
  <2>1. Films(t) /\ thread[t].kind = "META"
    BY <1>1 DEF StartMETA, Films, Active
  <2>2. thread[t].dev \in Devs /\ Kind[params[thread[t].dev].cam] = "META"
    BY <2>1 DEF SerialInv, CamInv, Inv, HandlesKnown, Films, Owns, InTable
  <2> QED
    BY <2>2 DEF SerialInv, Inv, TypeOK, TableOK, Devs
<1>2. CASE process = "crashed"
  BY <1>2, CrashIsFinal DEF CrashesOnlyAtStartUp
<1>3. CASE process # "crashed" /\ process' = "crashed"
  <2>1. PICK j \in {"survey", "stop"} : Scheduled(j) /\ CancelListener(j)
    BY <1>1, <1>3
    DEF Next, MainStep, SigInit, CheckCount, StartUpSurvey, usb_survey_devs,
        spiffer_input_shutdown, SkipListener, JoinListener, Joined, ShutdownDevs,
        usb_discover_devs, StartListeners, Unlock, SendUsr1,
        Usr1Step, SkipUsr1, sig_usr1, ReturnUsr1, Usr1Elsewhere, sig_term, spiffer_stop,
        JoinOutputs, Exit,
        ListenerStep, StartUDP, StartCAER, Cancelled, WaitFails, ShutdownMETA,
        Disconnected, SurveyMETA, NotifyCAER, Connect, Disconnect, vars
  <2>2. listener[job[j].pipe] = Nobody /\ UNCHANGED <<handlers, listener>>
    BY <1>3, <2>1 DEF CancelListener, signals
  <2> QED
    BY <2>1, <2>2, CancelOfNobody DEF CrashesOnlyAtStartUp
<1> QED
  BY <1>2, <1>3 DEF CrashesOnlyAtStartUp

(* With iniVation cameras a shutdown (spiffer.cpp:101) touches a thread    *)
(* that does not exist in one case only: in the handler of a signal that   *)
(* comes before the first survey has created the listeners.  Later it does *)
(* not, whoever surveys, however often cameras come and go, and also when  *)
(* SIGTERM stops the daemon in the middle of a survey.                     *)
THEOREM CaerCrashesOnlyAtStartUp ==
    ASSUME \A c \in Cameras : Kind[c] = "CAER"
    PROVE  Spec => []CrashesOnlyAtStartUp
<1>1. Init => StartedUp /\ CrashesOnlyAtStartUp
  BY DEF Init, StartedUp, CrashesOnlyAtStartUp, Gone
<1>2. SerialInv /\ StartedUp /\ CrashesOnlyAtStartUp /\ [Next]_vars
        => StartedUp' /\ CrashesOnlyAtStartUp'
  BY NextKeepsStartedUp, NextMayCrash
<1> QED
  BY <1>1, <1>2, SerialInvHolds, PTL DEF Spec

---------------------------------------------------------------------------
(* Cameras that come and go *)

Looking == job.survey.step \in {"cancel", "join", "wait", "devices", "discover"}

(* Only a survey that is not over, or a stop, cancels listeners.           *)
CancelInv ==
    \A t \in Threads : Active(t) /\ thread[t].cancelled =>
        Handling("term") \/ job.survey.step \in {"cancel", "join", "wait"}

(* The thread fills its pipe, or will, or will survey.                     *)
Willing(t) ==
    \/ thread[t].st \in {"new", "listening"}
    \/ thread[t].st = "failed" /\ thread[t].kind = "META"

Manned(p) ==
    /\ listener[p] \in Threads
    /\ Willing(listener[p])
    /\ thread[listener[p]].pipe = p
    /\ DevsOn(p) # {} => thread[listener[p]].kind # "UDP"

Settled ==
    /\ ~ Looking /\ job.survey.step # "start" /\ main = "pause"
    /\ ~ overlooked /\ ~ Handling("term")

AllManned == Settled => \A p \in Pipes : Manned(p)

(* The camera of the table has gone, and nobody has acted on it yet.       *)
Lost(d) ==
    LET t == listener[params[d].pipe] IN
    IF job.survey.step = "start" THEN params[d].hdl # "open"
    ELSE /\ t \in Threads
         /\ \/ thread[t].st = "new" /\ params[d].hdl # "open"
            \/ thread[t].st = "listening" /\ thread[t].broken
            \/ thread[t].st = "failed"

(* A discovery is still to come, or a change has been overlooked.          *)
Due ==
    \/ owed > 0 \/ pending \/ Looking \/ main # "pause" \/ Handling("term") \/ overlooked
    \/ \E d \in Devs : Lost(d)

Table   == {params[d].cam : d \in Devs}
Current == Table \subseteq Discoverable /\ cnt = FoundCount
Fresh   == ~ Due => Current

SwitchInv == SerialInv /\ CancelInv /\ AllManned /\ Fresh

(* Only a survey creates listeners.                                        *)
LEMMA ActiveBefore ==
    ASSUME TypeOK, HandlesKnown, [Next]_vars, ~ StartListeners, NEW t \in Threads, Active(t)'
    PROVE  /\ Active(t) /\ thread'[t].kind = thread[t].kind
           /\ thread'[t].pipe = thread[t].pipe /\ thread'[t].dev = thread[t].dev
<1>1. CASE Calm
  BY <1>1 DEF Calm, Same
<1>2. CASE usb_discover_devs
  BY <1>2 DEF usb_discover_devs, Active
<1>3. CASE Unlock
  <2>1. thread'[t] = thread[t]
    BY <1>3 DEF Unlock, TypeOK, ThreadsOK, Active
  <2> QED
    BY <2>1 DEF Active
<1> QED
  BY <1>1, <1>2, <1>3, MostAreCalm

LEMMA SurveySteps ==
    ASSUME SerialInv, [Next]_vars
    PROVE  \/ job'.survey.step = job.survey.step
           \/ /\ job.survey.step \in {"cancel", "join", "wait"}
              /\ job'.survey.step \in {"cancel", "join", "wait", "devices"}
           \/ job.survey.step = "devices" /\ job'.survey.step = "discover"
           \/ usb_discover_devs /\ job.survey.step = "discover" /\ job'.survey.step = "start"
           \/ StartListeners /\ job.survey.step = "start" /\ job'.survey.step = "unlock"
           \/ Unlock /\ job.survey.step = "unlock" /\ job'.survey.step = "none"
           \/ job.survey.step = "none" /\ job'.survey.step \in {"cancel", "discover"}
<1> USE DEF SerialInv, Inv, TypeOK, ThreadsOK, Job
<1>1. /\ usb_discover_devs => job.survey.step = "discover" /\ job'.survey.step = "start"
      /\ StartListeners => job.survey.step = "start" /\ job'.survey.step = "unlock"
      /\ Unlock => job.survey.step = "unlock" /\ job'.survey.step = "none"
  BY DEF usb_discover_devs, StartListeners, Unlock, Advance, NoJob, JobFrom
<1>2. ASSUME spiffer_input_shutdown("survey")
      PROVE  \/ job'.survey.step = job.survey.step
             \/ /\ job.survey.step \in {"cancel", "join", "wait"}
                /\ job'.survey.step \in {"cancel", "join", "wait", "devices"}
             \/ job.survey.step = "devices" /\ job'.survey.step = "discover"
  <2>1. ASSUME NextPipe("survey") PROVE job'.survey.step \in {"cancel", "devices"}
    BY <2>1 DEF NextPipe
  <2>2. CASE SkipListener("survey") \/ Joined("survey")
    BY <2>1, <2>2 DEF SkipListener, Joined
  <2>3. CASE CancelListener("survey") \/ JoinListener("survey")
    BY <2>3 DEF CancelListener, JoinListener, Advance
  <2>4. CASE ShutdownDevs("survey")
    BY <2>4 DEF ShutdownDevs, Advance
  <2> QED
    BY <1>2, <2>2, <2>3, <2>4 DEF spiffer_input_shutdown
<1>3. spiffer_stop \/ sig_term \/ Leave => job'.survey = job.survey
  BY DEF spiffer_stop, JoinOutputs, Exit, sig_term, Leave, spiffer_input_shutdown, SkipListener,
              CancelListener, JoinListener, Joined, ShutdownDevs, NextPipe, Advance
<1>4. ASSUME NEW who, NEW dev \in Int, Lock(who, dev)
      PROVE  job.survey.step = "none" /\ job'.survey.step \in {"cancel", "discover"}
  BY <1>4, LockedSurvey DEF Lock, LockInv
<1>5. CASE StartUpSurvey \/ sig_usr1
  <2>1. StartUp \in Int /\ NoDevice \in Int
    BY SpifferAssumption DEF StartUp, NoDevice
  <2> QED
    BY <1>3, <1>4, <1>5, <2>1 DEF StartUpSurvey, sig_usr1
<1>6. ASSUME NEW t \in Threads, Disconnected(t), ~ Leave
      PROVE  job.survey.step = "none" /\ job'.survey.step \in {"cancel", "discover"}
  <2>1. thread[t].dev \in Int
    BY DEF Thread, Pipes
  <2> QED
    BY <1>4, <1>6, <2>1 DEF Disconnected, SurveyMETA, NotifyCAER
<1> QED
  BY <1>1, <1>2, <1>3, <1>5, <1>6
  DEF Next, MainStep, SigInit, CheckCount, usb_survey_devs, SendUsr1, Usr1Step, SkipUsr1,
      ReturnUsr1, Usr1Elsewhere, ListenerStep, Connect, Disconnect, vars

LEMMA CancelsAreAsked ==
    ASSUME TypeOK, HandlesKnown, [Next]_vars, ~ StartListeners, NEW t \in Threads,
           ~ CancelListener("survey"), ~ CancelListener("stop"),
           Active(t)', thread'[t].cancelled
    PROVE  Active(t) /\ thread[t].cancelled
<1> USE DEF TypeOK, ThreadsOK, Thread
<1>1. Active(t)
  BY ActiveBefore
<1>2. CASE thread'[t] = thread[t]
  BY <1>1, <1>2
<1>3. CASE thread'[t] # thread[t]
  <2>1. ASSUME NEW u \in Threads, NEW st, Become(u, st) PROVE thread[t].cancelled
    BY <2>1 DEF Become
  <2>2. ASSUME NEW u \in Threads, ListenerStep(u) \/ Disconnected(u) PROVE thread[t].cancelled
    <3>1. CASE StartCAER(u) \/ StartMETA(u) \/ Cancelled(u)
      BY <1>3, <3>1 DEF StartCAER, StartMETA, Cancelled, Opened, Gone
    <3>2. CASE ~ (StartCAER(u) \/ StartMETA(u) \/ Cancelled(u))
      <4>1. \E st : Become(u, st)
        BY <2>2, <3>2 DEF ListenerStep, StartUDP, WaitFails, ShutdownMETA, Disconnected,
                          SurveyMETA, NotifyCAER
      <4> QED
        BY <2>1, <4>1
    <3> QED
      BY <3>1, <3>2
  <2>3. CASE Unlock
    BY <1>1, <2>3 DEF Unlock
  <2>4. ASSUME NEW c \in Cameras, Disconnect(c) PROVE thread[t].cancelled
    BY <1>3, <2>4 DEF Disconnect
  <2> QED
    BY <1>1, <1>3, <2>2, <2>3, <2>4
    DEF Next, MainStep, SigInit, CheckCount, StartUpSurvey, usb_survey_devs,
        spiffer_input_shutdown, SkipListener, JoinListener, Joined, ShutdownDevs,
        usb_discover_devs, SendUsr1, Usr1Step, SkipUsr1, sig_usr1, ReturnUsr1, Usr1Elsewhere,
        sig_term, spiffer_stop, JoinOutputs, Exit, Connect, vars
<1> QED
  BY <1>2, <1>3

LEMMA NextKeepsCancelInv == ASSUME SerialInv, CancelInv, [Next]_vars PROVE CancelInv'
<1> USE DEF SerialInv, Inv, TypeOK, ThreadsOK
<1>1. HandlesKnown' /\ ClearedBehind'
  BY NextKeepsInv
<1>2. SUFFICES ASSUME NEW t \in Threads, Active(t)', thread'[t].cancelled
               PROVE  Handling("term")' \/ job'.survey.step \in {"cancel", "join", "wait"}
  BY DEF CancelInv
<1>3. job'.survey.step \notin {"devices", "discover", "start"}
  BY <1>1, <1>2 DEF ClearedBehind, Cleared, HandlesKnown, Owns
<1>4. CASE Active(t) /\ thread[t].cancelled
  BY <1>3, <1>4, TermStays, SurveySteps DEF CancelInv
<1>5. CASE StartListeners
  <2>1. ~ Active(t)
    BY <1>5, ClearedMeansIdle DEF StartListeners, ClearedBehind
  <2>2. PICK dev \in [Pipes -> Pipes] :
           thread' = [u \in Threads |->
               IF \E p \in Pipes : listener'[p] = u
               THEN LET p == CHOOSE p \in Pipes : listener'[p] = u IN NewListener(p, dev[p])
               ELSE thread[u]]
    BY <1>5 DEF StartListeners
  <2>3. PICK p \in Pipes : thread'[t] = NewListener(p, dev[p])
    BY <1>2, <2>1, <2>2 DEF Active
  <2> QED
    BY <1>2, <2>3 DEF NewListener, Gone
<1>6. ASSUME NEW j \in {"survey", "stop"}, CancelListener(j), ~ StartListeners
      PROVE  \/ Handling("term")' \/ job'.survey.step = "join"
             \/ Active(t) /\ thread[t].cancelled
  <2>1. Active(t)
    BY <1>2, <1>6, ActiveBefore
  <2>2. CASE thread' = thread
    BY <1>2, <2>1, <2>2
  <2>3. CASE Advance(j, "join")
    BY <1>6, <2>3, TermStays DEF Advance, CancelListener, LockInv
  <2> QED
    BY <1>6, <2>2, <2>3 DEF CancelListener
<1>7. CASE ~ StartListeners /\ ~ CancelListener("survey") /\ ~ CancelListener("stop")
  <2>1. Active(t) /\ thread[t].cancelled
    BY <1>2, <1>7, CancelsAreAsked
  <2> QED
    BY <1>4, <2>1
<1> QED
  BY <1>4, <1>5, <1>6, <1>7

LEMMA SettledBefore ==
    ASSUME SerialInv, [Next]_vars, Settled', ~ StartListeners
    PROVE  /\ Settled /\ ~ usb_discover_devs
           /\ listener' = listener /\ cnt' = cnt
           /\ \A p \in Pipes : DevsOn(p)' = DevsOn(p)
<1> USE DEF SerialInv, Inv, TypeOK, ThreadsOK
<1>1. ~ usb_discover_devs
  BY DEF usb_discover_devs, Advance, Settled, Job
<1>2. ~ Looking /\ job.survey.step # "start"
  BY SurveySteps DEF Settled, Looking
<1>3. ~ overlooked
  BY <1>1 DEF Settled, Next, MainStep, SigInit, CheckCount, StartUpSurvey, usb_survey_devs,
      spiffer_input_shutdown, SkipListener, CancelListener, JoinListener, Joined,
      ShutdownDevs, StartListeners, Unlock, SendUsr1,
      Usr1Step, SkipUsr1, sig_usr1, ReturnUsr1, Usr1Elsewhere, sig_term, spiffer_stop,
      JoinOutputs, Exit,
      ListenerStep, StartUDP, StartCAER, StartMETA, Cancelled, WaitFails, ShutdownMETA,
      Disconnected, SurveyMETA, NotifyCAER, Connect, Disconnect, vars, Lock, Leave
<1>4. main = "pause"
  <2>1. main' = main \/ main' # "pause" \/ StartUpSurvey
    BY DEF LockInv, Next, MainStep, SigInit, CheckCount, usb_survey_devs,
      spiffer_input_shutdown, SkipListener, CancelListener, JoinListener, Joined,
      ShutdownDevs, usb_discover_devs, StartListeners, Unlock, SendUsr1,
      Usr1Step, SkipUsr1, sig_usr1, ReturnUsr1, Usr1Elsewhere, sig_term, spiffer_stop,
      JoinOutputs, Exit,
      ListenerStep, Disconnected, SurveyMETA, NotifyCAER, Connect, Disconnect, vars
  <2> QED
    BY <2>1, LockedSurvey, SpifferAssumption DEF StartUpSurvey, Leave, Settled, Looking, StartUp
<1>5. ~ Handling("term")
  BY TermStays DEF Settled
<1>6. listener' = listener
  BY <1>1, MostAreCalm DEF Calm, Unlock
<1>7. \A p \in Pipes : DevsOn(p)' = DevsOn(p)
  BY <1>1, TableStands, SpifferAssumption DEF DevsOn, Devs, TableOK, Pipes
<1> QED
  BY <1>1, <1>2, <1>3, <1>4, <1>5, <1>6, <1>7, TableStands DEF Settled

LEMMA WillingStays ==
    ASSUME SerialInv, CancelInv, [Next]_vars, Settled', ~ StartListeners,
           NEW t \in Threads, Willing(t)
    PROVE  /\ Willing(t)' /\ ~ Cancelled(t) /\ ~ Disconnected(t)
           /\ thread'[t].kind = thread[t].kind /\ thread'[t].pipe = thread[t].pipe
           /\ thread'[t].dev = thread[t].dev
<1> USE DEF SerialInv, Inv, TypeOK, ThreadsOK, Thread
<1>1. Settled
  BY SettledBefore
<1>2. Active(t)
  BY DEF Willing, Active
<1>3. ~ Cancelled(t)
  BY <1>1, <1>2 DEF Cancelled, CancelInv, Settled, Looking
<1>4. \A u \in Threads : ~ Disconnected(u)
  <2>1. ASSUME NEW who, NEW dev \in Int, Lock(who, dev) \/ Leave PROVE FALSE
    BY <2>1, LockedSurvey DEF Settled, Looking, Leave
  <2>2. \A u \in Threads : thread[u].dev \in Int
    BY DEF Pipes
  <2> QED
    BY <2>1, <2>2 DEF Disconnected, SurveyMETA, NotifyCAER
<1>5. ~ CancelListener("survey") /\ ~ CancelListener("stop")
  BY <1>1 DEF CancelListener, Settled, Looking, LockInv
<1>6. Willing(t)'
  <2>1. CASE thread'[t].st = thread[t].st /\ thread'[t].kind = thread[t].kind
    BY <2>1 DEF Willing
  <2>2. ASSUME ListenerStep(t) PROVE Willing(t)'
    <3>1. CASE StartUDP(t) \/ WaitFails(t)
      BY <3>1 DEF StartUDP, WaitFails, Become, Willing
    <3>2. CASE StartCAER(t) \/ StartMETA(t)
      BY <3>2 DEF StartCAER, StartMETA, Opened, Willing, Settled
    <3>3. ~ ShutdownMETA(t)
      BY DEF ShutdownMETA, Willing
    <3> QED
      BY <1>3, <2>2, <3>1, <3>2, <3>3 DEF ListenerStep
  <2>3. ASSUME NEW u \in Threads \ {t}, ListenerStep(u) PROVE thread'[t] = thread[t]
    BY <2>3 DEF ListenerStep, StartUDP, StartCAER, StartMETA, Cancelled, WaitFails, ShutdownMETA,
                Become, Opened
  <2>4. CASE Unlock
    BY <2>4 DEF Unlock, Willing
  <2>5. ASSUME NEW c \in Cameras, Disconnect(c)
        PROVE  thread'[t] = thread[t] \/ thread'[t] = [thread[t] EXCEPT !.broken = TRUE]
    BY <2>5 DEF Disconnect
  <2> QED
    BY <1>4, <1>5, <2>1, <2>2, <2>3, <2>4, <2>5
    DEF Next, MainStep, SigInit, CheckCount, StartUpSurvey, usb_survey_devs,
        spiffer_input_shutdown, SkipListener, JoinListener, Joined, ShutdownDevs,
        usb_discover_devs, SendUsr1, Usr1Step, SkipUsr1, sig_usr1, ReturnUsr1, Usr1Elsewhere,
        sig_term, spiffer_stop, JoinOutputs, Exit, Connect, vars
<1>7. Active(t)'
  BY <1>6 DEF Willing, Active
<1> QED
  BY <1>3, <1>4, <1>6, <1>7, ActiveBefore

LEMMA NewListeners ==
    ASSUME SerialInv, StartListeners
    PROVE  \A p \in Pipes : Manned(p)' /\ thread'[listener'[p]].st = "new"
<1> USE DEF SerialInv, Inv, TypeOK, ThreadsOK
<1>1. PICK dev \in [Pipes -> Pipes] :
         /\ \A p \in Pipes : DevsOn(p) # {} => dev[p] \in DevsOn(p)
         /\ thread' = [t \in Threads |->
                IF \E p \in Pipes : listener'[p] = t
                THEN LET p == CHOOSE p \in Pipes : listener'[p] = t IN NewListener(p, dev[p])
                ELSE thread[t]]
  BY DEF StartListeners
<1>2. \A p \in Pipes : /\ listener'[p] \in Threads
                       /\ \A q \in Pipes : listener'[p] = listener'[q] => p = q
  BY DEF StartListeners, Handles, Unused
<1> SUFFICES ASSUME NEW p \in Pipes PROVE Manned(p)' /\ thread'[listener'[p]].st = "new"
  OBVIOUS
<1>3. thread'[listener'[p]] = NewListener(p, dev[p])
  BY <1>1, <1>2
<1>4. thread'[listener'[p]].st = "new" /\ thread'[listener'[p]].pipe = p
  BY <1>3 DEF NewListener, Gone
<1>5. DevsOn(p)' = DevsOn(p)
  BY DEF StartListeners, usb_devs, DevsOn, Devs
<1>6. ASSUME DevsOn(p) # {} PROVE thread'[listener'[p]].kind # "UDP"
  <2>1. dev[p] \in DevsOn(p)
    BY <1>1, <1>6
  <2>2. thread'[listener'[p]].kind = Kind[params[dev[p]].cam]
    BY <1>3, <2>1 DEF NewListener, Gone
  <2>3. params[dev[p]].cam \in Cameras
    BY <2>1 DEF DevsOn, Devs, TableOK
  <2> QED
    BY <2>2, <2>3, SpifferAssumption
<1> QED
  BY <1>2, <1>4, <1>5, <1>6 DEF Manned, Willing

LEMMA NextKeepsAllManned ==
    ASSUME SerialInv, CancelInv, AllManned, [Next]_vars PROVE AllManned'
<1>1. SUFFICES ASSUME Settled', NEW p \in Pipes PROVE Manned(p)'
  BY DEF AllManned
<1>2. CASE StartListeners
  BY <1>2, NewListeners
<1>3. CASE ~ StartListeners
  <2>1. Manned(p) /\ listener' = listener /\ DevsOn(p)' = DevsOn(p)
    BY <1>1, <1>3, SettledBefore DEF AllManned
  <2>2. /\ Willing(listener[p])'
        /\ thread'[listener[p]].kind = thread[listener[p]].kind
        /\ thread'[listener[p]].pipe = thread[listener[p]].pipe
    BY <1>1, <1>3, <2>1, WillingStays DEF Manned
  <2> QED
    BY <2>1, <2>2 DEF Manned, Willing
<1> QED
  BY <1>2, <1>3

LEMMA PipesAreDistinct ==
    ASSUME SerialInv, NEW d \in Devs, NEW e \in Devs, params[d].pipe = params[e].pipe
    PROVE  d = e
<1>1. params[d].cam \in Nat /\ params[e].cam \in Nat
  BY SpifferAssumption DEF SerialInv, Inv, TypeOK, TableOK, Devs
<1>2. params[d].pipe \in Nat
  BY DEF SerialInv, TableSorted, Pipes
<1>3. ~ (params[d].cam < params[e].cam) /\ ~ (params[e].cam < params[d].cam)
  BY <1>2 DEF SerialInv, TableSorted
<1>4. params[d].cam = params[e].cam
  BY <1>1, <1>3
<1> QED
  BY <1>4 DEF SerialInv, TableSorted

LEMMA TableCount ==
    ASSUME SerialInv PROVE IsFiniteSet(Table) /\ Cardinality(Table) = cnt
<1> DEFINE f == [d \in Devs |-> params[d].cam]
<1>1. f \in Bijection(Devs, Table)
  BY DEF SerialInv, TableSorted, Table, Bijection, Injection, Surjection, IsInjective
<1>2. IsFiniteSet(Devs) /\ Cardinality(Devs) = cnt
  BY FS_Interval, SpifferAssumption DEF SerialInv, Inv, TypeOK, TableOK, Devs
<1> QED
  BY <1>1, <1>2, FS_Bijection DEF ExistsBijection

LEMMA DiscoveryIsCurrent ==
    ASSUME SerialInv, usb_discover_devs PROVE Current'
<1> USE SpifferAssumption DEF SerialInv, Inv, TypeOK
<1>1. PICK f \in Found(FoundCount) :
         params' = [d \in Pipes |->
                       IF d \in DOMAIN f
                       THEN [cam |-> f[d], pipe |-> PipeOf(f, d), hdl |-> "open"]
                       ELSE params[d]]
  BY DEF usb_discover_devs
<1>2. /\ FoundCount \in Nat /\ FoundCount <= NPipes /\ Devs' = 0 .. FoundCount - 1
      /\ DOMAIN f = 0 .. FoundCount - 1
      /\ \A d \in 0 .. FoundCount - 1 : f[d] \in Discoverable
  BY DiscoverableIsFinite DEF usb_discover_devs, Devs, Found
<1>3. Discoverable' = Discoverable /\ FoundCount' = FoundCount /\ cnt' = FoundCount
  BY DEF usb_discover_devs, bus, Discoverable, OfKind, FoundCount
<1>4. \A d \in Devs' : params'[d].cam \in Discoverable
  BY <1>1, <1>2 DEF Pipes
<1> QED
  BY <1>3, <1>4 DEF Current, Table

(* A camera that no pipe serves may go.                                    *)
LEMMA SpareGoes ==
    ASSUME SerialInv, Current, NEW c \in Cameras, Disconnect(c), c \notin Table
    PROVE  Current'
<1> USE DEF SerialInv, Inv, TypeOK
<1>1. /\ cnt' = cnt /\ plugged' = plugged \ {c} /\ c \in plugged
      /\ \A k : OfKind(k)' = OfKind(k) \ {c}
  BY DEF Disconnect, OfKind
<1>2. Table' = Table
  <2>1. Devs' = Devs /\ Devs \subseteq Pipes
    BY <1>1, SpifferAssumption DEF Devs, TableOK, Pipes
  <2>2. \A d \in Pipes : params'[d].cam = params[d].cam
    BY DEF Disconnect, TableOK, Param
  <2> QED
    BY <2>1, <2>2 DEF Table
<1>3. /\ IsFiniteSet(Discoverable) /\ Cardinality(Discoverable) \in Nat
  BY DiscoverableIsFinite, FS_Subset, FS_CardinalityType, SpifferAssumption
<1>4. CASE c \notin Discoverable
  <2>1. Discoverable' = Discoverable
    BY <1>1, <1>4 DEF Discoverable
  <2> QED
    BY <1>1, <1>2, <2>1 DEF Current, FoundCount
<1>5. CASE c \in Discoverable
  <2> DEFINE Rest == Discoverable \ {c}
  <2>1. IsFiniteSet(Rest) /\ Cardinality(Rest) = Cardinality(Discoverable) - 1
    BY <1>3, <1>5, FS_RemoveElement
  <2>2. Table \in SUBSET Rest
    BY DEF Current
  <2>3. cnt <= Cardinality(Rest)
    BY <2>1, <2>2, TableCount, FS_Subset
  <2>4. Cardinality(Rest) >= NPipes /\ cnt = NPipes
    BY <1>3, <2>1, <2>3, SpifferAssumption DEF Current, FoundCount, TableOK
  <2>5. Rest # {}
    BY <2>4, FS_EmptySet, SpifferAssumption
  <2>6. Discoverable' = Rest
    BY <1>1, <1>5, <2>5 DEF Discoverable
  <2>7. FoundCount' = NPipes
    <3>1. FoundCount' = IF Cardinality(Rest) < NPipes THEN Cardinality(Rest) ELSE NPipes
      BY <2>6 DEF FoundCount
    <3>2. Cardinality(Rest) \in Int
      BY <1>3, <2>1
    <3> HIDE DEF Rest
    <3> QED
      BY <2>4, <3>1, <3>2, SpifferAssumption
  <2> QED
    BY <1>1, <1>2, <2>2, <2>4, <2>6, <2>7 DEF Current
<1> QED
  BY <1>4, <1>5

LEMMA HandlesStayShut ==
    ASSUME TypeOK, [Next]_vars, ~ usb_discover_devs, NEW d \in Pipes, params[d].hdl # "open"
    PROVE  params'[d].hdl # "open"
<1> USE DEF TypeOK, TableOK, ThreadsOK, Param
<1>1. CASE UNCHANGED params
  BY <1>1
<1>2. ASSUME NEW j, ShutdownDevs(j) PROVE params'[d].hdl # "open"
  BY <1>2 DEF ShutdownDevs
<1>3. ASSUME NEW t \in Threads, ListenerStep(t) PROVE params'[d].hdl # "open"
  <2>1. UNCHANGED params \/ params' = [params EXCEPT ![thread[t].dev].hdl = "none"]
    BY <1>3 DEF ListenerStep, StartUDP, StartCAER, StartMETA, Cancelled, WaitFails,
                ShutdownMETA, usb_devs
  <2> QED
    BY <2>1
<1>4. ASSUME NEW c \in Cameras, Disconnect(c) PROVE params'[d].hdl # "open"
  BY <1>4 DEF Disconnect
<1> QED
  BY <1>1, <1>2, <1>3, <1>4
  DEF Next, MainStep, SigInit, CheckCount, StartUpSurvey, usb_survey_devs,
      spiffer_input_shutdown, SkipListener, CancelListener, JoinListener, Joined,
      StartListeners, Unlock, SendUsr1, Usr1Step, SkipUsr1, sig_usr1, ReturnUsr1,
      Usr1Elsewhere, sig_term, spiffer_stop,
      JoinOutputs, Exit, Disconnected, SurveyMETA, NotifyCAER,
      Connect, vars, usb_devs

(* Others may only tell a listener that its camera has gone.               *)
LEMMA ThreadMoves ==
    ASSUME TypeOK, [Next]_vars, ~ StartListeners, NEW t \in Threads, Willing(t),
           ~ Disconnected(t), ~ ListenerStep(t)
    PROVE  thread'[t].st = thread[t].st /\ (thread[t].broken => thread'[t].broken)
<1> USE DEF TypeOK, ThreadsOK, Thread
<1>1. ASSUME NEW u \in Threads \ {t}, ListenerStep(u) \/ Disconnected(u)
      PROVE  thread'[t] = thread[t]
  BY <1>1 DEF ListenerStep, StartUDP, StartCAER, StartMETA, Cancelled, WaitFails, ShutdownMETA,
              Disconnected, SurveyMETA, NotifyCAER, Become, Opened
<1>2. ASSUME NEW j, CancelListener(j)
      PROVE  thread'[t] = thread[t] \/ thread'[t] = [thread[t] EXCEPT !.cancelled = TRUE]
  BY <1>2 DEF CancelListener
<1>3. CASE Unlock
  BY <1>3 DEF Unlock, Willing
<1>4. ASSUME NEW c \in Cameras, Disconnect(c)
      PROVE  thread'[t] = thread[t] \/ thread'[t] = [thread[t] EXCEPT !.broken = TRUE]
  BY <1>4 DEF Disconnect
<1> QED
  BY <1>1, <1>2, <1>3, <1>4
  DEF Next, MainStep, SigInit, CheckCount, StartUpSurvey, usb_survey_devs,
      spiffer_input_shutdown, SkipListener, JoinListener, Joined, ShutdownDevs,
      usb_discover_devs, SendUsr1, Usr1Step, SkipUsr1, sig_usr1, ReturnUsr1, Usr1Elsewhere,
      sig_term, spiffer_stop, JoinOutputs, Exit, Connect, vars

LEMMA ServedBy ==
    ASSUME SwitchInv, Settled, NEW d \in Devs
    PROVE  LET t == listener[params[d].pipe]
           IN  /\ params[d].pipe \in Pipes /\ t \in Threads /\ Willing(t) /\ Films(t)
               /\ thread[t].dev = d
<1> DEFINE t == listener[params[d].pipe]
<1>1. params[d].pipe \in Pipes /\ d \in DevsOn(params[d].pipe)
  BY DEF SwitchInv, SerialInv, TableSorted, DevsOn
<1>2. t \in Threads /\ Willing(t) /\ Films(t) /\ thread[t].pipe = params[d].pipe
  BY <1>1 DEF SwitchInv, AllManned, Manned, Willing, Films, Active
<1>3. thread[t].dev \in Devs /\ params[thread[t].dev].pipe = params[d].pipe
  BY <1>2 DEF SwitchInv, SerialInv, CamInv, Inv, HandlesKnown, Owns, InTable, Films
<1> QED
  BY <1>1, <1>2, <1>3, PipesAreDistinct DEF SwitchInv

LEMMA LostStays ==
    ASSUME SwitchInv, [Next]_vars, Settled', ~ StartListeners, NEW d \in Devs, Lost(d)
    PROVE  Lost(d)'
<1>1. Settled /\ ~ usb_discover_devs /\ listener' = listener
  BY SettledBefore DEF SwitchInv
<1>2. d \in Pipes /\ params'[d].pipe = params[d].pipe
  BY <1>1, TableStands, SpifferAssumption
  DEF SwitchInv, SerialInv, Inv, TypeOK, TableOK, Devs, Pipes
<1>3. PICK t \in Threads :
         t = listener[params[d].pipe] /\ Willing(t) /\ Films(t) /\ thread[t].dev = d
  BY <1>1, ServedBy
<1>4. Willing(t)' /\ ~ Cancelled(t) /\ ~ Disconnected(t)
  BY <1>3, WillingStays DEF SwitchInv
<1> USE DEF SerialInv, Inv, TypeOK, ThreadsOK, Thread
<1>5. \/ thread[t].st = "new" /\ params[d].hdl # "open"
      \/ thread[t].st = "listening" /\ thread[t].broken
      \/ thread[t].st = "failed"
  BY <1>1, <1>3 DEF Lost, Settled
<1>6. params[d].hdl # "open" => params'[d].hdl # "open"
  BY <1>1, <1>2, HandlesStayShut DEF SwitchInv
<1>7. SUFFICES \/ thread'[t].st = "new" /\ params'[d].hdl # "open"
               \/ thread'[t].st = "listening" /\ thread'[t].broken
               \/ thread'[t].st = "failed"
  BY <1>1, <1>2, <1>3 DEF Lost, Settled
<1>8. CASE ~ ListenerStep(t)
  BY <1>3, <1>4, <1>5, <1>6, <1>8, ThreadMoves DEF SwitchInv
<1>9. CASE StartCAER(t)
  BY <1>1, <1>3, <1>5, <1>9 DEF StartCAER, Settled
<1>10. CASE StartMETA(t)
  <2>1. params[d].hdl \in {"none", "broken"}
    BY <1>2, <1>5, <1>10 DEF StartMETA, SwitchInv, TableOK, Param
  <2>2. CASE params[d].hdl = "none"
    BY <1>3, <1>6, <1>10, <2>2 DEF StartMETA
  <2>3. CASE params[d].hdl = "broken"
    <3>1. thread' = Opened(t)
      BY <1>3, <1>10, <2>3 DEF StartMETA
    <3>2. /\ thread'[t].st = "listening"
          /\ thread'[t].broken = (params[thread[t].dev].hdl = "broken")
      BY <3>1 DEF Opened, SwitchInv
    <3> QED
      BY <1>3, <2>3, <3>2
  <2> QED
    BY <2>1, <2>2, <2>3
<1>11. CASE WaitFails(t)
  BY <1>3, <1>11 DEF WaitFails, Become, SwitchInv
<1>12. ~ StartUDP(t) /\ ~ ShutdownMETA(t)
  BY <1>3 DEF StartUDP, Films, ShutdownMETA, Willing
<1> QED
  BY <1>4, <1>8, <1>9, <1>10, <1>11, <1>12 DEF ListenerStep

LEMMA LostAtStart ==
    ASSUME SwitchInv, [Next]_vars, ~ usb_discover_devs, NEW d \in Devs, Lost(d),
           job.survey.step = "start"
    PROVE  Lost(d)'
<1> USE DEF SwitchInv, SerialInv, Inv, TypeOK
<1>1. d \in Pipes /\ params'[d].pipe = params[d].pipe /\ params[d].pipe \in Pipes
  BY TableStands, SpifferAssumption DEF Devs, TableOK, Pipes, TableSorted
<1>2. params'[d].hdl # "open"
  BY <1>1, HandlesStayShut DEF Lost
<1>3. CASE StartListeners
  <2>1. job'.survey.step = "unlock"
    BY <1>3 DEF StartListeners, Advance, ThreadsOK, Job
  <2> QED
    BY <1>1, <1>2, <1>3, <2>1, NewListeners DEF Lost, Manned
<1>4. CASE ~ StartListeners
  BY <1>2, <1>4, SurveySteps DEF Lost
<1> QED
  BY <1>3, <1>4

LEMMA NextKeepsDue ==
    ASSUME SwitchInv, [Next]_vars, ~ usb_discover_devs, Due PROVE Due'
<1> USE DEF SerialInv, Inv, TypeOK, DaemonOK
<1>1. SUFFICES ASSUME ~ Due' PROVE ~ Due
  OBVIOUS
<1>2. ~ Looking
  BY <1>1, SurveySteps DEF SwitchInv, Due, Looking
<1>3. ~ Handling("term")
  BY <1>1, TermStays DEF SwitchInv, Due
<1>4. main = "pause" /\ ~ overlooked /\ ~ pending /\ ~ (owed > 0)
  <2>1. ~ overlooked' /\ main' = "pause" /\ ~ pending' /\ ~ (owed' > 0) /\ ~ Looking'
    BY <1>1 DEF Due
  <2>2. CASE UNCHANGED <<main, overlooked, pending, owed>>
    BY <2>1, <2>2
  <2>3. ASSUME NEW who, NEW dev \in Int, Lock(who, dev) \/ Leave PROVE FALSE
    BY <2>1, <2>3, LockedSurvey DEF SwitchInv, Looking, Leave
  <2>4. ~ StartUpSurvey /\ ~ sig_usr1 /\ \A t \in Threads : ~ Disconnected(t)
    <3>1. StartUp \in Int /\ NoDevice \in Int
      BY SpifferAssumption DEF StartUp, NoDevice
    <3>2. \A t \in Threads : thread[t].dev \in Int
      BY DEF SwitchInv, ThreadsOK, Thread, Pipes
    <3> QED
      BY <2>3, <3>1, <3>2 DEF StartUpSurvey, sig_usr1, Disconnected, SurveyMETA, NotifyCAER
  <2>5. ~ SigInit /\ ~ SkipUsr1 /\ ~ Usr1Elsewhere /\ ~ SendUsr1
    BY <2>1 DEF SigInit, SkipUsr1, Usr1Elsewhere, SendUsr1
  <2>6. ASSUME CheckCount PROVE FALSE
    BY <2>1, <2>6 DEF CheckCount, SwitchInv, LockInv
  <2>7. ASSUME NEW t \in Threads, ListenerStep(t)
        PROVE  UNCHANGED <<main, pending, owed>> /\ ~ overlooked
    BY <2>1, <2>7 DEF ListenerStep, StartUDP, StartCAER, StartMETA, Cancelled, WaitFails,
                      ShutdownMETA, signals
  <2>8. ASSUME NEW c \in Cameras, Connect(c) PROVE FALSE
    BY <2>1, <2>8 DEF Connect, SwitchInv
  <2> QED
    BY <2>1, <2>2, <2>4, <2>5, <2>6, <2>7, <2>8
    DEF Next, MainStep, usb_survey_devs, spiffer_input_shutdown, SkipListener, CancelListener,
        JoinListener, Joined, ShutdownDevs, StartListeners, Unlock, Usr1Step, ReturnUsr1,
        sig_term, spiffer_stop, JoinOutputs, Exit, Disconnect, vars, signals
<1>5. ASSUME NEW d \in Devs, Lost(d) PROVE FALSE
  <2>1. d \in Devs'
    BY TableStands DEF SwitchInv, Devs
  <2>2. CASE job.survey.step = "start"
    BY <1>1, <1>5, <2>1, <2>2, LostAtStart DEF Due
  <2>3. CASE job.survey.step # "start"
    <3>1. ~ StartListeners
      BY <2>3 DEF StartListeners
    <3>2. job'.survey.step # "start"
      BY <2>3, SurveySteps DEF SwitchInv
    <3>3. Settled'
      BY <1>1, <3>2 DEF Settled, Due
    <3> QED
      BY <1>1, <1>5, <2>1, <3>1, <3>3, LostStays DEF Due
  <2> QED
    BY <2>2, <2>3
<1> QED
  BY <1>2, <1>3, <1>4, <1>5 DEF Due

LEMMA DisconnectedIsLost ==
    ASSUME SwitchInv, ~ Due, NEW c \in Cameras, Disconnect(c),
           NEW d \in Devs, params[d].cam = c
    PROVE  Lost(d)'
<1> USE DEF SwitchInv, SerialInv, Inv, TypeOK, TableOK, ThreadsOK, Thread, Param
<1> DEFINE t == listener[params[d].pipe]
<1>1. /\ d \in Pipes /\ params'[d].pipe = params[d].pipe
      /\ params[d].hdl = "open" => params'[d].hdl = "broken"
      /\ UNCHANGED <<listener, job>>
  BY SpifferAssumption DEF Disconnect, Devs, Pipes
<1>2. ~ Lost(d)
  BY DEF Due
<1>3. CASE job.survey.step = "start"
  BY <1>1, <1>2, <1>3, HandlesStayShut DEF Lost
<1>4. CASE job.survey.step # "start"
  <2>1. t \in Threads /\ Willing(t) /\ Films(t) /\ thread[t].dev = d
    BY <1>4, ServedBy DEF Due, Settled
  <2>2. \/ thread[t].st = "new" /\ params[d].hdl = "open"
        \/ thread[t].st = "listening"
    BY <1>2, <1>4, <2>1 DEF Lost, Willing
  <2>3. CASE thread[t].st = "new"
    <3>1. thread'[t].st = "new"
      BY <2>1, <2>3 DEF Disconnect
    <3> QED
      BY <1>1, <1>4, <2>1, <2>2, <2>3, <3>1 DEF Lost
  <2>4. CASE thread[t].st = "listening"
    <3>1. thread[t].cam = c
      BY <2>1, <2>4 DEF CamInv
    <3>2. thread'[t].st = "listening" /\ thread'[t].broken
      BY <2>1, <2>4, <3>1 DEF Disconnect, Films
    <3> QED
      BY <1>1, <1>4, <2>1, <3>2 DEF Lost
  <2> QED
    BY <2>2, <2>3, <2>4
<1> QED
  BY <1>3, <1>4

LEMMA NextKeepsFresh == ASSUME SwitchInv, [Next]_vars PROVE Fresh'
<1>1. CASE usb_discover_devs
  BY <1>1, DiscoveryIsCurrent DEF Fresh, SwitchInv
<1>2. CASE ~ usb_discover_devs
  <2>1. SUFFICES ASSUME ~ Due' PROVE Current'
    BY DEF Fresh
  <2>2. ~ Due /\ Current
    BY <1>2, <2>1, NextKeepsDue DEF SwitchInv, Fresh
  <2>3. cnt' = cnt /\ Devs' = Devs
    BY <1>2, TableStands DEF SwitchInv, SerialInv, Inv, Devs
  <2>4. Table' = Table
    BY <1>2, <2>3, TableStands, SpifferAssumption
    DEF SwitchInv, SerialInv, Inv, TypeOK, TableOK, Devs, Pipes, Table
  <2>5. CASE plugged' = plugged
    BY <2>2, <2>3, <2>4, <2>5 DEF Current, Discoverable, OfKind, FoundCount
  <2>6. ASSUME NEW c \in Cameras, Disconnect(c) PROVE Current'
    <3>1. CASE c \in Table
      <4>1. PICK d \in Devs : params[d].cam = c
        BY <3>1 DEF Table
      <4>2. Lost(d)'
        BY <2>2, <2>6, <4>1, DisconnectedIsLost
      <4> QED
        BY <2>1, <2>3, <4>2 DEF Due
    <3>2. CASE c \notin Table
      BY <2>2, <2>6, <3>2, SpareGoes DEF SwitchInv
    <3> QED
      BY <3>1, <3>2
  <2>7. ASSUME NEW c \in Cameras, Connect(c) PROVE FALSE
    BY <2>1, <2>7 DEF Connect, Due, SwitchInv, SerialInv, Inv, TypeOK, DaemonOK
  <2> QED
    BY <2>5, <2>6, <2>7
    DEF Next, MainStep, SigInit, CheckCount, StartUpSurvey, usb_survey_devs,
        spiffer_input_shutdown, SkipListener, CancelListener, JoinListener, Joined,
        ShutdownDevs, usb_discover_devs, StartListeners, Unlock, SendUsr1, Usr1Step, SkipUsr1,
        sig_usr1, ReturnUsr1, Usr1Elsewhere, sig_term, spiffer_stop,
        JoinOutputs, Exit, ListenerStep,
        Disconnected, SurveyMETA, NotifyCAER, bus, vars
<1> QED
  BY <1>1, <1>2

LEMMA SwitchInvHolds == Spec => []SwitchInv
<1>1. Init => CancelInv /\ AllManned /\ Fresh
  BY DEF Init, CancelInv, AllManned, Fresh, Active, Gone, Settled, Due
<1>2. SwitchInv /\ [Next]_vars => CancelInv' /\ AllManned' /\ Fresh'
  BY NextKeepsCancelInv, NextKeepsAllManned, NextKeepsFresh DEF SwitchInv
<1> QED
  BY <1>1, <1>2, SerialInvHolds, PTL DEF Spec, SwitchInv

(* Once all is quiet, every pipe has a listener, and as many of the        *)
(* cameras that are there as the pipes allow are listened to ("switches    *)
(* between UDP and USB listening as a result of USB camera connections",   *)
(* README of spiffer), unless a change since the last discovery was        *)
(* overlooked.                                                             *)
THEOREM QuietPipesMatchBus == Spec => []SwitchesUnlessOverlooked
<1>1. ASSUME SwitchInv, Quiescent, ~ overlooked PROVE PipesMatchBus
  <2> USE DEF SerialInv, Inv, TypeOK
  <2>1. Settled
    BY <1>1 DEF SwitchInv, LockInv, Quiescent, Settled, Looking, Handling
  <2>2. ASSUME NEW t \in Threads, Willing(t) PROVE Listens(t)
    BY <1>1, <2>2 DEF Willing, Quiescent, Listens
  <2>3. ~ Due
    <3>1. ASSUME NEW d \in Devs, Lost(d) PROVE FALSE
      <4> DEFINE t == listener[params[d].pipe]
      <4>1. t \in Threads /\ Willing(t)
        BY <1>1, <2>1, ServedBy
      <4>2. Listens(t)
        BY <2>2, <4>1
      <4>3. thread[t].broken
        BY <2>1, <3>1, <4>2 DEF Lost, Settled, Listens
      <4> QED
        BY <1>1, <4>1, <4>2, <4>3 DEF Quiescent, Listens
    <3> QED
      BY <1>1, <2>1, <3>1 DEF Due, Quiescent, Settled, SwitchInv, DaemonOK
  <2>4. Current
    BY <1>1, <2>3 DEF SwitchInv, Fresh
  <2>5. Served = Table
    <3>1. ASSUME NEW t \in Threads, Listens(t), thread[t].kind # "UDP"
          PROVE  thread[t].cam \in Table
      BY <1>1, <3>1 DEF SwitchInv, CamInv, Films, Active, Listens, Table
    <3>2. ASSUME NEW d \in Devs PROVE params[d].cam \in Served
      <4> DEFINE t == listener[params[d].pipe]
      <4>1. t \in Threads /\ Willing(t) /\ Films(t) /\ thread[t].dev = d
        BY <1>1, <2>1, ServedBy
      <4>2. Listens(t)
        BY <2>2, <4>1
      <4>3. thread[t].cam = params[d].cam
        BY <1>1, <4>1, <4>2 DEF SwitchInv, CamInv, Listens
      <4> QED
        BY <4>1, <4>2, <4>3 DEF Served, Films
    <3> QED
      BY <3>1, <3>2 DEF Served, Table
  <2>6. \A p \in Pipes : \E t \in Threads : Listens(t) /\ thread[t].pipe = p
    BY <1>1, <2>1, <2>2 DEF SwitchInv, AllManned, Manned
  <2> QED
    BY <1>1, <2>4, <2>5, <2>6, TableCount DEF PipesMatchBus, Current, SwitchInv
<1>2. SwitchInv => SwitchesUnlessOverlooked
  BY <1>1 DEF SwitchesUnlessOverlooked
<1> QED
  BY <1>2, SwitchInvHolds, PTL

============================================================================
