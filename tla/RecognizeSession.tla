-------------------------- MODULE RecognizeSession --------------------------
(***************************************************************************)
(* The sessions of the camera application: for every command of the client *)
(* the message thread ends the running recognition, switches the model and *)
(* starts the next one; when the client leaves it ends the recognition.    *)
(*                                                                         *)
(* main.cpp and recognize_proc.cpp give the order of the calls,            *)
(* recognize/recognize_base.cpp what recognize_end and recognize_start     *)
(* acquire and release: three threads, a Camera object, the DRP-AI driver. *)
(* What the threads do meanwhile is FramePipeline; here a thread is alive  *)
(* until it ends.  Sessions are numbered by the calls of recognize_start,  *)
(* and a thread, a Camera or a descriptor is named by its session.         *)
(*                                                                         *)
(* An operator named Action_Change is a faulty variant of Action, used to  *)
(* test that the properties can tell it from the code; no action uses it.  *)
(***************************************************************************)
EXTENDS Integers, FiniteSets

CONSTANTS
    Models,            \* the model names switch_model knows
    Unknown,           \* a name it does not know
    Disconnect,        \* the client has left
    NoModel,           \* the null _model before the first switch
    MaxSessions,       \* bound: the calls of recognize_start
    CameraMayFail,     \* may a camera call fail, then or in a thread?
    StreamoffMayFail,  \* may VIDIOC_STREAMOFF fail on a streaming camera?
    DrpMayFail,        \* may a call of the DRP-AI driver fail?
    FilesMayFail,      \* may a file of a model be missing?
    SpawnMayFail,      \* may pthread_create fail?
    JoinMayTimeout     \* may a timed join give up on a thread that still runs?

ASSUME NamesAssumption ==
    /\ Cardinality({Unknown, Disconnect, NoModel}) = 3
    /\ Models \cap {Unknown, Disconnect, NoModel} = {}
ASSUME MaxSessionsAssumption == MaxSessions \in Nat
ASSUME FaultsAssumption ==
    {CameraMayFail, StreamoffMayFail, DrpMayFail, FilesMayFail, SpawnMayFail,
     JoinMayTimeout} \subseteq BOOLEAN

VARIABLES
    pc,        \* the message thread's place
    request,   \* what it handles: a model name, or Disconnect
    session,   \* recognize_start calls so far; `_capture' is this one's Camera
    model,     \* _model
    addrmap,   \* the model whose addresses drpai_address holds
    loaded,    \* the data in the DRP-AI's memory: <<model, address map>>
    cam,       \* per Camera: closed, device opened, or streaming with its buffers
    drpai_fd,  \* _drpai_fd: 0, -1 after a failed open, or the session it is from
    drpOpen,   \* the DRP-AI descriptors that are open
    running,   \* _capture_running, _inf_running, _fps_runnning
    pthread,   \* _pthread_capture, _pthread_ai_inf, _pthread_framerate
    live,      \* the threads that have not ended
    joined     \* the threads that have been joined

threads == <<running, pthread, live, joined>>
drpai   == <<addrmap, loaded, drpai_fd, drpOpen>>
vars    == <<pc, request, session, model, addrmap, loaded, cam, drpai_fd, drpOpen,
             running, pthread, live, joined>>

Kinds    == {"capture", "inference", "framerate"}
Sessions == 1 .. MaxSessions

\* Where the message thread joins and creates each thread, and goes then.
JoinPc  == [capture |-> "join_capture", inference |-> "join_inference",
            framerate |-> "join_framerate"]
SpawnPc == [capture |-> "new_capture", inference |-> "new_inference",
            framerate |-> "new_framerate"]
AfterJoin  == [capture |-> "join_inference", inference |-> "join_framerate",
               framerate |-> "close_camera"]
AfterSpawn == [capture |-> "new_inference", inference |-> "new_framerate",
               framerate |-> "idle"]

Pcs == {"idle", "flags", "join_capture", "join_inference", "join_framerate",
        "close_camera", "drp_close", "switch", "start", "addrmap", "drp_open",
        "load", "new_capture", "new_inference", "new_framerate", "left", "crashed"}

Init ==
    /\ pc = "idle"
    /\ request = NoModel
    /\ session = 0
    /\ model = NoModel
    /\ addrmap = NoModel
    /\ loaded = <<NoModel, NoModel>>
    /\ cam = [n \in Sessions |-> "closed"]
    /\ drpai_fd = 0
    /\ drpOpen = {}
    /\ running \in [Kinds -> BOOLEAN]
    /\ pthread = [k \in Kinds |-> 0]
    /\ live = [k \in Kinds |-> {}]
    /\ joined = [k \in Kinds |-> {}]

Goto(here, next) == pc = here /\ pc' = next

-----------------------------------------------------------------------------
(* The message thread: command_rsv with a command it can parse, on_disconnect *)

Receive(r) ==
    /\ Goto("idle", "flags")
    /\ r # Disconnect => session < MaxSessions
    /\ request' = r
    /\ UNCHANGED <<session, model, drpai, cam, threads>>

-----------------------------------------------------------------------------
(* recognize_end *)

LowerFlags ==
    /\ Goto("flags", "join_capture")
    /\ running' = [k \in Kinds |-> FALSE]
    /\ UNCHANGED <<request, session, model, drpai, cam, pthread, live, joined>>

Join_NotWaiting(k) ==
    /\ Goto(JoinPc[k], AfterJoin[k])
    /\ joined' = [joined EXCEPT ![k] = @ \cup ({pthread[k]} \ {0})]
    /\ UNCHANGED <<request, session, model, drpai, cam, running, pthread, live>>

\* An id of 0 is not joined.  wait_join returns when the thread has ended, or
\* with an error: after 20 s, or at once for an id that was joined before.
Join(k) ==
    /\ Goto(JoinPc[k], AfterJoin[k])
    /\ IF pthread[k] \in live[k]
       THEN JoinMayTimeout /\ UNCHANGED joined
       ELSE joined' = [joined EXCEPT ![k] = @ \cup ({pthread[k]} \ {0})]
    /\ UNCHANGED <<request, session, model, drpai, cam, running, pthread, live>>

CloseCamera_IfAllThreads ==
    /\ Goto("close_camera", "drp_close")
    /\ IF session # 0 /\ pthread["framerate"] # 0
       THEN cam' = [cam EXCEPT ![session] = "closed"]
       ELSE UNCHANGED cam
    /\ UNCHANGED <<request, session, model, drpai, threads>>

\* RecognizeBase::close_camera: only if there ever was a capture thread.  When
\* VIDIOC_STREAMOFF fails nothing is unmapped or closed.
CloseCamera ==
    /\ Goto("close_camera", "drp_close")
    /\ IF session # 0 /\ pthread["capture"] # 0
       THEN \/ cam' = [cam EXCEPT ![session] = "closed"]
            \/ /\ StreamoffMayFail \/ cam[session] # "streaming"
               /\ UNCHANGED cam
       ELSE UNCHANGED cam
    /\ UNCHANGED <<request, session, model, drpai, threads>>

DrpClose_IfThreads ==
    /\ Goto("drp_close", IF request = Disconnect THEN "left" ELSE "switch")
    /\ IF drpai_fd > 0 /\ pthread["capture"] = session
       THEN drpOpen' = drpOpen \ {drpai_fd} /\ drpai_fd' = 0
       ELSE UNCHANGED <<drpai_fd, drpOpen>>
    /\ UNCHANGED <<request, session, model, addrmap, loaded, cam, threads>>

\* A failed close releases the descriptor too, but _drpai_fd keeps its number.
DrpClose ==
    /\ Goto("drp_close", IF request = Disconnect THEN "left" ELSE "switch")
    /\ IF drpai_fd > 0
       THEN /\ drpOpen' = drpOpen \ {drpai_fd}
            /\ drpai_fd' = 0 \/ (DrpMayFail /\ UNCHANGED drpai_fd)
       ELSE UNCHANGED <<drpai_fd, drpOpen>>
    /\ UNCHANGED <<request, session, model, addrmap, loaded, cam, threads>>

-----------------------------------------------------------------------------
(* switch_model and recognize_start *)

SwitchModel_Unchecked ==
    /\ Goto("switch", "start")
    /\ model' = request
    /\ UNCHANGED <<request, session, drpai, cam, threads>>

SwitchModel_ReturnOnUnknown ==
    /\ Goto("switch", IF request \in Models THEN "start" ELSE "idle")
    /\ model' = IF request \in Models THEN request ELSE model
    /\ UNCHANGED <<request, session, drpai, cam, threads>>

\* An unknown name leaves the model as it is, and starts it again.
SwitchModel ==
    /\ Goto("switch", "start")
    /\ model' = IF request \in Models THEN request ELSE model
    /\ UNCHANGED <<request, session, drpai, cam, threads>>

\* The first thing recognize_start does is to read a field of the model.
StartWithoutModel ==
    /\ Goto("start", "crashed")
    /\ model = NoModel
    /\ UNCHANGED <<request, session, model, drpai, cam, threads>>

\* A new Camera replaces the old one.  start_camera undoes nothing when a step
\* of it fails: the device may stay open.
StartCamera ==
    /\ model # NoModel
    /\ session' = session + 1
    /\ \/ Goto("start", "addrmap") /\ cam' = [cam EXCEPT ![session'] = "streaming"]
       \/ /\ CameraMayFail
          /\ Goto("start", "idle")
          /\ \E c \in {"closed", "opened"} : cam' = [cam EXCEPT ![session'] = c]
    /\ UNCHANGED <<request, model, drpai, threads>>

\* The result of read_addrmap_txt is not looked at.
ReadAddrmap ==
    /\ Goto("addrmap", "drp_open")
    /\ addrmap' = model \/ (FilesMayFail /\ UNCHANGED addrmap)
    /\ UNCHANGED <<request, session, model, loaded, cam, drpai_fd, drpOpen, threads>>

\* Nor is that of drp_open.
DrpOpen ==
    /\ Goto("drp_open", "load")
    /\ \/ drpai_fd' = session /\ drpOpen' = drpOpen \cup {session}
       \/ DrpMayFail /\ drpai_fd' = -1 /\ UNCHANGED drpOpen
    /\ UNCHANGED <<request, session, model, addrmap, loaded, cam, threads>>

\* load_drpai_data: a file that cannot be opened ends recognize_start.  The
\* results of assign, read and write are kept in a uint8_t and compared with -1:
\* their failure goes unnoticed.
LoadDrpaiData ==
    /\ \/ /\ Goto("load", "new_capture")
          /\ drpai_fd \in drpOpen /\ loaded' = <<model, addrmap>>
       \/ /\ Goto("load", "new_capture")
          /\ DrpMayFail /\ loaded' = <<NoModel, NoModel>>
       \/ /\ Goto("load", "idle")
          /\ FilesMayFail /\ loaded' = <<NoModel, NoModel>>
    /\ UNCHANGED <<request, session, model, addrmap, cam, drpai_fd, drpOpen, threads>>

\* When pthread_create fails the id is unspecified: the old one, or a new one
\* of no thread.  The threads created before go on.
Spawn(k) ==
    /\ running' = [running EXCEPT ![k] = TRUE]
    /\ \/ /\ Goto(SpawnPc[k], AfterSpawn[k])
          /\ pthread' = [pthread EXCEPT ![k] = session]
          /\ live' = [live EXCEPT ![k] = @ \cup {session}]
       \/ /\ SpawnMayFail
          /\ Goto(SpawnPc[k], "idle")
          /\ \E id \in {pthread[k], session} : pthread' = [pthread EXCEPT ![k] = id]
          /\ UNCHANGED live
    /\ UNCHANGED <<request, session, model, drpai, cam, joined>>

-----------------------------------------------------------------------------
(* The threads *)

\* Thread n of kind k ends: its flag is down, or it has met an error.
ThreadEnds(k, n) ==
    /\ n \in live[k]
    /\ \/ ~running[k]
       \/ k = "capture" /\ (CameraMayFail \/ cam[n] # "streaming")
       \/ k = "inference" /\ (CameraMayFail \/ DrpMayFail \/ drpai_fd \notin drpOpen)
    /\ live' = [live EXCEPT ![k] = @ \ {n}]
    /\ UNCHANGED <<pc, request, session, model, drpai, cam, running, pthread, joined>>

-----------------------------------------------------------------------------
EndStep   == LowerFlags \/ (\E k \in Kinds : Join(k)) \/ CloseCamera \/ DrpClose
StartStep == \/ SwitchModel \/ StartWithoutModel \/ StartCamera \/ ReadAddrmap
             \/ DrpOpen \/ LoadDrpaiData \/ \E k \in Kinds : Spawn(k)

Next ==
    \/ \E r \in Models \cup {Unknown, Disconnect} : Receive(r)
    \/ EndStep
    \/ StartStep
    \/ \E k \in Kinds, n \in Sessions : ThreadEnds(k, n)

Spec == Init /\ [][Next]_vars

-----------------------------------------------------------------------------
(* Properties *)

\* Every variable keeps its type.
TypeOK ==
    /\ pc \in Pcs
    /\ request \in Models \cup {Unknown, Disconnect, NoModel}
    /\ session \in 0 .. MaxSessions
    /\ model \in Models \cup {NoModel}
    /\ addrmap \in Models \cup {NoModel}
    /\ loaded \in (Models \cup {NoModel}) \X (Models \cup {NoModel})
    /\ cam \in [Sessions -> {"closed", "opened", "streaming"}]
    /\ drpai_fd \in -1 .. MaxSessions
    /\ drpOpen \subseteq Sessions
    /\ running \in [Kinds -> BOOLEAN]
    /\ pthread \in [Kinds -> 0 .. MaxSessions]
    /\ live \in [Kinds -> SUBSET Sessions]
    /\ joined \in [Kinds -> SUBSET Sessions]

\* Between recognize_end and the creation of the first new thread.
Between == {"switch", "start", "addrmap", "drp_open", "load", "new_capture"}

\* "Finish current recognize and start next recognize thread": no thread of an
\* earlier session is alive when the next one is prepared.
FinishedBeforeStart == pc \in Between => \A k \in Kinds : live[k] = {}

\* The buffers of a Camera stay mapped, and the camera streams, as long as a
\* thread is alive that uses them.
CameraOutlivesThreads ==
    \A n \in live["capture"] \cup live["inference"] : cam[n] = "streaming"

\* Whatever fails, the sessions do not pile up DRP-AI descriptors.
OneDrpDescriptor == Cardinality(drpOpen) <= 1

\* The model, its address map and its data are not replaced under a thread that
\* infers with them.
ModelKeptWhileInferring ==
    [][live["inference"] # {} => UNCHANGED <<model, addrmap, loaded>>]_vars

\* A camera is left streaming only by the sessions before the first one that had
\* a capture thread.
LeftBeforeFirstCapture ==
    \A n \in Sessions :
        cam[n] = "streaming" /\ n < session =>
            \A m \in joined["capture"] \cup live["capture"] : n < m

\* The thread ids are never cleared, but a thread is joined a second time only
\* after a recognize_start that failed.
JoinedTwiceOnlyAfterFailure ==
    \A k \in Kinds :
        pc = JoinPc[k] /\ pthread[k] \in joined[k] => pthread[k] < session
=============================================================================
