----------------------- MODULE RecognizeSessionProofs -----------------------
(***************************************************************************)
(* What RecognizeSession guarantees for every number of sessions and every *)
(* set of models: what holds whatever fails, and what holds as long as the *)
(* joins of recognize_end do not time out.                                 *)
(***************************************************************************)
EXTENDS RecognizeSession, FiniteSetTheorems, TLAPS

USE DEF Goto, drpai, threads

-----------------------------------------------------------------------------
(* Types *)

\* The places in recognize_end, and those in recognize_start once its Camera is
\* made.
Ending   == {"flags", "join_capture", "join_inference", "join_framerate",
             "close_camera", "drp_close"}
Starting == {"addrmap", "drp_open", "load", "new_capture", "new_inference",
             "new_framerate"}

\* The bound on the sessions, and session 0 has started nothing.
Numbering ==
    /\ pc \in Ending /\ request # Disconnect => session < MaxSessions
    /\ pc \in {"switch", "start"} => session < MaxSessions
    /\ pc \in Starting => session # 0

Typed == TypeOK /\ Numbering

LEMMA InitTyped == Init => Typed
<1> QED  BY MaxSessionsAssumption
         DEF Init, Typed, TypeOK, Numbering, Ending, Starting, Pcs, Kinds, Sessions

LEMMA NextTyped == Typed /\ [Next]_vars => Typed'
<1> SUFFICES ASSUME Typed, [Next]_vars PROVE Typed'
  OBVIOUS
<1> USE MaxSessionsAssumption
    DEF Typed, TypeOK, Numbering, Ending, Starting, Pcs, Kinds, Sessions
<1>1. ASSUME NEW r \in Models \cup {Unknown, Disconnect}, Receive(r)
      PROVE  Typed'
  BY <1>1 DEF Receive
<1>2. CASE LowerFlags
  <2>1. running' \in [Kinds -> BOOLEAN]
    BY <1>2 DEF LowerFlags
  <2> QED  BY <1>2, <2>1 DEF LowerFlags
<1>3. ASSUME NEW k \in Kinds, Join(k)
      PROVE  Typed'
  <2>1. pc \in Ending /\ pc' \in Ending
    BY <1>3 DEF Join, AfterJoin, JoinPc
  <2>2. joined' \in [Kinds -> SUBSET Sessions]
    BY <1>3 DEF Join
  <2> QED  BY <1>3, <2>1, <2>2 DEF Join
<1>4. CASE CloseCamera
  BY <1>4 DEF CloseCamera
<1>5. CASE DrpClose
  <2>1. pc' \in {"left", "switch"} /\ (pc' = "switch" => request # Disconnect)
    BY <1>5 DEF DrpClose
  <2>2. drpai_fd' = 0 \/ drpai_fd' = drpai_fd
    BY <1>5 DEF DrpClose
  <2>3. drpOpen' \subseteq Sessions
    BY <1>5 DEF DrpClose
  <2>4. drpai_fd' \in -1 .. MaxSessions
    BY <2>2
  <2> QED  BY <1>5, <2>1, <2>3, <2>4 DEF DrpClose
<1>6. CASE SwitchModel
  BY <1>6 DEF SwitchModel
<1>7. CASE StartWithoutModel
  BY <1>7 DEF StartWithoutModel
<1>8. CASE StartCamera
  <2>1. session' \in Sessions
    BY <1>8 DEF StartCamera
  <2>2. cam' \in [Sessions -> {"closed", "opened", "streaming"}]
    BY <1>8, <2>1 DEF StartCamera
  <2>3. pc' \in {"addrmap", "idle"}
    BY <1>8 DEF StartCamera
  <2> QED  BY <1>8, <2>1, <2>2, <2>3 DEF StartCamera
<1>9. CASE ReadAddrmap
  BY <1>9 DEF ReadAddrmap
<1>10. CASE DrpOpen
  <2>1. session \in Sessions
    BY <1>10 DEF DrpOpen
  <2>2. drpai_fd' = -1 \/ drpai_fd' = session
    BY <1>10 DEF DrpOpen
  <2>3. drpOpen' \subseteq Sessions
    BY <1>10, <2>1 DEF DrpOpen
  <2>4. drpai_fd' \in -1 .. MaxSessions
    BY <2>2
  <2> QED  BY <1>10, <2>1, <2>3, <2>4 DEF DrpOpen
<1>11. CASE LoadDrpaiData
  BY <1>11 DEF LoadDrpaiData
<1>12. ASSUME NEW k \in Kinds, Spawn(k)
       PROVE  Typed'
  <2>1. pc \in Starting /\ pc' \in Starting \cup {"idle"}
    BY <1>12 DEF Spawn, AfterSpawn, SpawnPc
  <2>2. /\ running' \in [Kinds -> BOOLEAN]
        /\ pthread' \in [Kinds -> 0 .. MaxSessions]
        /\ live' \in [Kinds -> SUBSET Sessions]
    BY <1>12, <2>1 DEF Spawn
  <2> QED  BY <1>12, <2>1, <2>2 DEF Spawn
<1>13. ASSUME NEW k \in Kinds, NEW n \in Sessions, ThreadEnds(k, n)
       PROVE  Typed'
  BY <1>13 DEF ThreadEnds
<1>14. CASE UNCHANGED vars
  BY <1>14 DEF vars
<1> QED  BY <1>1, <1>2, <1>3, <1>4, <1>5, <1>6, <1>7, <1>8, <1>9, <1>10, <1>11,
            <1>12, <1>13, <1>14 DEF Next, EndStep, StartStep

\* Every variable keeps its type, whatever fails.
THEOREM SessionTypeCorrect == Spec => []TypeOK
<1>1. Typed => TypeOK
  BY DEF Typed
<1> QED  BY <1>1, InitTyped, NextTyped, PTL DEF Spec
-----------------------------------------------------------------------------
(***************************************************************************)
(* Whatever fails: descriptors and ids are of sessions that have begun, a  *)
(* DRP-AI descriptor is open only while _drpai_fd holds it, and the thread *)
(* of the last session is not joined before its turn in recognize_end.     *)
(***************************************************************************)

\* The places after the join of k, up to the start of the next session.
Joined(k) ==
    {"close_camera", "drp_close", "switch", "start", "left", "crashed"} \cup
    CASE k = "capture"   -> {"join_inference", "join_framerate"}
      [] k = "inference" -> {"join_framerate"}
      [] k = "framerate" -> {}

Numbers ==
    \A k \in Kinds :
        /\ pthread[k] <= session
        /\ \A n \in live[k] \cup joined[k] : n <= session
        /\ pc \notin Joined(k) => session \notin joined[k]

Descriptor ==
    /\ drpOpen \subseteq {drpai_fd}
    /\ pc \in {"switch", "start", "addrmap", "drp_open", "left", "crashed"} =>
           drpOpen = {}

SInv == Typed /\ Numbers /\ Descriptor

LEMMA InitSInv == Init => SInv
<1> QED  BY InitTyped
         DEF Init, SInv, Numbers, Descriptor, Kinds

LEMMA NextSInv == SInv /\ [Next]_vars => SInv'
<1> SUFFICES ASSUME SInv, [Next]_vars PROVE SInv'
  OBVIOUS
<1>0. Typed /\ Typed'
  BY NextTyped DEF SInv
<1>a. Descriptor'
  <2> USE DEF SInv, Descriptor, Typed, TypeOK, Sessions
  <2>1. CASE DrpClose
    <3>1. drpOpen' = {}
      BY <1>0, <2>1 DEF DrpClose
    <3> QED  BY <3>1
  <2>2. CASE DrpOpen
    BY <1>0, <2>2 DEF DrpOpen
  <2>3. CASE ~DrpClose /\ ~DrpOpen
    <3>1. UNCHANGED <<drpai_fd, drpOpen>>
      BY <2>3 DEF Next, vars, Receive, EndStep, StartStep, LowerFlags, Join, CloseCamera,
         SwitchModel, StartWithoutModel, StartCamera, ReadAddrmap, LoadDrpaiData, Spawn,
         ThreadEnds
    <3>2. pc' \in {"switch", "start", "addrmap", "drp_open", "left", "crashed"} =>
              pc \in {"switch", "start", "addrmap", "drp_open", "left", "crashed"}
      BY <2>3 DEF Next, vars, Receive, EndStep, StartStep, LowerFlags, Join, CloseCamera,
         SwitchModel, StartWithoutModel, StartCamera, ReadAddrmap, LoadDrpaiData, Spawn,
         ThreadEnds, Kinds, AfterJoin, AfterSpawn
    <3> QED  BY <3>1, <3>2
  <2> QED  BY <2>1, <2>2, <2>3
<1>b. Numbers'
  <2> USE <1>0 DEF SInv, Numbers, Joined, Typed, TypeOK, Sessions, Kinds
  <2>1. ASSUME NEW r \in Models \cup {Unknown, Disconnect}, Receive(r)
        PROVE  Numbers'
    BY <2>1 DEF Receive
  <2>2. CASE LowerFlags
    BY <2>2 DEF LowerFlags
  <2>3. ASSUME NEW k \in Kinds, Join(k)
        PROVE  Numbers'
    BY <2>3 DEF Join, AfterJoin, JoinPc
  <2>4. CASE CloseCamera \/ DrpClose
    BY <2>4 DEF CloseCamera, DrpClose
  <2>5. CASE SwitchModel \/ StartWithoutModel
    BY <2>5 DEF SwitchModel, StartWithoutModel
  <2>6. CASE StartCamera
    BY <2>6 DEF StartCamera
  <2>7. CASE ReadAddrmap \/ DrpOpen \/ LoadDrpaiData
    BY <2>7 DEF ReadAddrmap, DrpOpen, LoadDrpaiData
  <2>8. ASSUME NEW k \in Kinds, Spawn(k)
        PROVE  Numbers'
    BY <2>8 DEF Spawn, AfterSpawn, SpawnPc
  <2>9. ASSUME NEW k \in Kinds, NEW n \in Sessions, ThreadEnds(k, n)
        PROVE  Numbers'
    BY <2>9 DEF ThreadEnds
  <2>10. CASE UNCHANGED vars
    BY <2>10 DEF vars
  <2> QED  BY <2>1, <2>2, <2>3, <2>4, <2>5, <2>6, <2>7, <2>8, <2>9, <2>10
           DEF Next, EndStep, StartStep
<1> QED  BY <1>0, <1>a, <1>b DEF SInv

\* The sessions do not pile up DRP-AI descriptors, whatever fails.
THEOREM DescriptorBounded == Spec => []OneDrpDescriptor
<1>1. SInv => OneDrpDescriptor
  <2> SUFFICES ASSUME SInv PROVE Cardinality(drpOpen) <= 1
    BY DEF OneDrpDescriptor
  <2>1. drpOpen = {} \/ drpOpen = {drpai_fd}
    BY DEF SInv, Descriptor
  <2>2. Cardinality({}) = 0
    BY FS_EmptySet
  <2>3. Cardinality({drpai_fd}) = 1
    BY FS_Singleton
  <2> QED  BY <2>1, <2>2, <2>3
<1> QED  BY <1>1, InitSInv, NextSInv, PTL DEF Spec

\* A stale thread id is joined again only after a recognize_start that failed.
THEOREM JoinedTwice == Spec => []JoinedTwiceOnlyAfterFailure
<1>1. SInv => JoinedTwiceOnlyAfterFailure
  BY DEF SInv, Typed, TypeOK, Numbers, Joined, JoinedTwiceOnlyAfterFailure, JoinPc, Kinds,
     Sessions
<1> QED  BY <1>1, InitSInv, NextSInv, PTL DEF Spec
-----------------------------------------------------------------------------
(***************************************************************************)
(* When no join times out, recognize_end leaves no thread, and every       *)
(* thread is one of the last session, whose Camera streams until the joins *)
(* are done.                                                               *)
(***************************************************************************)

\* The places between the join of k and the creation of the next thread k.
NoThread(k) ==
    (Joined(k) \ {"crashed"}) \cup {"addrmap", "drp_open", "load", "new_capture"} \cup
    CASE k = "capture"   -> {}
      [] k = "inference" -> {"new_inference"}
      [] k = "framerate" -> {"new_inference", "new_framerate"}

OwnThreads ==
    \A k \in Kinds :
        /\ live[k] \subseteq {pthread[k]}
        /\ pc \in NoThread(k) => live[k] = {}

OwnCamera ==
    /\ pc \in Starting => cam[session] = "streaming"
    /\ CameraOutlivesThreads

JInv == SInv /\ OwnThreads /\ OwnCamera

LEMMA InitJInv == Init => JInv
<1> QED  BY InitSInv
         DEF Init, JInv, OwnThreads, OwnCamera, CameraOutlivesThreads, Kinds, Starting

LEMMA NextJInv ==
    ASSUME JoinMayTimeout = FALSE
    PROVE  JInv /\ [Next]_vars => JInv'
<1> SUFFICES ASSUME JInv, [Next]_vars PROVE JInv'
  OBVIOUS
<1>0. SInv /\ SInv' /\ Typed /\ Typed'
  BY NextSInv DEF SInv, JInv
<1>a. OwnThreads'
  <2> USE <1>0 DEF JInv, OwnThreads, NoThread, Joined, Typed, TypeOK, Sessions, Kinds
  <2>1. ASSUME NEW r \in Models \cup {Unknown, Disconnect}, Receive(r)
        PROVE  OwnThreads'
    BY <2>1 DEF Receive
  <2>2. CASE LowerFlags
    BY <2>2 DEF LowerFlags
  <2>3. ASSUME NEW k \in Kinds, Join(k)
        PROVE  OwnThreads'
    BY <2>3 DEF Join, AfterJoin, JoinPc
  <2>4. CASE CloseCamera \/ DrpClose
    BY <2>4 DEF CloseCamera, DrpClose
  <2>5. CASE SwitchModel \/ StartWithoutModel \/ StartCamera
    BY <2>5 DEF SwitchModel, StartWithoutModel, StartCamera
  <2>6. CASE ReadAddrmap \/ DrpOpen \/ LoadDrpaiData
    BY <2>6 DEF ReadAddrmap, DrpOpen, LoadDrpaiData
  <2>7. ASSUME NEW k \in Kinds, Spawn(k)
        PROVE  OwnThreads'
    BY <2>7 DEF Spawn, AfterSpawn, SpawnPc
  <2>8. ASSUME NEW k \in Kinds, NEW n \in Sessions, ThreadEnds(k, n)
        PROVE  OwnThreads'
    BY <2>8 DEF ThreadEnds
  <2>9. CASE UNCHANGED vars
    BY <2>9 DEF vars
  <2> QED  BY <2>1, <2>2, <2>3, <2>4, <2>5, <2>6, <2>7, <2>8, <2>9
           DEF Next, EndStep, StartStep
<1>b. OwnCamera'
  <2> USE <1>0 DEF JInv, OwnCamera, CameraOutlivesThreads, Starting, Typed, TypeOK,
          Numbering, Sessions, Kinds
  <2>1. CASE CloseCamera
    <3>1. live["capture"] = {} /\ live["inference"] = {}
      BY <2>1 DEF CloseCamera, OwnThreads, NoThread, Joined
    <3> QED  BY <2>1, <3>1 DEF CloseCamera
  <2>2. CASE StartCamera
    <3>1. live["capture"] = {} /\ live["inference"] = {}
      BY <2>2 DEF StartCamera, OwnThreads, NoThread, Joined
    <3>2. session' \in Sessions
      BY <2>2 DEF StartCamera
    <3> QED  BY <2>2, <3>1, <3>2 DEF StartCamera
  <2>3. ASSUME NEW k \in Kinds, Spawn(k)
        PROVE  OwnCamera'
    BY <2>3 DEF Spawn, AfterSpawn, SpawnPc
  <2>4. ASSUME NEW k \in Kinds, NEW n \in Sessions, ThreadEnds(k, n)
        PROVE  OwnCamera'
    BY <2>4 DEF ThreadEnds
  <2>5. ASSUME NEW k \in Kinds, Join(k)
        PROVE  OwnCamera'
    BY <2>5 DEF Join, AfterJoin, JoinPc
  <2>6. CASE \/ \E r \in Models \cup {Unknown, Disconnect} : Receive(r)
             \/ LowerFlags \/ DrpClose \/ SwitchModel \/ StartWithoutModel
             \/ ReadAddrmap \/ DrpOpen \/ LoadDrpaiData \/ UNCHANGED vars
    <3>1. UNCHANGED <<session, cam, live>>
      BY <2>6 DEF Receive, LowerFlags, DrpClose, SwitchModel, StartWithoutModel,
         ReadAddrmap, DrpOpen, LoadDrpaiData, vars
    <3>2. pc' \in Starting => pc \in Starting
      BY <2>6 DEF Receive, LowerFlags, DrpClose, SwitchModel, StartWithoutModel,
         ReadAddrmap, DrpOpen, LoadDrpaiData, vars
    <3> QED  BY <3>1, <3>2
  <2> QED  BY <2>1, <2>2, <2>3, <2>4, <2>5, <2>6 DEF Next, EndStep, StartStep
<1> QED  BY <1>0, <1>a, <1>b DEF JInv

\* The running recognition is finished before the next one is started.
THEOREM FinishedFirst ==
    ASSUME JoinMayTimeout = FALSE
    PROVE  Spec => []FinishedBeforeStart
<1>1. JInv => FinishedBeforeStart
  BY DEF JInv, OwnThreads, NoThread, Joined, FinishedBeforeStart, Between, Kinds
<1>2. JInv /\ [Next]_vars => JInv'
  BY NextJInv
<1> QED  BY <1>1, <1>2, InitJInv, PTL DEF Spec

\* The buffers of a Camera stay mapped under the threads that use them.
THEOREM CameraKept ==
    ASSUME JoinMayTimeout = FALSE
    PROVE  Spec => []CameraOutlivesThreads
<1>1. JInv => CameraOutlivesThreads
  BY DEF JInv, OwnCamera
<1>2. JInv /\ [Next]_vars => JInv'
  BY NextJInv
<1> QED  BY <1>1, <1>2, InitJInv, PTL DEF Spec

\* An inference thread keeps the model, the addresses and the data it runs with.
THEOREM ModelKept ==
    ASSUME JoinMayTimeout = FALSE
    PROVE  Spec => ModelKeptWhileInferring
<1>1. JInv /\ [Next]_vars =>
        [live["inference"] # {} => UNCHANGED <<model, addrmap, loaded>>]_vars
  <2> SUFFICES ASSUME JInv, [Next]_vars, live["inference"] # {}
               PROVE  UNCHANGED <<model, addrmap, loaded>>
    OBVIOUS
  <2>1. pc \notin {"switch", "addrmap", "load"}
    BY DEF JInv, OwnThreads, NoThread, Joined, Kinds
  <2> QED  BY <2>1 DEF Next, vars, Receive, EndStep, StartStep, LowerFlags, Join,
        CloseCamera, DrpClose, SwitchModel, StartWithoutModel, StartCamera, ReadAddrmap,
        DrpOpen, LoadDrpaiData, Spawn, ThreadEnds
<1>2. JInv /\ [Next]_vars => JInv'
  BY NextJInv
<1> QED  BY <1>1, <1>2, InitJInv, PTL DEF Spec, ModelKeptWhileInferring
-----------------------------------------------------------------------------
(***************************************************************************)
(* What recognize_end leaves behind.  close_camera does nothing before the *)
(* first capture thread, so a Camera left streaming is older than each.    *)
(***************************************************************************)

CaptureIds == joined["capture"] \cup live["capture"] \cup ({pthread["capture"]} \ {0})

AfterClose == {"drp_close", "switch", "start", "left", "crashed"}

LeftOlder ==
    \A n \in Sessions :
        cam[n] = "streaming" /\ (n < session \/ (n = session /\ pc \in AfterClose)) =>
            \A m \in CaptureIds : n < m

FirstId == pthread["capture"] = 0 => CaptureIds = {}

LInv == SInv /\ FirstId /\ LeftOlder

LEMMA InitLInv == Init => LInv
<1> QED  BY InitSInv DEF Init, LInv, FirstId, LeftOlder, CaptureIds, Kinds, Sessions

LEMMA NextLInv ==
    ASSUME StreamoffMayFail = FALSE
    PROVE  LInv /\ [Next]_vars => LInv'
<1> SUFFICES ASSUME LInv, [Next]_vars PROVE LInv'
  OBVIOUS
<1>0. SInv /\ SInv' /\ Typed /\ Typed'
  BY NextSInv DEF SInv, LInv
<1> USE <1>0 DEF LInv, FirstId, LeftOlder, CaptureIds, AfterClose, Typed, TypeOK,
        Sessions, Kinds
<1>1. CASE CloseCamera
  <2>1. CASE session # 0 /\ pthread["capture"] # 0
    <3>1. cam' = cam \/ cam' = [cam EXCEPT ![session] = "closed"]
      BY <1>1, <2>1 DEF CloseCamera
    <3>2. cam'[session] # "streaming"
      BY <1>1, <2>1 DEF CloseCamera
    <3>3. \A n \in Sessions : cam'[n] = "streaming" => cam[n] = "streaming" /\ n # session
      BY <3>1, <3>2
    <3>4. UNCHANGED <<session, live, joined, pthread>>
      BY <1>1 DEF CloseCamera
    <3> QED  BY <3>3, <3>4
  <2>2. CASE ~(session # 0 /\ pthread["capture"] # 0)
    BY <1>1, <2>2 DEF CloseCamera
  <2> QED  BY <2>1, <2>2
<1>2. CASE StartCamera
  <2>1. session' = session + 1 /\ pc = "start"
    BY <1>2 DEF StartCamera
  <2>2. \A n \in Sessions : n < session' => n <= session /\ cam'[n] = cam[n]
    BY <1>2, <2>1 DEF StartCamera
  <2>3. pc' \notin AfterClose /\ CaptureIds' = CaptureIds /\ UNCHANGED pthread
    BY <1>2 DEF StartCamera
  <2> QED  BY <2>1, <2>2, <2>3
<1>3. ASSUME NEW k \in Kinds, Join(k)
      PROVE  LInv'
  <2>1. CaptureIds' \subseteq CaptureIds /\ UNCHANGED <<cam, session, pthread>>
    BY <1>3 DEF Join
  <2>2. pc' \notin AfterClose
    BY <1>3 DEF Join, AfterJoin
  <2> QED  BY <2>1, <2>2
<1>4. ASSUME NEW k \in Kinds, Spawn(k)
      PROVE  LInv'
  <2>1. CaptureIds' \subseteq CaptureIds \cup {session}
    BY <1>4 DEF Spawn
  <2>2. pc' \notin AfterClose /\ UNCHANGED <<cam, session>> /\ session # 0
    BY <1>4 DEF Spawn, AfterSpawn, SpawnPc, Numbering, Starting
  <2>3. LeftOlder'
    BY <2>1, <2>2
  <2>4. FirstId'
    BY <1>4, <2>2 DEF Spawn
  <2> QED  BY <2>3, <2>4
<1>5. ASSUME NEW k \in Kinds, NEW n \in Sessions, ThreadEnds(k, n)
      PROVE  LInv'
  <2>1. CaptureIds' \subseteq CaptureIds /\ UNCHANGED <<cam, session, pthread, pc>>
    BY <1>5 DEF ThreadEnds
  <2> QED  BY <2>1
<1>6. CASE \/ \E r \in Models \cup {Unknown, Disconnect} : Receive(r)
           \/ LowerFlags \/ DrpClose \/ SwitchModel \/ StartWithoutModel
           \/ ReadAddrmap \/ DrpOpen \/ LoadDrpaiData \/ UNCHANGED vars
  <2>1. UNCHANGED <<session, cam, live, joined, pthread>>
    BY <1>6 DEF Receive, LowerFlags, DrpClose, SwitchModel, StartWithoutModel,
       ReadAddrmap, DrpOpen, LoadDrpaiData, vars
  <2>2. pc' \in AfterClose => pc \in AfterClose
    BY <1>6 DEF Receive, LowerFlags, DrpClose, SwitchModel, StartWithoutModel,
       ReadAddrmap, DrpOpen, LoadDrpaiData, vars
  <2> QED  BY <2>1, <2>2
<1> QED  BY <1>1, <1>2, <1>3, <1>4, <1>5, <1>6 DEF Next, EndStep, StartStep

\* Once there has been a capture thread, recognize_end leaves no camera streaming.
THEOREM LeftStreamingBefore ==
    ASSUME StreamoffMayFail = FALSE
    PROVE  Spec => []LeftBeforeFirstCapture
<1>1. LInv => LeftBeforeFirstCapture
  <2> SUFFICES ASSUME LInv, NEW n \in Sessions, cam[n] = "streaming", n < session,
                      NEW m \in joined["capture"] \cup live["capture"]
               PROVE  n < m
    BY DEF LeftBeforeFirstCapture
  <2>1. m \in CaptureIds
    BY DEF CaptureIds
  <2> QED  BY <2>1 DEF LInv, LeftOlder
<1>2. LInv /\ [Next]_vars => LInv'
  BY NextLInv
<1> QED  BY <1>1, <1>2, InitLInv, PTL DEF Spec
=============================================================================
