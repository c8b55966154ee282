------------------------- MODULE AppLifecycleProofs -------------------------
(***************************************************************************)
(* The flags between main and the message thread, for any number of        *)
(* clients: when the process can hang, and that an orderly exit comes      *)
(* after the joins of the last recognition.                                *)
(***************************************************************************)
EXTENDS AppLifecycle, TLAPS

\* Which threads there are, and which callbacks main has set, at each place of main.
Progress ==
    /\ msg = "none" <=> main \in {"down", "listen", "handshake", "worker"}
    /\ main \in {"recognizer", "predict", "poll", "stop", "join"} => diconnected
    /\ (msg \notin {"none", "start"} /\ main # "join") => blRunThread

\* The flag main waits for is lowered by the message thread's last step only.
Flag ==
    /\ msg \in {"leaving", "finish"} => ~recognizing
    /\ msg = "finish" => ~running
    /\ main = "poll" /\ ~blRunPredict => msg = "ended" /\ ~recognizing /\ ~running
    /\ main \in {"stop", "join"} => msg = "ended" /\ ~recognizing /\ ~running /\ ~blRunPredict

\* While main is on its way, only a client that left makes the message thread go to its end.
Early ==
    main \in Starting =>
       /\ conn[client] = "left" => hurried
       /\ ~sfd => hurried
       /\ msg \in {"disconnect", "leaving", "finish", "ended"} => hurried

AppInv == AppTypeOK /\ Progress /\ Flag /\ Early /\ StuckOnlyIfHurried

-----------------------------------------------------------------------------
LEMMA InitAppInv == Init => AppInv
  BY DEF Init, AppInv, AppTypeOK, Progress, Flag, Early, Starting, StuckOnlyIfHurried

\* A process that ends takes all its state with it.
LEMMA EndsAppInv == ProcessEnds => AppInv'
  BY DEF ProcessEnds, NewProcess, AppInv, AppTypeOK, Progress, Flag, Early, Starting, StuckOnlyIfHurried

LEMMA MainAppInv == AppInv /\ MainStep => AppInv'
<1> SUFFICES ASSUME AppInv, MainStep
             PROVE  AppInv'
  OBVIOUS
<1> USE DEF AppInv, AppTypeOK, Progress, Flag, Early, Starting, StuckOnlyIfHurried, Goto, recognition
<1>1. CASE Restart
  BY <1>1 DEF Restart, NewProcess, peers
<1>2. ASSUME NEW c \in Clients, Accept(c)
      PROVE  AppInv'
  BY <1>2 DEF Accept, peers
<1>3. CASE Handshake
  BY <1>3 DEF Handshake
<1>4. CASE HandshakeFails \/ Exit
  BY <1>4, EndsAppInv DEF HandshakeFails, Exit
<1>5. CASE StartWorker
  BY <1>5 DEF StartWorker, peers
<1>6. CASE SetCommandReceived
  BY <1>6 DEF SetCommandReceived, peers
<1>7. CASE SetDisconnected
  BY <1>7 DEF SetDisconnected, peers
<1>8. CASE NewRecognizeProc
  BY <1>8 DEF NewRecognizeProc, peers
<1>9. CASE StartRecognize
  BY <1>9 DEF StartRecognize, peers
<1>10. CASE RunPredictEnds
  BY <1>10 DEF RunPredictEnds, peers
<1>11. CASE StopServer
  BY <1>11 DEF StopServer, peers
<1> QED
  BY <1>1, <1>2, <1>3, <1>4, <1>5, <1>6, <1>7, <1>8, <1>9, <1>10, <1>11 DEF MainStep

LEMMA MessageAppInv == AppInv /\ (MessageStep \/ ReceiveTimesOut) => AppInv'
<1> SUFFICES ASSUME AppInv, MessageStep \/ ReceiveTimesOut
             PROVE  AppInv'
  OBVIOUS
<1> USE DEF AppInv, AppTypeOK, Progress, Flag, Early, Starting, StuckOnlyIfHurried, MsgGoto, peers, recognition
<1>1. CASE WorkerStarts
  BY <1>1 DEF WorkerStarts
<1>2. CASE WorkerLoops
  BY <1>2 DEF WorkerLoops
<1>3. CASE ReceiveCommand
  BY <1>3 DEF ReceiveCommand
<1>4. CASE ReceiveClose
  BY <1>4 DEF ReceiveClose
<1>5. CASE ReceiveTimesOut
  BY <1>5 DEF ReceiveTimesOut
<1>6. CASE CommandUnparsable \/ CommandRsv
  BY <1>6 DEF CommandUnparsable, CommandRsv, recognition
<1>10. CASE JoinThreads("stopping", "switch") \/ JoinThreads("leaving", "finish")
  <2>1. overdue' \in BOOLEAN
    BY <1>10 DEF JoinThreads
  <2>2. running' = FALSE /\ msg \in {"stopping", "leaving"} /\ msg' = IF msg = "stopping" THEN "switch" ELSE "finish"
    BY <1>10 DEF JoinThreads
  <2>3. UNCHANGED <<main, commandReceived, diconnected, g_rc, blRunPredict, blRunThread, client, sfd,
                    model, recognizing, conn, inbox, hurried>>
    BY <1>10 DEF JoinThreads
  <2> QED  BY <2>1, <2>2, <2>3
<1>11. CASE SwitchModel
  BY <1>11 DEF SwitchModel, recognition
<1>7. CASE OnDisconnect
  BY <1>7 DEF OnDisconnect
<1>8. CASE FinishRecognizeThread
  BY <1>8 DEF FinishRecognizeThread
<1>9. CASE NullPointer \/ NullModel
  BY <1>9, EndsAppInv DEF NullPointer, NullModel
<1> QED
  BY <1>1, <1>2, <1>3, <1>4, <1>5, <1>6, <1>7, <1>8, <1>9, <1>10, <1>11 DEF MessageStep

LEMMA ClientAppInv == ASSUME NEW c \in Clients, AppInv, ClientStep(c) PROVE AppInv'
<1> USE DEF AppInv, AppTypeOK, Progress, Flag, Early, Starting, StuckOnlyIfHurried, server, recognition
<1>1. CASE Connect(c)
  BY <1>1 DEF Connect
<1>2. CASE Command(c)
  BY <1>2 DEF Command
<1>3. CASE Leave(c)
  BY <1>3 DEF Leave, Hurry
<1>4. CASE Vanish(c)
  BY <1>4 DEF Vanish
<1> QED  BY <1>1, <1>2, <1>3, <1>4 DEF ClientStep

LEMMA NextAppInv == AppInv /\ [Next]_vars => AppInv'
<1> SUFFICES ASSUME AppInv, [Next]_vars
             PROVE  AppInv'
  OBVIOUS
<1>1. CASE UNCHANGED vars
  BY <1>1 DEF vars, server, recognition, peers, AppInv, AppTypeOK, Progress, Flag, Early, StuckOnlyIfHurried
<1>2. CASE SendThrows
  BY <1>2, EndsAppInv DEF SendThrows
<1>3. CASE ThreadsEnd
  <2>1. CASE running' = FALSE /\ UNCHANGED overdue
    BY <1>3, <2>1 DEF ThreadsEnd, peers, AppInv, AppTypeOK, Progress, Flag, Early, StuckOnlyIfHurried
  <2>2. CASE overdue' = FALSE /\ UNCHANGED running
    BY <1>3, <2>2 DEF ThreadsEnd, peers, AppInv, AppTypeOK, Progress, Flag, Early, StuckOnlyIfHurried
  <2> QED  BY <1>3, <2>1, <2>2 DEF ThreadsEnd
<1> QED  BY <1>1, <1>2, <1>3, MainAppInv, MessageAppInv, ClientAppInv DEF Next

-----------------------------------------------------------------------------
THEOREM AppInvariant == Spec => []AppInv
<1> QED  BY InitAppInv, NextAppInv, PTL DEF Spec

\* The types of every reachable state.
THEOREM AppTypeCorrect == Spec => []AppTypeOK
<1>1. AppInv => AppTypeOK
  BY DEF AppInv
<1> QED  BY <1>1, AppInvariant, PTL

\* Only a client that left while main was still starting can make the process hang.
THEOREM StuckOnlyEarly == Spec => []StuckOnlyIfHurried
<1>1. AppInv => StuckOnlyIfHurried
  BY DEF AppInv
<1> QED  BY <1>1, AppInvariant, PTL

\* main leaves only after the last recognition was told to stop, and waited for.
THEOREM ExitIsOrderly == Spec => []OrderlyExit
<1>1. AppInv => OrderlyExit
  BY DEF AppInv, Flag, OrderlyExit
<1> QED  BY <1>1, AppInvariant, PTL
=============================================================================
