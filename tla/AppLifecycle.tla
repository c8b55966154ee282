---------------------------- MODULE AppLifecycle ----------------------------
(***************************************************************************)
(* The process of the camera application: main, the message thread of      *)
(* WebsocketServer and the flags between them, from accept() to the exit   *)
(* after which systemd starts it again.  One client is served; others wait *)
(* in the backlog of the listening socket.                                 *)
(*                                                                         *)
(* What a command does to the recognition is RecognizeSession; here its    *)
(* threads are one: they run from a recognize_start on, until they are     *)
(* told to end and do, which no join waits for longer than its timeout.    *)
(*                                                                         *)
(* An operator named Action_Change is a faulty variant of Action, used to  *)
(* test that the properties can tell it from the code; no action uses it.  *)
(***************************************************************************)
EXTENDS Naturals

CONSTANTS Clients, None,
          ClientMayVanish   \* may a client be cut off without closing its connection?

ASSUME ClientsAssumption == None \notin Clients /\ ClientMayVanish \in BOOLEAN

VARIABLES
    main,          \* the place of main(), "down" when there is no process
    msg,           \* the place of the message thread
    commandReceived, diconnected,    \* are the callbacks set?
    g_rc,          \* is the RecognizeProc made?
    blRunPredict, blRunThread,
    client,        \* whose connection _client is
    sfd,           \* is its socket open?
    model,         \* has a model been set?
    recognizing,   \* are the run flags of the recognition raised?
    running,       \* do the threads of the last recognize_start run?
    overdue,       \* do threads run on which a join has given up?
    conn,          \* what each client does with its connection
    inbox,         \* clients with a command on its way
    hurried        \* history: the client left before main had come to wait

recognition == <<recognizing, running, overdue>>
server == <<main, msg, commandReceived, diconnected, g_rc, blRunPredict, blRunThread, client, sfd,
            model, recognition>>
peers == <<conn, inbox>>
vars == <<server, peers, hurried>>

\* The places of main, in the order of main().
Starting == {"handshake", "worker", "command_cb", "disconnect_cb", "recognizer", "predict"}

NewProcess(place) ==
    /\ main' = place
    /\ msg' = "none"
    /\ commandReceived' = FALSE /\ diconnected' = FALSE
    /\ g_rc' = FALSE
    /\ blRunPredict' = FALSE /\ blRunThread' = FALSE
    /\ client' = None
    /\ sfd' = FALSE
    /\ model' = FALSE
    /\ recognizing' = FALSE /\ running' = FALSE /\ overdue' = FALSE

Init ==
    /\ main = "listen" /\ msg = "none"
    /\ commandReceived = FALSE /\ diconnected = FALSE
    /\ g_rc = FALSE /\ blRunPredict = FALSE /\ blRunThread = FALSE
    /\ client = None /\ sfd = FALSE
    /\ model = FALSE /\ recognizing = FALSE /\ running = FALSE /\ overdue = FALSE
    /\ conn = [c \in Clients |-> "away"]
    /\ inbox = {}
    /\ hurried = FALSE

\* The process ends: the kernel closes its sockets, the pages reload themselves.
ProcessEnds ==
    /\ NewProcess("down")
    /\ conn' = [c \in Clients |-> "away"]
    /\ inbox' = {}
    /\ hurried' = FALSE

Goto(a, b) == main = a /\ main' = b

-----------------------------------------------------------------------------
(* main *)

\* systemd: Restart=always.
Restart ==
    /\ main = "down"
    /\ NewProcess("listen")
    /\ UNCHANGED <<peers, hurried>>

Accept_NotMoved(c) ==
    /\ Goto("listen", "handshake")
    /\ conn[c] \in {"queued", "left"}
    /\ UNCHANGED <<client, sfd>>
    /\ hurried' = (conn[c] = "left")
    /\ UNCHANGED <<msg, commandReceived, diconnected, g_rc, blRunPredict, blRunThread, model, recognition, peers>>

\* wait_connection: accept().
Accept(c) ==
    /\ Goto("listen", "handshake")
    /\ conn[c] \in {"queued", "left"}
    /\ client' = c
    /\ sfd' = TRUE
    /\ hurried' = (conn[c] = "left")
    /\ UNCHANGED <<msg, commandReceived, diconnected, g_rc, blRunPredict, blRunThread, model, recognition, peers>>

\* recv_req, send_res: the request of a client that left may have arrived.
Handshake ==
    /\ Goto("handshake", "worker")
    /\ conn' = [conn EXCEPT ![client] = IF @ = "queued" THEN "open" ELSE @]
    /\ UNCHANGED <<msg, commandReceived, diconnected, g_rc, blRunPredict, blRunThread, client, sfd,
                   model, recognition, inbox, hurried>>

\* Otherwise they throw, and nobody catches it.
HandshakeFails ==
    /\ main = "handshake" /\ conn[client] # "queued"
    /\ ProcessEnds

StartWorker ==
    /\ Goto("worker", "command_cb")
    /\ msg' = "start"
    /\ UNCHANGED <<commandReceived, diconnected, g_rc, blRunPredict, blRunThread, client, sfd,
                   model, recognition, peers, hurried>>

SetCommandReceived ==
    /\ Goto("command_cb", "disconnect_cb")
    /\ commandReceived' = TRUE
    /\ UNCHANGED <<msg, diconnected, g_rc, blRunPredict, blRunThread, client, sfd,
                   model, recognition, peers, hurried>>

SetDisconnected ==
    /\ Goto("disconnect_cb", "recognizer")
    /\ diconnected' = TRUE
    /\ UNCHANGED <<msg, commandReceived, g_rc, blRunPredict, blRunThread, client, sfd,
                   model, recognition, peers, hurried>>

NewRecognizeProc ==
    /\ Goto("recognizer", "predict")
    /\ g_rc' = TRUE
    /\ UNCHANGED <<msg, commandReceived, diconnected, blRunPredict, blRunThread, client, sfd,
                   model, recognition, peers, hurried>>

\* start_recognize: the thread it creates and joins polls the flag.
StartRecognize ==
    /\ Goto("predict", "poll")
    /\ blRunPredict' = TRUE
    /\ UNCHANGED <<msg, commandReceived, diconnected, g_rc, blRunThread, client, sfd,
                   model, recognition, peers, hurried>>

RunPredictEnds ==
    /\ Goto("poll", "stop")
    /\ ~blRunPredict
    /\ UNCHANGED <<msg, commandReceived, diconnected, g_rc, blRunPredict, blRunThread, client, sfd,
                   model, recognition, peers, hurried>>

StopServer ==
    /\ Goto("stop", "join")
    /\ blRunThread' = FALSE
    /\ UNCHANGED <<msg, commandReceived, diconnected, g_rc, blRunPredict, client, sfd,
                   model, recognition, peers, hurried>>

\* The join of the message thread is timed, and main returns in any case.
Exit ==
    /\ main = "join"
    /\ ProcessEnds

-----------------------------------------------------------------------------
(* The message thread *)

MsgGoto(a, b) == msg = a /\ msg' = b

WorkerStarts ==
    /\ MsgGoto("start", "loop")
    /\ blRunThread' = TRUE
    /\ UNCHANGED <<main, commandReceived, diconnected, g_rc, blRunPredict, client, sfd,
                   model, recognition, peers, hurried>>

WorkerLoops ==
    /\ \/ MsgGoto("loop", "ended") /\ ~blRunThread
       \/ MsgGoto("loop", "receive") /\ blRunThread /\ sfd
       \/ MsgGoto("loop", "disconnect") /\ blRunThread /\ ~sfd /\ diconnected
       \/ MsgGoto("loop", "ended") /\ blRunThread /\ ~sfd /\ ~diconnected
    /\ UNCHANGED <<main, commandReceived, diconnected, g_rc, blRunPredict, blRunThread, client, sfd,
                   model, recognition, peers, hurried>>

\* recv_msg_txt returns a command, which is dropped if there is no callback yet.
ReceiveCommand ==
    /\ MsgGoto("receive", IF commandReceived THEN "command" ELSE "loop")
    /\ client \in inbox
    /\ inbox' = inbox \ {client}
    /\ UNCHANGED <<main, commandReceived, diconnected, g_rc, blRunPredict, blRunThread, client, sfd,
                   model, recognition, conn, hurried>>

ReceiveClose_KeepSocket ==
    /\ MsgGoto("receive", "loop")
    /\ client \notin inbox
    /\ conn[client] = "left"
    /\ UNCHANGED <<main, commandReceived, diconnected, g_rc, blRunPredict, blRunThread, client, sfd,
                   model, recognition, peers, hurried>>

\* The end of the connection, or a CLOSE frame.
ReceiveClose ==
    /\ MsgGoto("receive", "loop")
    /\ client \notin inbox
    /\ conn[client] = "left"
    /\ sfd' = FALSE
    /\ UNCHANGED <<main, commandReceived, diconnected, g_rc, blRunPredict, blRunThread, client,
                   model, recognition, peers, hurried>>

\* Ten seconds without a message, or an error that leaves the socket open.
ReceiveTimesOut ==
    /\ MsgGoto("receive", "loop")
    /\ client \notin inbox
    /\ UNCHANGED <<main, commandReceived, diconnected, g_rc, blRunPredict, blRunThread, client, sfd,
                   model, recognition, peers, hurried>>

\* command_rsv: what it cannot parse is dropped ...
CommandUnparsable ==
    /\ MsgGoto("command", "loop")
    /\ UNCHANGED <<main, commandReceived, diconnected, g_rc, blRunPredict, blRunThread, client, sfd,
                   model, recognition, peers, hurried>>

\* ... else stop_recognize tells the threads to end ...
CommandRsv ==
    /\ MsgGoto("command", "stopping")
    /\ g_rc
    /\ recognizing' = FALSE
    /\ UNCHANGED <<main, commandReceived, diconnected, g_rc, blRunPredict, blRunThread, client, sfd,
                   model, running, overdue, peers, hurried>>

\* ... and waits for them.  Nobody looks whether the joins have timed out.
JoinThreads(here, next) ==
    /\ MsgGoto(here, next)
    /\ running' = FALSE
    /\ overdue' = (overdue \/ running)
    /\ UNCHANGED <<main, commandReceived, diconnected, g_rc, blRunPredict, blRunThread, client, sfd,
                   model, recognizing, peers, hurried>>

\* switch_model and recognize_start, which may fail before the threads or with a part of them.
SwitchModel ==
    /\ MsgGoto("switch", "loop")
    /\ model' = TRUE
    /\ \/ UNCHANGED recognition
       \/ recognizing' = TRUE /\ running' \in BOOLEAN /\ UNCHANGED overdue
    /\ UNCHANGED <<main, commandReceived, diconnected, g_rc, blRunPredict, blRunThread, client, sfd,
                   peers, hurried>>

\* The first command names no model that switch_model knows: recognize_start has none to read.
NullModel ==
    /\ msg = "switch" /\ ~model
    /\ ProcessEnds

OnDisconnect_FinishOnly ==
    /\ MsgGoto("disconnect", "finish")
    /\ g_rc
    /\ UNCHANGED <<main, commandReceived, diconnected, g_rc, blRunPredict, blRunThread, client, sfd,
                   model, recognition, peers, hurried>>

\* on_disconnect: stop_recognize ...
OnDisconnect ==
    /\ MsgGoto("disconnect", "leaving")
    /\ g_rc
    /\ recognizing' = FALSE
    /\ UNCHANGED <<main, commandReceived, diconnected, g_rc, blRunPredict, blRunThread, client, sfd,
                   model, running, overdue, peers, hurried>>

FinishRecognizeThread_Server ==
    /\ MsgGoto("finish", "ended")
    /\ blRunThread' = FALSE
    /\ UNCHANGED <<main, commandReceived, diconnected, g_rc, blRunPredict, client, sfd,
                   model, recognition, peers, hurried>>

\* ... and finish_recognize_thread; the loop is left.
FinishRecognizeThread ==
    /\ MsgGoto("finish", "ended")
    /\ blRunPredict' = FALSE
    /\ UNCHANGED <<main, commandReceived, diconnected, g_rc, blRunThread, client, sfd,
                   model, recognition, peers, hurried>>

\* A callback that runs before g_rc is set follows a null pointer.
NullPointer ==
    /\ msg \in {"command", "disconnect"} /\ ~g_rc
    /\ ProcessEnds

\* The threads end some time after the flags are down; a start may raise them again before.
ThreadsEnd ==
    /\ ~recognizing
    /\ \/ running /\ running' = FALSE /\ UNCHANGED overdue
       \/ overdue /\ overdue' = FALSE /\ UNCHANGED running
    /\ UNCHANGED <<main, msg, commandReceived, diconnected, g_rc, blRunPredict, blRunThread, client, sfd,
                   model, recognizing, peers, hurried>>

\* A thread sends to a connection that is gone: the exception ends the process.  (It may have
\* tested the socket before the message thread closed it.)
SendThrows ==
    /\ running \/ overdue
    /\ conn[client] # "open" \/ ~sfd
    /\ ProcessEnds

-----------------------------------------------------------------------------
(* The clients *)

Hurry(c) == hurried \/ (c = client /\ main \in Starting)

\* The page of a client opens the web socket: it waits in the backlog until it is accepted.
Connect(c) ==
    /\ conn[c] = "away" /\ main # "down"
    /\ conn' = [conn EXCEPT ![c] = "queued"]
    /\ UNCHANGED <<server, inbox, hurried>>

Command(c) ==
    /\ conn[c] = "open"
    /\ inbox' = inbox \cup {c}
    /\ UNCHANGED <<server, conn, hurried>>

Leave(c) ==
    /\ conn[c] \in {"queued", "open"}
    /\ conn' = [conn EXCEPT ![c] = "left"]
    /\ hurried' = Hurry(c)
    /\ UNCHANGED <<server, inbox>>

Vanish(c) ==
    /\ ClientMayVanish
    /\ conn[c] = "open"
    /\ conn' = [conn EXCEPT ![c] = "vanished"]
    /\ UNCHANGED <<server, inbox, hurried>>

-----------------------------------------------------------------------------
MainStep ==
    \/ Restart \/ (\E c \in Clients : Accept(c)) \/ Handshake \/ HandshakeFails \/ StartWorker
    \/ SetCommandReceived \/ SetDisconnected \/ NewRecognizeProc \/ StartRecognize
    \/ RunPredictEnds \/ StopServer \/ Exit

MessageStep ==
    \/ WorkerStarts \/ WorkerLoops \/ ReceiveCommand \/ ReceiveClose \/ CommandUnparsable \/ CommandRsv
    \/ JoinThreads("stopping", "switch") \/ SwitchModel \/ NullModel
    \/ OnDisconnect \/ JoinThreads("leaving", "finish") \/ FinishRecognizeThread \/ NullPointer

ClientStep(c) == Connect(c) \/ Command(c) \/ Leave(c) \/ Vanish(c)

Next ==
    \/ MainStep \/ MessageStep \/ ReceiveTimesOut \/ ThreadsEnd \/ SendThrows
    \/ \E c \in Clients : ClientStep(c)

Spec == Init /\ [][Next]_vars

\* Threads that have not been told to end go on sending.
SendFails == recognizing /\ running /\ sfd /\ SendThrows

\* Both threads are scheduled, recv notices the end of a connection sooner or later, and so does
\* a send.  Clients need not do anything, and threads that are told to end need not.
Fairness == WF_vars(MainStep) /\ SF_vars(MessageStep) /\ SF_vars(ReceiveClose) /\ WF_vars(SendFails)

FairSpec == Spec /\ Fairness

-----------------------------------------------------------------------------
AppTypeOK ==
    /\ main \in {"down", "listen", "poll", "stop", "join"} \cup Starting
    /\ msg \in {"none", "start", "loop", "receive", "command", "stopping", "switch",
               "disconnect", "leaving", "finish", "ended"}
    /\ {commandReceived, diconnected, g_rc, blRunPredict, blRunThread, sfd, model, recognizing, running,
        overdue, hurried} \subseteq BOOLEAN
    /\ IF main \in {"down", "listen"} THEN client = None ELSE client \in Clients
    /\ conn \in [Clients -> {"away", "queued", "open", "left", "vanished"}]
    /\ inbox \subseteq Clients

\* The process can hang with nobody to talk to (main waits for a flag that no thread is left to
\* lower) only when its client left before main had come to wait for it: the callbacks and the
\* flag are set too late for such a client, and for no other.
StuckOnlyIfHurried ==
    (main = "poll" /\ blRunPredict /\ msg = "ended") => hurried

\* main leaves only after the recognition of its client was told to stop and its threads were
\* waited for, whatever the order of the flags: a thread that runs beside the exit is one that
\* was not in time for its join (overdue).  Main does not wait for these.
OrderlyExit == main \in {"stop", "join"} => ~recognizing /\ ~running /\ ~blRunPredict

\* A client that is lost frees the server for the next: after it left, or after it vanished
\* under a recognition whose threads run, the program listens again, unless the client was too quick.
LostClientFreesServer ==
    \A c \in Clients :
       (/\ client = c
        /\ \/ conn[c] = "left"
           \/ /\ conn[c] = "vanished" /\ c \notin inbox /\ msg \notin {"command", "stopping", "switch"}
              /\ recognizing /\ running)
       ~> (main = "listen" \/ hurried)
=============================================================================
