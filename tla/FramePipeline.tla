--------------------------- MODULE FramePipeline ---------------------------
(***************************************************************************)
(* One recognition session of the camera application: the capture thread,  *)
(* the AI inference thread and the message thread that ends the session,   *)
(* sharing the camera's buffers with the V4L2 driver.                      *)
(*                                                                         *)
(* recognize/recognize_base.cpp runs the threads, camera/camera.cpp owns   *)
(* the buffers.  A frame is dequeued by the capture thread; when           *)
(* capture_enabled is set it is also handed to the inference thread        *)
(* (inference_buf_capture, capture_address, input_data, wake_), which      *)
(* gives it back to the driver itself when its result has been sent.       *)
(*                                                                         *)
(* An operator named Action_Change is a faulty variant of Action, used to  *)
(* test that the properties can tell it from the code; no action uses it.  *)
(***************************************************************************)
EXTENDS Naturals, Sequences, FiniteSets, Functions

CONSTANTS
    Buffers,        \* the indices 0 .. CAP_BUF_NUM - 1 of the camera's buffers
    NoBuf,          \* the address 0 that capture_image returns on an error
    MayStop,        \* may the message thread call recognize_end?
    CameraMayFail,  \* may the camera's ioctls fail while it streams?
    DrpMayFail,     \* may the DRP-AI driver report an error or time out?
    JoinMayTimeout  \* may a timed join give up on a thread that still runs?

ASSUME BuffersAssumption == IsFiniteSet(Buffers) /\ Buffers # {} /\ NoBuf \notin Buffers
ASSUME FlagsAssumption ==
    {MayStop, CameraMayFail, DrpMayFail, JoinMayTimeout} \subseteq BOOLEAN

VARIABLES
    \* the V4L2 driver (external): the queued buffers in queueing order, the
    \* first `filled' of which hold a frame that has not been dequeued
    drv, filled, streaming,
    \* shared by the threads
    capture_enabled, wake_, capture_address, input_data,
    buf_capture, inference_buf_capture, capture_running, inf_running,
    \* capture thread
    capPc, capture_addr,
    \* inference thread: the address the DRP-AI reads, the image of the result
    infPc, drp_input, predict_image,
    \* the last result sent to the client: what was inferred, what is shown
    sent_result,
    \* the DRP-AI driver's descriptor is open
    drp_open,
    \* message thread, inside recognize_end
    stopPc

driver  == <<drv, filled, streaming>>
handoff == <<inference_buf_capture, capture_address, input_data>>
capture == <<capPc, capture_addr, buf_capture>>
infer   == <<infPc, drp_input, predict_image, sent_result>>
flags   == <<capture_running, inf_running>>
stopper == <<drp_open, stopPc>>
vars == <<drv, filled, streaming, capture_enabled, wake_, capture_address,
          input_data, buf_capture, inference_buf_capture, capture_running,
          inf_running, capPc, capture_addr, infPc, drp_input, predict_image,
          sent_result, drp_open, stopPc>>

CapPcs  == {"loop", "select", "check", "clear", "sync", "address", "image",
            "wake", "frame", "send", "requeue", "exit", "done"}
InfPcs  == {"loop", "wait", "start", "drp", "status", "result", "image", "post",
            "requeue", "enable", "exit", "done"}
StopPcs == {"idle", "capture_flag", "inference_flag", "join_capture",
            "join_inference", "close_camera", "drp_close", "done"}

Queued == Range(drv)

(***************************************************************************)
(* The session as recognize_start leaves it: every buffer has been queued, *)
(* buf_capture still describes the last one, and no inference buffer has   *)
(* been chosen yet (its index is whatever the allocation held).            *)
(***************************************************************************)
Init ==
    /\ drv \in {q \in [1 .. Cardinality(Buffers) -> Buffers] : IsInjective(q)}
    /\ filled = 0
    /\ streaming = TRUE
    /\ capture_enabled = TRUE
    /\ wake_ = FALSE
    /\ capture_address = NoBuf
    /\ input_data = NoBuf
    /\ buf_capture = drv[Len(drv)]
    /\ inference_buf_capture \in Buffers
    /\ capture_running = TRUE
    /\ inf_running = TRUE
    /\ capPc = "loop"
    /\ capture_addr = NoBuf
    /\ infPc = "loop"
    /\ drp_input = NoBuf
    /\ predict_image = NoBuf
    /\ sent_result = [input |-> NoBuf, image |-> NoBuf]
    /\ drp_open = TRUE
    /\ stopPc = "idle"

-----------------------------------------------------------------------------
(* The V4L2 driver *)

\* The driver fills the oldest queued buffer that holds no frame yet.
DriverFill ==
    /\ streaming
    /\ filled < Len(drv)
    /\ filled' = filled + 1
    /\ UNCHANGED <<drv, streaming, capture_enabled, wake_, handoff, capture,
                   infer, flags, stopper>>

\* VIDIOC_QBUF of buffer b: only a buffer that is not queued is accepted.
Qbuf(b) ==
    /\ streaming
    /\ b \notin Queued
    /\ drv' = Append(drv, b)
    /\ UNCHANGED <<filled, streaming>>

QbufFails(b) ==
    /\ CameraMayFail \/ ~streaming \/ b \in Queued
    /\ UNCHANGED driver

-----------------------------------------------------------------------------
(* The capture thread *)

\* A step of the capture thread that leaves its locals alone, and that no other
\* thread notices but through the driver, the flags and the hand-over.
CaptureAt(pc, next) ==
    /\ capPc = pc /\ capPc' = next
    /\ UNCHANGED <<capture_addr, buf_capture, infer, flags, stopper>>

CapLoop ==
    /\ CaptureAt("loop", IF capture_running THEN "select" ELSE "exit")
    /\ UNCHANGED <<driver, capture_enabled, wake_, handoff>>

\* capture_image: select, then VIDIOC_DQBUF of the oldest frame.
CapDqbuf ==
    /\ streaming /\ filled > 0
    /\ capPc = "select" /\ capPc' = "check"
    /\ buf_capture' = Head(drv)
    /\ capture_addr' = Head(drv)
    /\ drv' = Tail(drv)
    /\ filled' = filled - 1
    /\ UNCHANGED <<streaming, capture_enabled, wake_, handoff, infer, flags, stopper>>

\* capture_image returns 0.
CapDqbufFails ==
    /\ CameraMayFail \/ ~streaming
    /\ capPc = "select" /\ capPc' = "check"
    /\ capture_addr' = NoBuf
    /\ UNCHANGED <<driver, buf_capture, capture_enabled, wake_, handoff, infer,
                   flags, stopper>>

CapCheck_AlwaysHandOver ==
    /\ CaptureAt("check", "clear")
    /\ UNCHANGED <<driver, capture_enabled, wake_, handoff>>

CapCheck ==
    /\ CaptureAt("check", IF capture_enabled THEN "clear" ELSE "frame")
    /\ UNCHANGED <<driver, capture_enabled, wake_, handoff>>

CapClear_KeepEnabled ==
    /\ CaptureAt("clear", "sync")
    /\ UNCHANGED <<driver, capture_enabled, wake_, handoff>>

CapClear ==
    /\ CaptureAt("clear", "sync")
    /\ capture_enabled' = FALSE
    /\ UNCHANGED <<driver, wake_, handoff>>

\* sync_inference_buf_capture
CapSync ==
    /\ CaptureAt("sync", "address")
    /\ inference_buf_capture' = buf_capture
    /\ UNCHANGED <<driver, capture_enabled, wake_, capture_address, input_data>>

CapAddress ==
    /\ CaptureAt("address", "image")
    /\ capture_address' = capture_addr
    /\ UNCHANGED <<driver, capture_enabled, wake_, inference_buf_capture, input_data>>

CapImage ==
    /\ CaptureAt("image", "wake")
    /\ input_data' = buf_capture
    /\ UNCHANGED <<driver, capture_enabled, wake_, inference_buf_capture,
                   capture_address>>

\* Under mtx_; the notification reaches the inference thread through InfWait.
CapWake ==
    /\ CaptureAt("wake", "frame")
    /\ wake_' = TRUE
    /\ UNCHANGED <<driver, capture_enabled, handoff>>

\* An address of 0 ends the loop; otherwise the frame's image is fetched.
CapFrame ==
    /\ CaptureAt("frame", IF capture_addr = NoBuf THEN "exit" ELSE "send")
    /\ UNCHANGED <<driver, capture_enabled, wake_, handoff>>

\* The end of the JPEG compression and of the sending of the frame: the
\* buffer is read for as long as the thread is at "send".
CapSend ==
    /\ CaptureAt("send", "requeue")
    /\ UNCHANGED <<driver, capture_enabled, wake_, handoff>>

CapRequeue_AnyIndex ==
    /\ \/ Qbuf(buf_capture) /\ CaptureAt("requeue", "loop")
       \/ QbufFails(buf_capture) /\ CaptureAt("requeue", "exit")
    /\ UNCHANGED <<capture_enabled, wake_, handoff>>

\* The buffer is given back unless its index is the inference buffer's.
CapRequeue ==
    /\ \/ /\ buf_capture = inference_buf_capture
          /\ CaptureAt("requeue", "loop") /\ UNCHANGED driver
       \/ /\ buf_capture # inference_buf_capture
          /\ \/ Qbuf(buf_capture) /\ CaptureAt("requeue", "loop")
             \/ QbufFails(buf_capture) /\ CaptureAt("requeue", "exit")
    /\ UNCHANGED <<capture_enabled, wake_, handoff>>

CapExit_NoWake ==
    /\ CaptureAt("exit", "done")
    /\ UNCHANGED <<driver, capture_enabled, wake_, handoff>>

\* "To terminate the loop in AI Inference Thread."
CapExit ==
    /\ CaptureAt("exit", "done")
    /\ wake_' = TRUE
    /\ UNCHANGED <<driver, capture_enabled, handoff>>

CaptureStep ==
    \/ CapLoop \/ CapDqbuf \/ CapDqbufFails \/ CapCheck \/ CapClear \/ CapSync
    \/ CapAddress \/ CapImage \/ CapWake \/ CapFrame \/ CapSend \/ CapRequeue
    \/ CapExit

-----------------------------------------------------------------------------
(* The inference thread *)

\* A step of the inference thread; it never writes the handed-over frame.
InferAt(pc, next) ==
    /\ infPc = pc /\ infPc' = next
    /\ UNCHANGED <<handoff, capture, flags, stopper>>

\* One that leaves its locals alone too.
InferGoto(pc, next) ==
    InferAt(pc, next) /\ UNCHANGED <<drp_input, predict_image, sent_result>>

InfLoop ==
    /\ InferGoto("loop", IF inf_running THEN "wait" ELSE "exit")
    /\ UNCHANGED <<driver, capture_enabled, wake_>>

\* cv_.wait(lock, wake_); wake_ = false
InfWait ==
    /\ InferGoto("wait", "start")
    /\ wake_ /\ wake_' = FALSE
    /\ UNCHANGED <<driver, capture_enabled>>

\* The input address is read and the DRP-AI started on it.
InfStart ==
    /\ \/ drp_open /\ InferAt("start", "drp")
       \/ (DrpMayFail \/ ~drp_open) /\ InferAt("start", "exit")
    /\ drp_input' = capture_address
    /\ UNCHANGED <<predict_image, sent_result, driver, capture_enabled, wake_>>

\* pselect: ready, or failed with a readable status; the 5 s timeout, or failed
\* with no readable status.
InfSelect ==
    /\ \/ drp_open /\ InferGoto("drp", "status")
       \/ (DrpMayFail \/ ~drp_open) /\ InferGoto("drp", "exit")
    /\ UNCHANGED <<driver, capture_enabled, wake_>>

InfStatus_Retry ==
    /\ \/ drp_open /\ InferGoto("status", "result")
       \/ (DrpMayFail \/ ~drp_open) /\ InferGoto("status", "drp")
    /\ UNCHANGED <<driver, capture_enabled, wake_>>

InfStatus ==
    /\ \/ drp_open /\ InferGoto("status", "result")
       \/ (DrpMayFail \/ ~drp_open) /\ InferGoto("status", "exit")
    /\ UNCHANGED <<driver, capture_enabled, wake_>>

\* get_result: assign and the reads of the output.
InfResult ==
    /\ \/ drp_open /\ InferGoto("result", "image")
       \/ (DrpMayFail \/ ~drp_open) /\ InferGoto("result", "exit")
    /\ UNCHANGED <<driver, capture_enabled, wake_>>

InfImage_LatestFrame ==
    /\ InferAt("image", "post")
    /\ predict_image' = buf_capture
    /\ UNCHANGED <<drp_input, sent_result, driver, capture_enabled, wake_>>

InfImage ==
    /\ InferAt("image", "post")
    /\ predict_image' = input_data
    /\ UNCHANGED <<drp_input, sent_result, driver, capture_enabled, wake_>>

InfPost_EnableFirst ==
    /\ InferAt("post", "requeue")
    /\ sent_result' = [input |-> drp_input, image |-> predict_image]
    /\ capture_enabled' = TRUE
    /\ UNCHANGED <<drp_input, predict_image, driver, wake_>>

\* inference_postprocess: the result is sent with the image of predict_image.
InfPost ==
    /\ InferAt("post", "requeue")
    /\ sent_result' = [input |-> drp_input, image |-> predict_image]
    /\ UNCHANGED <<drp_input, predict_image, driver, capture_enabled, wake_>>

\* inference_capture_qbuf
InfRequeue ==
    /\ \/ Qbuf(inference_buf_capture) /\ InferGoto("requeue", "enable")
       \/ QbufFails(inference_buf_capture) /\ InferGoto("requeue", "exit")
    /\ UNCHANGED <<capture_enabled, wake_>>

InfEnable ==
    /\ InferGoto("enable", "loop")
    /\ capture_enabled' = TRUE
    /\ UNCHANGED <<driver, wake_>>

\* "To terminate the loop in _capture Thread."
InfExit ==
    /\ InferGoto("exit", "done")
    /\ capture_enabled' = TRUE
    /\ UNCHANGED <<driver, wake_>>

InferenceStep ==
    \/ InfLoop \/ InfWait \/ InfStart \/ InfSelect \/ InfStatus \/ InfResult
    \/ InfImage \/ InfPost \/ InfRequeue \/ InfEnable \/ InfExit

-----------------------------------------------------------------------------
(* recognize_end on the message thread *)

StopAt(pc, next) ==
    /\ stopPc = pc /\ stopPc' = next
    /\ UNCHANGED <<wake_, handoff, capture, infer>>

StopBegin ==
    /\ MayStop
    /\ StopAt("idle", "capture_flag")
    /\ capture_enabled' = TRUE
    /\ UNCHANGED <<driver, flags, drp_open>>

StopCaptureFlag ==
    /\ StopAt("capture_flag", "inference_flag")
    /\ capture_running' = FALSE
    /\ UNCHANGED <<driver, capture_enabled, inf_running, drp_open>>

StopInferenceFlag ==
    /\ StopAt("inference_flag", "join_capture")
    /\ inf_running' = FALSE
    /\ UNCHANGED <<driver, capture_enabled, capture_running, drp_open>>

\* wait_join: the thread has ended, or 20 s have passed.
StopJoinCapture ==
    /\ StopAt("join_capture", "join_inference")
    /\ capPc = "done" \/ JoinMayTimeout
    /\ UNCHANGED <<driver, capture_enabled, flags, drp_open>>

StopJoinInference_Untimed ==
    /\ StopAt("join_inference", "close_camera")
    /\ infPc = "done"
    /\ UNCHANGED <<driver, capture_enabled, flags, drp_open>>

StopJoinInference ==
    /\ StopAt("join_inference", "close_camera")
    /\ infPc = "done" \/ JoinMayTimeout
    /\ UNCHANGED <<driver, capture_enabled, flags, drp_open>>

StopCloseCamera_KeepFrames ==
    /\ StopAt("close_camera", "drp_close")
    /\ drv' = <<>> /\ streaming' = FALSE
    /\ UNCHANGED <<filled, capture_enabled, flags, drp_open>>

StopCloseCamera_IfJoined ==
    /\ StopAt("close_camera", "drp_close")
    /\ IF capPc = "done" THEN drv' = <<>> /\ filled' = 0 /\ streaming' = FALSE
                         ELSE UNCHANGED driver
    /\ UNCHANGED <<capture_enabled, flags, drp_open>>

\* VIDIOC_STREAMOFF takes every buffer back; then the descriptor is closed.
\* When STREAMOFF fails the camera is left as it is.
StopCloseCamera ==
    /\ StopAt("close_camera", "drp_close")
    /\ \/ drv' = <<>> /\ filled' = 0 /\ streaming' = FALSE
       \/ CameraMayFail /\ UNCHANGED driver
    /\ UNCHANGED <<capture_enabled, flags, drp_open>>

StopDrpClose ==
    /\ StopAt("drp_close", "done")
    /\ drp_open' = FALSE
    /\ UNCHANGED <<driver, capture_enabled, flags>>

StopStep ==
    \/ StopBegin \/ StopCaptureFlag \/ StopInferenceFlag \/ StopJoinCapture
    \/ StopJoinInference \/ StopCloseCamera \/ StopDrpClose

-----------------------------------------------------------------------------
Next == DriverFill \/ CaptureStep \/ InferenceStep \/ StopStep

Spec == Init /\ [][Next]_vars

(***************************************************************************)
(* Each thread is scheduled; the camera fills a buffer it has been given;  *)
(* DRP-AI waits end (pselect has a timeout); recognize_end, once begun,    *)
(* goes on (its joins are timed).  Nothing forces the client to end a      *)
(* session, or the ioctl of a streaming camera to fail.                    *)
(***************************************************************************)
Fairness ==
    /\ WF_vars(DriverFill)
    /\ WF_vars(CaptureStep /\ ~(streaming /\ CapDqbufFails))
    /\ WF_vars(InferenceStep)
    /\ WF_vars(StopStep /\ ~StopBegin)

FairSpec == Spec /\ Fairness

-----------------------------------------------------------------------------
(* Safety *)

\* Every variable keeps its type: the queue holds buffers, the filled ones
\* are among the queued ones.
TypeOK ==
    /\ drv \in Seq(Buffers)
    /\ filled \in 0 .. Len(drv)
    /\ streaming \in BOOLEAN
    /\ capture_enabled \in BOOLEAN
    /\ wake_ \in BOOLEAN
    /\ capture_address \in Buffers \cup {NoBuf}
    /\ input_data \in Buffers \cup {NoBuf}
    /\ buf_capture \in Buffers
    /\ inference_buf_capture \in Buffers
    /\ capture_running \in BOOLEAN
    /\ inf_running \in BOOLEAN
    /\ capPc \in CapPcs
    /\ capture_addr \in Buffers \cup {NoBuf}
    /\ infPc \in InfPcs
    /\ drp_input \in Buffers \cup {NoBuf}
    /\ predict_image \in Buffers \cup {NoBuf}
    /\ sent_result \in [input : Buffers \cup {NoBuf}, image : Buffers \cup {NoBuf}]
    /\ drp_open \in BOOLEAN
    /\ stopPc \in StopPcs

\* The steps of the capture thread between taking the turn and waking the
\* inference thread, and those of the inference thread on a frame it took.
Offering == {"clear", "sync", "address", "image", "wake"}
Busy     == {"start", "drp", "status", "result", "image", "post", "requeue"}

\* The session goes on: recognize_end has not begun and the capture thread
\* has met no error.
Running ==
    /\ stopPc = "idle"
    /\ capPc \notin {"exit", "done"}
    /\ capPc \in {"loop", "select"} \/ capture_addr # NoBuf

TurnHolders ==
    (IF capture_enabled \/ capPc \in Offering THEN {"capture"} ELSE {}) \cup
    (IF wake_ \/ infPc \in Busy \cup {"enable", "exit"} THEN {"inference"} ELSE {})

\* capture_enabled and wake_ pass one turn between the two threads: while the
\* session runs exactly one of them may touch the handed-over frame.
TurnIsExclusive == Running => Cardinality(TurnHolders) = 1

\* The buffer handed to the inference thread stays out of the driver's queue
\* until its result has been sent: the camera cannot write the DRP-AI's input.
InputNotRefilled ==
    Running /\ (wake_ \/ infPc \in Busy) =>
        /\ inference_buf_capture \notin Queued
        /\ infPc \in Busy \ {"start"} => drp_input = inference_buf_capture

\* The image sent with a result is the image the result was inferred from,
\* although the two reach the inference thread through different variables.
ResultShowsItsInput ==
    Running => sent_result.input = sent_result.image

\* Neither thread enqueues a buffer that is queued already (the driver would
\* refuse it, and the thread would report an error and end).
RequeueAccepted ==
    /\ Running /\ infPc = "requeue" => inference_buf_capture \notin Queued
    /\ capPc = "requeue" /\ buf_capture # inference_buf_capture =>
            buf_capture \notin Queued

\* No step of another thread changes the handed-over frame while the inference
\* thread works on it.
HandoffStable ==
    [][Running /\ Running' /\ infPc \in Busy => UNCHANGED handoff]_vars

-----------------------------------------------------------------------------
(* Liveness *)

\* A frame handed over gets its answer: a result and its buffer given back, or
\* the end of the inference thread.
OfferIsAnswered ==
    (wake_ /\ Running) ~> (infPc \in {"enable", "exit", "done"} \/ ~Running)

\* recognize_end returns, even when a thread never ends.
StopFinishes == (stopPc # "idle") ~> (stopPc = "done")

\* The capture thread ends once recognize_end has begun: it sees its flag, or,
\* when no buffer is left for the camera to fill, the closing of the camera.
StopEndsCapture == (stopPc # "idle") ~> (capPc = "done")

\* The inference thread ends if its flag is down before the capture thread
\* gives its last wake-up, which is what takes it out of its wait.
LastWakeEndsInference == (~inf_running /\ capPc # "done") ~> (infPc = "done")

-----------------------------------------------------------------------------
(* The hand-over implements FrameHandoff while no session is ended and the
   camera does not fail. *)

slot ==
    CASE infPc \in Busy \ {"requeue"} -> "taken"
      [] infPc = "requeue"            -> "answered"
      [] infPc \in {"enable", "exit"} -> "returned"
      [] OTHER                        -> IF wake_ THEN "offered" ELSE "open"

Abstract == INSTANCE FrameHandoff WITH
    frame    <- IF slot \in {"offered", "taken", "answered"}
                THEN inference_buf_capture ELSE NoBuf,
    result   <- sent_result,
    writable <- Queued

\* Every frame offered is taken once and answered by a result about itself,
\* and the camera never writes a frame between its offer and its answer.
ImplementsHandoff == Abstract!Spec

-----------------------------------------------------------------------------
(* What the comments say, and the code does not do *)

\* "Must call capture_qbuf after calling this function": a buffer out of the
\* driver's queue is held by a thread that will give it back.
NoBufferLost ==
    Running => \A b \in Buffers :
        \/ b \in Queued
        \/ b = buf_capture /\ capPc \notin {"loop", "select"}
        \/ b = inference_buf_capture /\ (wake_ \/ infPc \in Busy \cup {"exit", "done"})

\* "stop updating the _capture buffer": the frame being compressed and sent to
\* the client is not in the driver's queue.
CaptureBufferNotRefilled ==
    Running /\ capPc = "send" => buf_capture \notin Queued
=============================================================================
