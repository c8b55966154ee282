------------------------ MODULE FramePipelineProofs ------------------------
(***************************************************************************)
(* What FramePipeline guarantees for every number of buffers and every     *)
(* choice of the faults: its types, and the hand-over of a frame between   *)
(* the capture and the inference thread.                                   *)
(***************************************************************************)
EXTENDS FramePipeline, FiniteSetTheorems, TLAPS

-----------------------------------------------------------------------------
(* The driver's queue *)

\* Queueing a buffer that is not queued adds it and keeps the entries distinct.
LEMMA AppendQueued ==
    ASSUME NEW S, NEW q \in Seq(S), NEW b \in S
    PROVE  /\ Append(q, b) \in Seq(S)
           /\ Len(Append(q, b)) = Len(q) + 1
           /\ Range(Append(q, b)) = Range(q) \cup {b}
           /\ IsInjective(q) /\ b \notin Range(q) => IsInjective(Append(q, b))
<1> DEFINE r == Append(q, b)
<1>1. /\ r \in Seq(S)
      /\ Len(r) = Len(q) + 1
      /\ DOMAIN q = 1 .. Len(q)
      /\ DOMAIN r = 1 .. Len(q) + 1
      /\ \A i \in 1 .. Len(q) : r[i] = q[i]
      /\ r[Len(q) + 1] = b
      /\ Len(q) \in Nat
  OBVIOUS
<1>2. Range(r) = Range(q) \cup {b}
  <2>1. DOMAIN r = DOMAIN q \cup {Len(q) + 1}
    BY <1>1
  <2> QED  BY <1>1, <2>1, Zenon DEF Range
<1>3. ASSUME IsInjective(q), b \notin Range(q)
      PROVE  IsInjective(r)
  <2>1. \A i \in 1 .. Len(q) : q[i] # b
    BY <1>1, <1>3 DEF Range
  <2> QED  BY <1>1, <1>3, <2>1 DEF IsInjective
<1> QED  BY <1>1, <1>2, <1>3

\* Dequeueing the oldest of distinct buffers takes it out of the queue.
LEMMA TailQueued ==
    ASSUME NEW S, NEW q \in Seq(S), q # <<>>
    PROVE  /\ Head(q) \in S
           /\ Tail(q) \in Seq(S)
           /\ Len(Tail(q)) = Len(q) - 1
           /\ Range(Tail(q)) \subseteq Range(q)
           /\ Head(q) \in Range(q)
           /\ IsInjective(q) => IsInjective(Tail(q)) /\ Head(q) \notin Range(Tail(q))
<1> DEFINE r == Tail(q)
<1>1. /\ r \in Seq(S)
      /\ Len(q) \in Nat \ {0}
      /\ Len(r) = Len(q) - 1
      /\ DOMAIN q = 1 .. Len(q)
      /\ DOMAIN r = 1 .. Len(q) - 1
      /\ \A i \in 1 .. Len(q) - 1 : r[i] = q[i + 1] /\ i + 1 \in 1 .. Len(q)
      /\ Head(q) = q[1] /\ Head(q) \in S
      /\ 1 \in 1 .. Len(q)
  OBVIOUS
<1>2. Range(r) \subseteq Range(q) /\ Head(q) \in Range(q)
  BY <1>1 DEF Range
<1>3. ASSUME IsInjective(q)
      PROVE  IsInjective(r) /\ Head(q) \notin Range(r)
  BY <1>1, <1>3 DEF IsInjective, Range
<1> QED  BY <1>1, <1>2, <1>3

-----------------------------------------------------------------------------
(* Types *)

USE DEF CapPcs, InfPcs, StopPcs

LEMMA InitTypeOK == Init => TypeOK
<1> SUFFICES ASSUME Init PROVE TypeOK
  OBVIOUS
<1>1. Cardinality(Buffers) \in Nat \ {0}
  BY BuffersAssumption, FS_CardinalityType, FS_EmptySet
<1>2. drv \in Seq(Buffers) /\ Len(drv) = Cardinality(Buffers) /\ 0 \in 0 .. Len(drv)
  BY <1>1 DEF Init
<1>3. buf_capture \in Buffers
  BY <1>1, <1>2 DEF Init
<1> QED  BY <1>2, <1>3 DEF Init, TypeOK

\* What an accepted VIDIOC_QBUF does to the queue.
LEMMA QbufEffect ==
    ASSUME TypeOK, NEW b \in Buffers, Qbuf(b)
    PROVE  /\ drv' \in Seq(Buffers)
           /\ filled' \in 0 .. Len(drv')
           /\ Queued' = Queued \cup {b}
           /\ b \notin Queued
           /\ IsInjective(drv) => IsInjective(drv')
<1>1. drv \in Seq(Buffers) /\ filled \in 0 .. Len(drv)
  BY DEF TypeOK
<1>2. /\ drv' = Append(drv, b)
      /\ filled' = filled
      /\ b \notin Range(drv)
  BY DEF Qbuf, Queued
<1>3. Len(drv') = Len(drv) + 1 /\ Len(drv) \in Nat
  BY <1>1, <1>2, AppendQueued
<1>4. filled' \in 0 .. Len(drv')
  BY <1>1, <1>2, <1>3
<1>5. drv' \in Seq(Buffers) /\ Queued' = Queued \cup {b}
  BY <1>1, <1>2, AppendQueued DEF Queued
<1>6. IsInjective(drv) => IsInjective(drv')
  BY <1>1, <1>2, AppendQueued
<1> QED  BY <1>2, <1>4, <1>5, <1>6 DEF Queued

\* What a VIDIOC_DQBUF does to the queue.
LEMMA DqbufEffect ==
    ASSUME TypeOK, CapDqbuf
    PROVE  /\ drv' \in Seq(Buffers)
           /\ filled' \in 0 .. Len(drv')
           /\ buf_capture' \in Buffers
           /\ capture_addr' = buf_capture'
           /\ Queued' \subseteq Queued
           /\ buf_capture' \in Queued
           /\ IsInjective(drv) => IsInjective(drv') /\ buf_capture' \notin Queued'
<1>1. drv \in Seq(Buffers) /\ filled \in 0 .. Len(drv)
  BY DEF TypeOK
<1>2. /\ filled > 0
      /\ drv' = Tail(drv)
      /\ filled' = filled - 1
      /\ buf_capture' = Head(drv)
      /\ capture_addr' = Head(drv)
  BY DEF CapDqbuf
<1>3. drv # <<>>
  BY <1>1, <1>2
<1>4. Len(drv') = Len(drv) - 1 /\ Len(drv) \in Nat
  BY <1>1, <1>2, <1>3, TailQueued
<1>5. filled' \in 0 .. Len(drv')
  BY <1>1, <1>2, <1>4
<1> QED  BY <1>1, <1>2, <1>3, <1>5, TailQueued DEF Queued

LEMMA NextTypeOK == TypeOK /\ [Next]_vars => TypeOK'
<1> SUFFICES ASSUME TypeOK, [Next]_vars PROVE TypeOK'
  OBVIOUS
<1> USE DEF TypeOK, driver, handoff, capture, infer, flags, stopper
<1>1. CASE DriverFill
  <2>1. filled' \in 0 .. Len(drv')
    BY <1>1 DEF DriverFill
  <2> QED  BY <1>1, <2>1 DEF DriverFill
<1>2. CASE CaptureStep
  <2> USE DEF CaptureAt
  <2>1. CASE CapLoop         BY <2>1 DEF CapLoop
  <2>2. CASE CapDqbuf        BY <2>2, DqbufEffect DEF CapDqbuf
  <2>3. CASE CapDqbufFails   BY <2>3 DEF CapDqbufFails
  <2>4. CASE CapCheck        BY <2>4 DEF CapCheck
  <2>5. CASE CapClear
    <3>1. capture_enabled' \in BOOLEAN
      BY <2>5 DEF CapClear
    <3>2. UNCHANGED <<driver, wake_, handoff, infer, flags, stopper, capture_addr,
                      buf_capture>> /\ capPc' = "sync"
      BY <2>5 DEF CapClear
    <3> QED  BY <3>1, <3>2
  <2>6. CASE CapSync         BY <2>6 DEF CapSync
  <2>7. CASE CapAddress      BY <2>7 DEF CapAddress
  <2>8. CASE CapImage        BY <2>8 DEF CapImage
  <2>9. CASE CapWake         BY <2>9 DEF CapWake
  <2>10. CASE CapFrame       BY <2>10 DEF CapFrame
  <2>11. CASE CapSend        BY <2>11 DEF CapSend
  <2>12. CASE CapRequeue
    <3>1. CASE Qbuf(buf_capture)
      <4>1. drv' \in Seq(Buffers) /\ filled' \in 0 .. Len(drv')
        BY <3>1, QbufEffect
      <4>2. streaming' = streaming
        BY <3>1 DEF Qbuf
      <4> QED  BY <2>12, <4>1, <4>2 DEF CapRequeue
    <3>2. CASE ~Qbuf(buf_capture)
      BY <2>12, <3>2 DEF CapRequeue, QbufFails
    <3> QED  BY <3>1, <3>2
  <2>13. CASE CapExit        BY <2>13 DEF CapExit
  <2> QED  BY <1>2, <2>1, <2>2, <2>3, <2>4, <2>5, <2>6, <2>7, <2>8, <2>9,
              <2>10, <2>11, <2>12, <2>13 DEF CaptureStep
<1>3. CASE InferenceStep
  <2> USE DEF InferAt, InferGoto
  <2>1. CASE InfLoop         BY <2>1 DEF InfLoop
  <2>2. CASE InfWait
    <3>1. wake_' \in BOOLEAN
      BY <2>2 DEF InfWait
    <3>2. UNCHANGED <<driver, capture_enabled, handoff, capture, flags, stopper,
                      drp_input, predict_image, sent_result>> /\ infPc' = "start"
      BY <2>2 DEF InfWait
    <3> QED  BY <3>1, <3>2
  <2>3. CASE InfStart        BY <2>3 DEF InfStart
  <2>4. CASE InfSelect       BY <2>4 DEF InfSelect
  <2>5. CASE InfStatus       BY <2>5 DEF InfStatus
  <2>6. CASE InfResult       BY <2>6 DEF InfResult
  <2>7. CASE InfImage        BY <2>7 DEF InfImage
  <2>8. CASE InfPost         BY <2>8 DEF InfPost
  <2>9. CASE InfRequeue
    <3>1. CASE Qbuf(inference_buf_capture)
      <4>1. drv' \in Seq(Buffers) /\ filled' \in 0 .. Len(drv')
        BY <3>1, QbufEffect
      <4>2. streaming' = streaming
        BY <3>1 DEF Qbuf
      <4> QED  BY <2>9, <4>1, <4>2 DEF InfRequeue
    <3>2. CASE ~Qbuf(inference_buf_capture)
      BY <2>9, <3>2 DEF InfRequeue, QbufFails
    <3> QED  BY <3>1, <3>2
  <2>10. CASE InfEnable      BY <2>10 DEF InfEnable
  <2>11. CASE InfExit        BY <2>11 DEF InfExit
  <2> QED  BY <1>3, <2>1, <2>2, <2>3, <2>4, <2>5, <2>6, <2>7, <2>8, <2>9,
              <2>10, <2>11 DEF InferenceStep
<1>4. CASE StopStep
  <2> USE DEF StopAt
  <2>1. CASE StopCloseCamera
    <3>1. CASE UNCHANGED driver
      BY <2>1, <3>1 DEF StopCloseCamera
    <3>2. CASE drv' = <<>> /\ filled' = 0 /\ streaming' = FALSE
      <4>1. drv' \in Seq(Buffers) /\ Len(drv') = 0
        BY <3>2
      <4>2. filled' \in 0 .. Len(drv')
        BY <3>2, <4>1
      <4>3. streaming' \in BOOLEAN
        BY <3>2
      <4> QED  BY <2>1, <4>1, <4>2, <4>3 DEF StopCloseCamera
    <3> QED  BY <2>1, <3>1, <3>2 DEF StopCloseCamera
  <2>2. CASE ~StopCloseCamera
    <3>1. /\ UNCHANGED <<driver, wake_, handoff, capture, infer>>
          /\ capture_enabled' \in BOOLEAN
          /\ capture_running' \in BOOLEAN /\ inf_running' \in BOOLEAN
          /\ drp_open' \in BOOLEAN /\ stopPc' \in StopPcs
      BY <1>4, <2>2 DEF StopStep, StopBegin, StopCaptureFlag, StopInferenceFlag,
         StopJoinCapture, StopJoinInference, StopDrpClose
    <3> QED  BY <3>1
  <2> QED  BY <2>1, <2>2
<1>5. CASE UNCHANGED vars
  BY <1>5 DEF vars
<1> QED  BY <1>1, <1>2, <1>3, <1>4, <1>5 DEF Next

\* Every variable keeps its type, whatever the camera, the DRP-AI driver and
\* the message thread do.
THEOREM TypeCorrect == Spec => []TypeOK
<1> QED  BY InitTypeOK, NextTypeOK, PTL DEF Spec

-----------------------------------------------------------------------------
(***************************************************************************)
(* The hand-over.  The inductive invariant says who has the turn (one of   *)
(* four phases), which buffer each thread holds in each phase, and that a  *)
(* held buffer is not in the driver's queue.                               *)
(***************************************************************************)

\* The inference thread has no frame.
Idle == {"loop", "wait", "done"}

\* The running flags are lowered by recognize_end only.
FlagsUp == stopPc = "idle" => capture_running /\ inf_running

\* The turn: open for the capture thread, taken by it, handed over, or with the
\* inference thread.
Open    == capture_enabled /\ ~wake_ /\ infPc \in Idle /\ capPc \notin Offering \ {"clear"}
Offer   == ~capture_enabled /\ ~wake_ /\ infPc \in Idle /\ capPc \in Offering \ {"clear"}
Woken   == ~capture_enabled /\ wake_ /\ infPc \in Idle /\ capPc \notin Offering
Working == ~capture_enabled /\ ~wake_ /\ infPc \notin Idle /\ capPc \notin Offering
Turn    == Running => Open \/ Offer \/ Woken \/ Working

\* The capture thread, from a successful dequeue to the requeue.
Held == {"check", "frame", "send", "requeue"} \cup Offering

\* The capture thread's buffer may be queued only if it is the inference buffer,
\* which the inference thread has given back meanwhile.
CaptureBuffer ==
    /\ capPc \in {"send", "requeue"} => capture_addr # NoBuf
    /\ capPc \in Held /\ capture_addr # NoBuf =>
          /\ capture_addr = buf_capture
          /\ buf_capture \notin Queued \/ buf_capture = inference_buf_capture

\* The frame handed over, or about to be.
HandedOver == wake_ \/ infPc \in Busy

OfferedFrame ==
    Running =>
      /\ capPc \in {"check"} \cup Offering => buf_capture \notin Queued
      /\ capPc = "check" /\ HandedOver => buf_capture # inference_buf_capture
      /\ capPc \in {"address", "image", "wake"} => inference_buf_capture = buf_capture
      /\ capPc \in {"image", "wake"} => capture_address = buf_capture
      /\ capPc = "wake" => input_data = buf_capture

HandedFrame ==
    Running /\ HandedOver =>
      /\ inference_buf_capture \notin Queued
      /\ capture_address = inference_buf_capture
      /\ input_data = inference_buf_capture
      /\ infPc \in Busy \ {"start"} => drp_input = inference_buf_capture
      /\ infPc = "post" => predict_image = inference_buf_capture

SentResult == Running => sent_result.input = sent_result.image

IInv ==
    /\ TypeOK
    /\ IsInjective(drv)
    /\ FlagsUp
    /\ Turn
    /\ CaptureBuffer
    /\ OfferedFrame
    /\ HandedFrame
    /\ SentResult

LEMMA QueuedUnchanged == UNCHANGED drv => Queued' = Queued
<1> QED  BY DEF Queued

LEMMA InitIInv == Init => IInv
<1> SUFFICES ASSUME Init PROVE IInv
  OBVIOUS
<1>1. TypeOK
  BY InitTypeOK
<1>2. IsInjective(drv)
  BY DEF Init
<1> QED  BY <1>1, <1>2 DEF Init, IInv, FlagsUp, Turn, Open, Idle, Offering, Running,
            CaptureBuffer, Held, OfferedFrame, HandedFrame, HandedOver, Busy,
            SentResult

LEMMA CaptureStepIInv == IInv /\ CaptureStep => IInv'
<1> SUFFICES ASSUME IInv, CaptureStep PROVE IInv'
  OBVIOUS
<1> TypeOK /\ TypeOK'
  BY NextTypeOK DEF IInv, Next
<1> USE DEF driver, handoff, capture, infer, flags, stopper, CaptureAt
<1> USE DEF IInv, FlagsUp, Turn, Open, Offer, Woken, Working, Idle, Offering, Running,
        CaptureBuffer, Held, OfferedFrame, HandedFrame, HandedOver, Busy, SentResult
<1>1. CASE CapCheck
  BY <1>1, QueuedUnchanged DEF CapCheck, TypeOK
<1>2. CASE CapClear
  BY <1>2, QueuedUnchanged DEF CapClear, TypeOK
<1>3. CASE CapSync
  BY <1>3, QueuedUnchanged DEF CapSync, TypeOK
<1>4. CASE CapAddress
  BY <1>4, QueuedUnchanged DEF CapAddress, TypeOK
<1>5. CASE CapImage
  BY <1>5, QueuedUnchanged DEF CapImage, TypeOK
<1>6. CASE CapWake
  BY <1>6, QueuedUnchanged DEF CapWake, TypeOK
<1>7. CASE CapFrame
  BY <1>7, QueuedUnchanged DEF CapFrame, TypeOK
<1>8. CASE CapSend
  BY <1>8, QueuedUnchanged DEF CapSend, TypeOK
<1>9. CASE CapExit
  BY <1>9, QueuedUnchanged DEF CapExit, TypeOK
<1>10. CASE CapLoop
  BY <1>10, QueuedUnchanged DEF CapLoop, TypeOK
<1>11. CASE CapDqbuf
  BY <1>11, DqbufEffect DEF CapDqbuf, TypeOK
<1>12. CASE CapDqbufFails
  BY <1>12, QueuedUnchanged DEF CapDqbufFails, TypeOK
<1>13. CASE CapRequeue
  BY <1>13, QbufEffect, QueuedUnchanged DEF CapRequeue, QbufFails, TypeOK
<1> QED  BY <1>1, <1>2, <1>3, <1>4, <1>5, <1>6, <1>7, <1>8, <1>9, <1>10, <1>11,
            <1>12, <1>13 DEF CaptureStep

LEMMA InferenceStepIInv == IInv /\ InferenceStep => IInv'
<1> SUFFICES ASSUME IInv, InferenceStep PROVE IInv'
  OBVIOUS
<1> TypeOK /\ TypeOK'
  BY NextTypeOK DEF IInv, Next
<1> USE DEF driver, handoff, capture, infer, flags, stopper, InferAt, InferGoto
<1> USE DEF IInv, FlagsUp, Turn, Open, Offer, Woken, Working, Idle, Offering, Running,
        CaptureBuffer, Held, OfferedFrame, HandedFrame, HandedOver, Busy, SentResult
<1>1. CASE InfLoop
  BY <1>1, QueuedUnchanged DEF InfLoop, TypeOK
<1>2. CASE InfWait
  BY <1>2, QueuedUnchanged DEF InfWait, TypeOK
<1>3. CASE InfStart
  BY <1>3, QueuedUnchanged DEF InfStart, TypeOK
<1>4. CASE InfSelect
  BY <1>4, QueuedUnchanged DEF InfSelect, TypeOK
<1>5. CASE InfStatus
  BY <1>5, QueuedUnchanged DEF InfStatus, TypeOK
<1>6. CASE InfResult
  BY <1>6, QueuedUnchanged DEF InfResult, TypeOK
<1>7. CASE InfImage
  BY <1>7, QueuedUnchanged DEF InfImage, TypeOK
<1>8. CASE InfPost
  BY <1>8, QueuedUnchanged DEF InfPost, TypeOK
<1>9. CASE InfEnable
  BY <1>9, QueuedUnchanged DEF InfEnable, TypeOK
<1>10. CASE InfExit
  BY <1>10, QueuedUnchanged DEF InfExit, TypeOK
<1>11. CASE InfRequeue
  BY <1>11, QbufEffect, QueuedUnchanged DEF InfRequeue, QbufFails, TypeOK
<1> QED  BY <1>1, <1>2, <1>3, <1>4, <1>5, <1>6, <1>7, <1>8, <1>9, <1>10, <1>11
         DEF InferenceStep

\* Once recognize_end has begun the session runs no more: only what is true of
\* the queue and of the capture thread's buffer is left to keep.
LEMMA StopStepIInv == IInv /\ StopStep => IInv'
<1> SUFFICES ASSUME IInv, StopStep PROVE IInv'
  OBVIOUS
<1>1. TypeOK /\ TypeOK'
  BY NextTypeOK DEF IInv, Next
<1>2. stopPc' # "idle" /\ ~Running'
  BY DEF StopStep, StopAt, StopBegin, StopCaptureFlag, StopInferenceFlag,
     StopJoinCapture, StopJoinInference, StopCloseCamera, StopDrpClose, Running
<1>3. UNCHANGED <<capPc, capture_addr, buf_capture, inference_buf_capture>>
  BY DEF StopStep, StopAt, StopBegin, StopCaptureFlag, StopInferenceFlag, StopJoinCapture,
     StopJoinInference, StopCloseCamera, StopDrpClose, capture, handoff
<1>4. UNCHANGED drv \/ drv' = <<>>
  BY DEF StopStep, StopAt, StopBegin, StopCaptureFlag, StopInferenceFlag, StopJoinCapture,
     StopJoinInference, StopCloseCamera, StopDrpClose, driver
<1>5. IsInjective(drv') /\ Queued' \subseteq Queued
  BY <1>4, QueuedUnchanged DEF IInv, IsInjective, Queued, Range
<1>6. CaptureBuffer'
  BY <1>3, <1>5 DEF IInv, CaptureBuffer
<1> QED  BY <1>1, <1>2, <1>5, <1>6 DEF IInv, FlagsUp, Turn, OfferedFrame, HandedFrame,
            SentResult

LEMMA NextIInv == IInv /\ [Next]_vars => IInv'
<1> SUFFICES ASSUME IInv, [Next]_vars PROVE IInv'
  OBVIOUS
<1>1. TypeOK'
  BY NextTypeOK DEF IInv
<1>2. CASE DriverFill \/ UNCHANGED vars
  <2>1. UNCHANGED <<drv, capture_enabled, wake_, handoff, capture, infer, flags, stopper>>
    BY <1>2 DEF DriverFill, vars, handoff, capture, infer, flags, stopper
  <2> QED  BY <1>1, <2>1, QueuedUnchanged DEF IInv, FlagsUp, Turn, Open, Offer, Woken,
              Working, Running, CaptureBuffer, OfferedFrame, HandedFrame, HandedOver,
              SentResult, handoff, capture, infer, flags, stopper
<1> QED  BY <1>2, CaptureStepIInv, InferenceStepIInv, StopStepIInv DEF Next

\* The inductive invariant of a session.
THEOREM HandoffInvariant == Spec => []IInv
<1> QED  BY InitIInv, NextIInv, PTL DEF Spec

-----------------------------------------------------------------------------
(* The properties of a session *)

\* capture_enabled and wake_ pass exactly one turn between the two threads.
THEOREM TurnExclusive == Spec => []TurnIsExclusive
<1>1. IInv => TurnIsExclusive
  <2> SUFFICES ASSUME IInv, Running PROVE Cardinality(TurnHolders) = 1
    BY DEF TurnIsExclusive
  <2>1. TurnHolders = {"capture"} \/ TurnHolders = {"inference"}
    <3>1. CASE Open \/ Offer
      <4>1. /\ capture_enabled \/ capPc \in Offering
            /\ ~(wake_ \/ infPc \in Busy \cup {"enable", "exit"})
        BY <3>1 DEF Open, Offer, Idle, Busy
      <4> QED  BY <4>1 DEF TurnHolders
    <3>2. CASE Woken \/ Working
      <4>1. /\ ~(capture_enabled \/ capPc \in Offering)
            /\ wake_ \/ infPc \in Busy \cup {"enable", "exit"}
        BY <3>2 DEF Woken, Working, Idle, Busy, IInv, TypeOK
      <4> QED  BY <4>1 DEF TurnHolders
    <3> QED  BY <3>1, <3>2 DEF IInv, Turn
  <2> QED  BY <2>1, FS_Singleton
<1> QED  BY <1>1, HandoffInvariant, PTL

\* The camera cannot write the buffer that the DRP-AI reads.
THEOREM InputKept == Spec => []InputNotRefilled
<1>1. IInv => InputNotRefilled
  BY DEF IInv, HandedFrame, HandedOver, InputNotRefilled
<1> QED  BY <1>1, HandoffInvariant, PTL

\* A result is shown with the image it was inferred from.
THEOREM ResultsMatch == Spec => []ResultShowsItsInput
<1>1. IInv => ResultShowsItsInput
  BY DEF IInv, SentResult, ResultShowsItsInput
<1> QED  BY <1>1, HandoffInvariant, PTL

\* Neither thread enqueues a buffer that is queued already.
THEOREM RequeuesAccepted == Spec => []RequeueAccepted
<1>1. IInv => RequeueAccepted
  BY DEF IInv, HandedFrame, HandedOver, CaptureBuffer, Held, Busy, RequeueAccepted
<1> QED  BY <1>1, HandoffInvariant, PTL

\* No step changes the handed-over frame while the inference thread works on it.
THEOREM HandoffKept == Spec => HandoffStable
<1>1. IInv /\ [Next]_vars =>
        [Running /\ Running' /\ infPc \in Busy => UNCHANGED handoff]_vars
  <2> SUFFICES ASSUME IInv, [Next]_vars, Running, infPc \in Busy
               PROVE  UNCHANGED handoff
    OBVIOUS
  <2>1. capPc \notin Offering
    BY DEF IInv, Turn, Open, Offer, Woken, Working, Idle, Busy
  <2> QED  BY <2>1 DEF Next, vars, handoff, DriverFill, Offering,
        CaptureAt, InferAt, InferGoto, StopAt,
        CaptureStep, CapLoop, CapDqbuf, CapDqbufFails, CapCheck, CapClear, CapSync,
        CapAddress, CapImage, CapWake, CapFrame, CapSend, CapRequeue, CapExit,
        InferenceStep, InfLoop, InfWait, InfStart, InfSelect, InfStatus, InfResult,
        InfImage, InfPost, InfRequeue, InfEnable, InfExit,
        StopStep, StopBegin, StopCaptureFlag, StopInferenceFlag,
        StopJoinCapture, StopJoinInference, StopCloseCamera, StopDrpClose
<1> QED  BY <1>1, HandoffInvariant, PTL DEF Spec, HandoffStable

-----------------------------------------------------------------------------
(***************************************************************************)
(* The refinement.  Without recognize_end and without camera errors the    *)
(* session runs for ever, and each step of it is a step of FrameHandoff or *)
(* leaves the mapped state alone.                                          *)
(***************************************************************************)

Undisturbed == stopPc = "idle" /\ streaming /\ Running

frameBar == IF slot \in {"offered", "taken", "answered"}
            THEN inference_buf_capture ELSE NoBuf

\* The session runs as long as nothing disturbs it.
LEMMA StaysUndisturbed ==
    ASSUME MayStop = FALSE, CameraMayFail = FALSE
    PROVE  IInv /\ Undisturbed /\ [Next]_vars => Undisturbed'
<1> SUFFICES ASSUME IInv, Undisturbed, [Next]_vars PROVE Undisturbed'
  OBVIOUS
<1> USE DEF Undisturbed, Running
<1>1. CASE DriverFill \/ InferenceStep \/ UNCHANGED vars
  <2>1. UNCHANGED <<streaming, capture, stopper>>
    BY <1>1 DEF vars, driver, capture, stopper, DriverFill, Qbuf, QbufFails,
       InferAt, InferGoto, InferenceStep, InfLoop, InfWait, InfStart, InfSelect,
       InfStatus, InfResult, InfImage, InfPost, InfRequeue, InfEnable, InfExit
  <2> QED  BY <2>1 DEF capture, stopper
<1>2. CASE StopStep
  BY <1>2 DEF StopStep, StopAt, StopBegin, StopCaptureFlag, StopInferenceFlag,
     StopJoinCapture, StopJoinInference, StopCloseCamera, StopDrpClose
<1>3. CASE CaptureStep
  <2>1. UNCHANGED <<streaming, stopPc>>
    BY <1>3 DEF CaptureAt, driver, stopper, Qbuf, QbufFails, CaptureStep, CapLoop, CapDqbuf,
       CapDqbufFails, CapCheck, CapClear, CapSync, CapAddress, CapImage, CapWake,
       CapFrame, CapSend, CapRequeue, CapExit
  <2>2. CASE CapDqbuf
    BY <2>1, <2>2, DqbufEffect, BuffersAssumption DEF CapDqbuf, IInv
  <2>3. CASE CapLoop
    BY <2>1, <2>3 DEF CapLoop, CaptureAt, IInv, FlagsUp
  <2>4. CASE CapRequeue
    <3>1. ~QbufFails(buf_capture) \/ buf_capture = inference_buf_capture
      BY <2>4 DEF CapRequeue, CaptureAt, QbufFails, IInv, CaptureBuffer, Held
    <3> QED  BY <2>1, <2>4, <3>1 DEF CapRequeue, CaptureAt
  <2> QED  BY <1>3, <2>1, <2>2, <2>3, <2>4 DEF CaptureStep, CaptureAt, CapDqbufFails,
              CapCheck, CapClear, CapSync, CapAddress, CapImage, CapWake, CapFrame,
              CapSend, CapExit
<1> QED  BY <1>1, <1>2, <1>3 DEF Next

\* A step that leaves the place alone and keeps its buffer out of the queue is a
\* Camera step, or no step, of the abstract specification.
LEMMA CameraStep ==
    ASSUME TypeOK', slot' = slot, frameBar' = frameBar, UNCHANGED sent_result,
           frameBar \notin Queued'
    PROVE  Abstract!Camera
<1>1. Queued' \subseteq Buffers
  BY DEF TypeOK, Queued, Range
<1> QED  BY <1>1 DEF Abstract!Camera, frameBar

\* Each step of an undisturbed session maps to a step of FrameHandoff.
LEMMA StepSimulation ==
    IInv /\ IInv' /\ Undisturbed /\ Undisturbed' /\ [Next]_vars
        => [Abstract!Next]_(Abstract!vars)
<1> SUFFICES ASSUME IInv, IInv', Undisturbed, Undisturbed', [Next]_vars
             PROVE  [Abstract!Next]_(Abstract!vars)
  OBVIOUS
<1> USE DEF slot, frameBar, Busy, Idle
<1>1. TypeOK /\ TypeOK' /\ NoBuf \notin Queued'
  BY BuffersAssumption DEF IInv, TypeOK, Queued, Range
<1>2. CASE DriverFill \/ UNCHANGED vars
  <2>1. UNCHANGED <<drv, wake_, inference_buf_capture, infer>>
    BY <1>2 DEF DriverFill, vars, handoff, infer
  <2> QED  BY <2>1, QueuedUnchanged DEF Abstract!vars, infer
<1>3. CASE CaptureStep
  <2>1. UNCHANGED infer
    BY <1>3 DEF infer, CaptureAt, CaptureStep, CapLoop, CapDqbuf, CapDqbufFails,
       CapCheck, CapClear, CapSync, CapAddress, CapImage, CapWake, CapFrame, CapSend,
       CapRequeue, CapExit
  <2> USE DEF CaptureAt
  <2>2. CASE CapWake
    <3>1. Offer /\ inference_buf_capture = buf_capture /\ buf_capture \notin Queued
      BY <2>2 DEF CapWake, IInv, Turn, Open, Offer, Woken, Working, Offering,
         Undisturbed, OfferedFrame
    <3>2. slot = "open" /\ slot' = "offered" /\ inference_buf_capture' = inference_buf_capture
          /\ Queued' = Queued
      BY <2>1, <2>2, <3>1, QueuedUnchanged DEF CapWake, Offer, infer, handoff, driver
    <3>3. Abstract!Offer(inference_buf_capture)
      BY <2>1, <3>1, <3>2 DEF Abstract!Offer, infer
    <3> QED  BY <1>1, <3>3 DEF Abstract!Next, TypeOK
  <2>3. CASE ~CapWake
    <3>1. wake_' = wake_
      BY <1>3, <2>3 DEF CaptureStep, CapLoop, CapDqbuf, CapDqbufFails, CapCheck, CapClear,
         CapSync, CapAddress, CapImage, CapFrame, CapSend, CapRequeue, CapExit,
         Undisturbed, Running
    <3>2. slot' = slot
      BY <2>1, <3>1 DEF infer
    <3>3. frameBar' = frameBar
      <4>1. CASE CapSync
        BY <2>1, <3>1, <4>1 DEF CapSync, IInv, Turn, Open, Offer, Woken, Working,
           Offering, Undisturbed, infer
      <4>2. CASE ~CapSync
        BY <1>3, <2>1, <3>1, <4>2 DEF CaptureStep, CapLoop, CapDqbuf, CapDqbufFails,
           CapCheck, CapClear, CapAddress, CapImage, CapWake, CapFrame, CapSend,
           CapRequeue, CapExit, handoff, infer
      <4> QED  BY <4>1, <4>2
    <3>4. frameBar \notin Queued'
      <4>1. HandedOver' => inference_buf_capture' \notin Queued'
        BY DEF IInv, HandedFrame, Undisturbed
      <4>2. frameBar' = NoBuf \/ (HandedOver' /\ frameBar' = inference_buf_capture')
        BY DEF HandedOver
      <4> QED  BY <1>1, <3>3, <4>1, <4>2
    <3> QED  BY <1>1, <2>1, <3>2, <3>3, <3>4, CameraStep DEF Abstract!Next, infer
  <2> QED  BY <2>2, <2>3
<1>4. CASE InferenceStep
  <2> USE DEF InferAt, InferGoto
  <2>1. CASE InfWait
    <3>1. slot = "offered" /\ slot' = "taken" /\ inference_buf_capture' = inference_buf_capture
          /\ Queued' = Queued /\ sent_result' = sent_result
      BY <2>1, QueuedUnchanged DEF InfWait, handoff, driver
    <3> QED  BY <3>1 DEF Abstract!Next, Abstract!Take
  <2>2. CASE InfPost
    <3>1. slot = "taken" /\ slot' = "answered" /\ inference_buf_capture' = inference_buf_capture
          /\ Queued' = Queued
      BY <2>2, QueuedUnchanged DEF InfPost, handoff, driver
    <3>2. drp_input = inference_buf_capture /\ predict_image = inference_buf_capture
      BY <2>2 DEF InfPost, IInv, HandedFrame, HandedOver, Undisturbed
    <3>3. sent_result' = [input |-> inference_buf_capture, image |-> inference_buf_capture]
      BY <2>2, <3>2 DEF InfPost
    <3> QED  BY <3>1, <3>3 DEF Abstract!Next, Abstract!Answer
  <2>3. CASE InfRequeue /\ Qbuf(inference_buf_capture) /\ infPc' = "enable"
    <3>1. slot = "answered" /\ slot' = "returned" /\ sent_result' = sent_result
      BY <2>3 DEF InfRequeue
    <3>2. Queued' = Queued \cup {inference_buf_capture}
      BY <1>1, <2>3, QbufEffect DEF TypeOK
    <3> QED  BY <3>1, <3>2 DEF Abstract!Next, Abstract!Return
  <2>4. CASE InfRequeue /\ QbufFails(inference_buf_capture) /\ infPc' = "exit"
    <3>1. slot = "answered" /\ slot' = "returned" /\ sent_result' = sent_result
          /\ Queued' = Queued
      BY <2>4, QueuedUnchanged DEF InfRequeue, QbufFails, driver
    <3> QED  BY <3>1 DEF Abstract!Next, Abstract!Abandon
  <2>5. CASE InfEnable \/ InfExit
    <3>1. ~wake_
      BY <2>5 DEF InfEnable, InfExit, IInv, Turn, Open, Offer, Woken, Working, Undisturbed
    <3>2. slot = "returned" /\ slot' = "open" /\ sent_result' = sent_result
          /\ Queued' = Queued
      BY <2>5, <3>1, QueuedUnchanged DEF InfEnable, InfExit, driver
    <3> QED  BY <3>2 DEF Abstract!Next, Abstract!Reopen
  <2>6. CASE /\ infPc \in {"start", "drp", "status", "result"}
             /\ infPc' = "exit"
             /\ UNCHANGED <<driver, sent_result>>
    <3>1. slot = "taken" /\ slot' = "returned" /\ Queued' = Queued
      BY <2>6, QueuedUnchanged DEF driver
    <3> QED  BY <2>6, <3>1 DEF Abstract!Next, Abstract!Abandon
  <2>7. CASE /\ UNCHANGED <<driver, sent_result, wake_, inference_buf_capture>>
             /\ \/ infPc \in {"start", "drp", "status", "result", "image"} /\
                   infPc' \in {"drp", "status", "result", "image", "post"}
                \/ infPc \in {"loop", "wait"} /\ infPc' \in {"loop", "wait"}
    <3>1. slot' = slot /\ Queued' = Queued
      BY <2>7, QueuedUnchanged DEF driver
    <3> QED  BY <2>7, <3>1 DEF Abstract!vars
  <2> QED  BY <1>4, <2>1, <2>2, <2>3, <2>4, <2>5, <2>6, <2>7
           DEF InferenceStep, InfLoop, InfStart, InfSelect, InfStatus, InfResult,
               InfImage, InfRequeue, handoff, IInv, FlagsUp, Undisturbed
<1>5. CASE StopStep
  BY <1>5 DEF StopStep, StopBegin, StopCaptureFlag, StopInferenceFlag,
     StopJoinCapture, StopJoinInference, StopCloseCamera, StopDrpClose, Undisturbed,
     StopAt
<1> QED  BY <1>2, <1>3, <1>4, <1>5 DEF Next

\* The session implements the abstract hand-over: what is offered is taken once,
\* answered by a result about itself, and not written by the camera meanwhile.
THEOREM HandoffImplemented ==
    ASSUME MayStop = FALSE, CameraMayFail = FALSE
    PROVE  Spec => ImplementsHandoff
<1>1. Init => Abstract!Init
  <2> SUFFICES ASSUME Init PROVE Abstract!Init
    OBVIOUS
  <2>1. Queued = Buffers
    <3>1. drv \in [1 .. Cardinality(Buffers) -> Buffers] /\ IsInjective(drv)
      BY DEF Init
    <3>2. Cardinality(Buffers) \in Nat
      BY BuffersAssumption, FS_CardinalityType
    <3>3. Range(drv) \subseteq Buffers
      BY <3>1 DEF Range
    <3>4. Cardinality(Range(drv)) = Cardinality(Buffers)
      <4>1. drv \in Bijection(1 .. Cardinality(Buffers), Range(drv))
        BY <3>1 DEF Range, IsInjective, Bijection, Injection, Surjection
      <4>2. IsFiniteSet(Range(drv))
        BY <3>3, BuffersAssumption, FS_Subset
      <4>3. ExistsBijection(1 .. Cardinality(Buffers), Range(drv))
        BY <4>1 DEF ExistsBijection
      <4> QED  BY <3>2, <4>2, <4>3, FS_CountingElements
    <3> QED  BY <3>3, <3>4, BuffersAssumption, FS_Subset DEF Queued
  <2> QED  BY <2>1 DEF Init, Abstract!Init, slot, Busy
<1>2. Init => Undisturbed
  BY DEF Init, Undisturbed, Running
<1>3. IInv /\ Undisturbed /\ [Next]_vars => Undisturbed'
  BY StaysUndisturbed
<1>4. IInv /\ IInv' /\ Undisturbed /\ Undisturbed' /\ [Next]_vars
        => [Abstract!Next]_(Abstract!vars)
  BY StepSimulation
<1> QED  BY <1>1, <1>2, <1>3, <1>4, HandoffInvariant, PTL
         DEF Spec, ImplementsHandoff, Abstract!Spec
=============================================================================
