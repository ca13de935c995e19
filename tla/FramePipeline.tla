--------------------------- MODULE FramePipeline ---------------------------
(***************************************************************************)
(* The loop of start_recorder (src/src/video.cpp) and the port callbacks   *)
(* it shares buffers with: raw frames go from the camera's video port to   *)
(* the encoder's input, coded ones from the encoder's output to the        *)
(* application's callback, and every buffer back to its pool.              *)
(*                                                                         *)
(* The camera and the encoder are MMAL components with threads of their    *)
(* own; they are modelled by what the loop relies on, and by what an       *)
(* mmal_port_disable that failed leaves of it: the port is still enabled,  *)
(* with its buffers, and runs callbacks.  A frame is a number, in the      *)
(* order of capture; 0 stands for no frame.                                *)
(***************************************************************************)
EXTENDS Naturals, Sequences, FiniteSets, SequencesExt

CONSTANTS RawBuffers,     \* pool_encoder_in
          CodedBuffers,   \* pool_encoder_out
          MaxFrames,      \* bound: frames the camera captures
          Failures        \* whether calls into MMAL may fail

ASSUME PipelineAssumption == /\ IsFiniteSet(RawBuffers) /\ IsFiniteSet(CodedBuffers)
                             /\ RawBuffers \cap CodedBuffers = {}
                             /\ MaxFrames \in Nat
                             /\ Failures \in BOOLEAN

VARIABLES
    pc,          \* the loop: "wait", "fillVideo", "fillOutput", "sendFrame", "takeEncoded",
                 \* "callback", then "disableVideo", "disableInput", "disableOutput", "disabled"
    stop,        \* *stop
    events,      \* MMAL_CAM_BUFFER_READY in the event flags
    raising,     \* port callbacks that have queued a buffer and not set the event yet
    rawPool,     \* pool_encoder_in->queue
    atCamera,    \* sent to video_port
    queueIn,     \* queue_encoder_in
    atEncoder,   \* sent to encoder_input
    inside,      \* the frame the encoder works on
    codedPool,   \* pool_encoder_out->queue
    atOutput,    \* sent to encoder_output
    queueOut,    \* queue_encoder_out
    held,        \* the buffer taken from it, as a sequence
    frame,       \* the frame in each buffer
    captured,    \* the last frame captured
    delivered,   \* the last frame the callback was given
    enabled,     \* ports with is_enabled set whose component runs callbacks
    failed       \* ports whose last disable failed

rawVars   == <<rawPool, atCamera, queueIn, atEncoder>>
codedVars == <<codedPool, atOutput, queueOut, held>>
portVars  == <<enabled, failed>>
flowVars  == <<pc, stop, events, raising, rawVars, inside, codedVars, frame, captured, delivered>>
vars      == <<flowVars, portVars>>

Ports == {"video", "input", "output"}

\* no port is enabled before start_recorder does it
Init == /\ enabled = {} /\ failed = {}
        /\ pc = "wait" /\ stop = FALSE /\ events = FALSE /\ raising = {}
        /\ rawPool \in SetToSeqs(RawBuffers) /\ codedPool \in SetToSeqs(CodedBuffers)
        /\ atCamera = <<>> /\ queueIn = <<>> /\ atEncoder = <<>>
        /\ atOutput = <<>> /\ queueOut = <<>> /\ held = <<>>
        /\ inside = 0 /\ frame = [b \in RawBuffers \union CodedBuffers |-> 0]
        /\ captured = 0 /\ delivered = 0

-----------------------------------------------------------------------------
(* Faulty variants, not part of Next.                                      *)

\* no timeout any more once frames come in
WaitForEvent == /\ pc = "wait" /\ (events \/ captured = 0)
                /\ events' = FALSE
                /\ pc' = IF stop THEN "disableVideo" ELSE "fillVideo"
                /\ UNCHANGED <<stop, raising, rawVars, inside, codedVars, frame, captured, delivered, portVars>>

\* a buffer that was refused is not put back
RefusedAndLost == /\ Failures
                  /\ pc = "sendFrame" /\ queueIn # <<>>
                  /\ queueIn' = Tail(queueIn)
                  /\ pc' = "disableVideo"
                  /\ UNCHANGED <<stop, events, raising, rawPool, atCamera, atEncoder, inside,
                                 codedVars, frame, captured, delivered, portVars>>

\* a failure goes straight to the label "error"
RefusedGotoError == /\ Failures
                    /\ \/ pc = "fillVideo" /\ rawPool # <<>>
                       \/ pc = "fillOutput" /\ codedPool # <<>>
                       \/ pc = "sendFrame" /\ queueIn # <<>>
                    /\ pc' = "disabled"
                    /\ UNCHANGED <<stop, events, raising, rawVars, inside, codedVars, frame, captured,
                                   delivered, portVars>>

\* the callback puts the buffer at the head of the queue
CaptureAtHead == /\ "video" \in enabled /\ atCamera # <<>> /\ "video" \notin raising /\ captured < MaxFrames
                 /\ captured' = captured + 1
                 /\ frame' = [frame EXCEPT ![Head(atCamera)] = captured + 1]
                 /\ queueIn' = <<Head(atCamera)>> \o queueIn
                 /\ atCamera' = Tail(atCamera)
                 /\ raising' = raising \union {"video"}
                 /\ UNCHANGED <<pc, stop, events, rawPool, atEncoder, inside, codedVars, delivered, portVars>>

-----------------------------------------------------------------------------
(* The loop                                                                *)

\* vcos_event_flags_get returns at an event or after its timeout; then *stop is read
Wait == /\ pc = "wait"
        /\ events' = FALSE
        /\ pc' = IF stop THEN "disableVideo" ELSE "fillVideo"
        /\ UNCHANGED <<stop, raising, rawVars, inside, codedVars, frame, captured, delivered, portVars>>

\* fill_port_from_pool(video_port): buffer after buffer
FillVideo == /\ pc = "fillVideo"
             /\ IF rawPool = <<>>
                  THEN pc' = "fillOutput" /\ UNCHANGED <<rawPool, atCamera>>
                  ELSE /\ atCamera' = Append(atCamera, Head(rawPool))
                       /\ rawPool' = Tail(rawPool)
                       /\ UNCHANGED pc
             /\ UNCHANGED <<stop, events, raising, queueIn, atEncoder, inside, codedVars, frame,
                            captured, delivered, portVars>>

\* fill_port_from_pool(encoder_output)
FillOutput == /\ pc = "fillOutput"
              /\ IF codedPool = <<>>
                   THEN pc' = "sendFrame" /\ UNCHANGED <<codedPool, atOutput>>
                   ELSE /\ atOutput' = Append(atOutput, Head(codedPool))
                        /\ codedPool' = Tail(codedPool)
                        /\ UNCHANGED pc
              /\ UNCHANGED <<stop, events, raising, rawVars, inside, queueOut, held, frame,
                             captured, delivered, portVars>>

\* send_buffer_from_queue(encoder_input): one buffer at most
SendFrame == /\ pc = "sendFrame"
             /\ IF queueIn = <<>>
                  THEN UNCHANGED <<queueIn, atEncoder>>
                  ELSE /\ atEncoder' = Append(atEncoder, Head(queueIn))
                       /\ queueIn' = Tail(queueIn)
             /\ pc' = "takeEncoded"
             /\ UNCHANGED <<stop, events, raising, rawPool, atCamera, inside, codedVars, frame,
                            captured, delivered, portVars>>

\* a port refuses the buffer: it is put back where it was, the loop ends
Refused == /\ Failures
           /\ \/ pc = "fillVideo" /\ rawPool # <<>>
              \/ pc = "fillOutput" /\ codedPool # <<>>
              \/ pc = "sendFrame" /\ queueIn # <<>>
           /\ pc' = "disableVideo"
           /\ UNCHANGED <<stop, events, raising, rawVars, inside, codedVars, frame, captured, delivered, portVars>>

\* one coded buffer at most
TakeEncoded == /\ pc = "takeEncoded"
               /\ IF queueOut = <<>>
                    THEN pc' = "wait" /\ UNCHANGED <<queueOut, held>>
                    ELSE /\ held' = <<Head(queueOut)>>
                         /\ queueOut' = Tail(queueOut)
                         /\ pc' = "callback"
               /\ UNCHANGED <<stop, events, raising, rawVars, inside, codedPool, atOutput, frame,
                              captured, delivered, portVars>>

\* the callback returns; mmal_buffer_header_release: back to the pool
Callback == /\ pc = "callback"
            /\ delivered' = frame[held[1]]
            /\ codedPool' = Append(codedPool, held[1])
            /\ held' = <<>>
            /\ pc' = "wait"
            /\ UNCHANGED <<stop, events, raising, rawVars, inside, atOutput, queueOut, frame, captured, portVars>>

\* a disabled port hands its buffers to its callback, with no frame in them
Emptied(buffers) == [b \in DOMAIN frame |-> IF b \in ToSet(buffers) THEN 0 ELSE frame[b]]

EmptyVideo == /\ queueIn' = queueIn \o atCamera
              /\ frame' = Emptied(atCamera)
              /\ atCamera' = <<>>
              /\ events' = (events \/ atCamera # <<>>)
              /\ UNCHANGED <<rawPool, atEncoder, inside, codedVars>>

EmptyInput == /\ rawPool' = rawPool \o atEncoder
              /\ atEncoder' = <<>>
              /\ events' = (events \/ atEncoder # <<>>)
              /\ UNCHANGED <<atCamera, queueIn, inside, codedVars, frame>>

EmptyOutput == /\ queueOut' = queueOut \o atOutput
               /\ frame' = Emptied(atOutput)
               /\ atOutput' = <<>>
               /\ inside' = 0
               /\ events' = (events \/ atOutput # <<>>)
               /\ UNCHANGED <<rawVars, codedPool, held>>

\* mmal_port_disable returns when no callback of the port runs any more
Disabled(port) == /\ port \in enabled /\ port \notin raising
                  /\ enabled' = enabled \ {port}
                  /\ failed' = failed \ {port}
                  /\ UNCHANGED raising
                  /\ \/ port = "video" /\ EmptyVideo
                     \/ port = "input" /\ EmptyInput
                     \/ port = "output" /\ EmptyOutput

\* it fails: is_enabled is set again, the buffers and the callback stay
DisableFails(port) == /\ Failures
                      /\ port \in enabled
                      /\ failed' = failed \union {port}
                      /\ UNCHANGED <<enabled, events, raising, rawVars, inside, codedVars, frame>>

\* disable_port, and whoever else ignores what mmal_port_disable returns
DisablePort(port) == /\ \/ port \notin enabled /\ UNCHANGED <<portVars, events, raising, rawVars, inside, codedVars, frame>>
                        \/ Disabled(port)
                        \/ DisableFails(port)
                     /\ UNCHANGED <<stop, captured, delivered>>

DisableVideo  == pc = "disableVideo"  /\ DisablePort("video")  /\ pc' = "disableInput"
DisableInput  == pc = "disableInput"  /\ DisablePort("input")  /\ pc' = "disableOutput"
DisableOutput == pc = "disableOutput" /\ DisablePort("output") /\ pc' = "disabled"

\* a port that is still enabled is disabled once more when its pool or its component goes
DisableAgain(port) == DisablePort(port) /\ UNCHANGED pc

Loop == \/ Wait \/ FillVideo \/ FillOutput \/ SendFrame \/ Refused \/ TakeEncoded \/ Callback
        \/ DisableVideo \/ DisableInput \/ DisableOutput
-----------------------------------------------------------------------------
(* The components, and the callbacks they run; somebody sets *stop         *)

\* generic_output_port_cb of video_port
Capture == /\ "video" \in enabled /\ atCamera # <<>> /\ "video" \notin raising /\ captured < MaxFrames
           /\ captured' = captured + 1
           /\ frame' = [frame EXCEPT ![Head(atCamera)] = captured + 1]
           /\ queueIn' = Append(queueIn, Head(atCamera))
           /\ atCamera' = Tail(atCamera)
           /\ raising' = raising \union {"video"}
           /\ UNCHANGED <<pc, stop, events, rawPool, atEncoder, inside, codedVars, delivered, portVars>>

\* no buffer for the frame
DropFrame == /\ atCamera = <<>> /\ captured < MaxFrames
             /\ captured' = captured + 1
             /\ UNCHANGED <<pc, stop, events, raising, rawVars, inside, codedVars, frame, delivered, portVars>>

\* generic_input_port_cb: the encoder has taken the frame, the buffer is released to its pool
EncoderTakes == /\ "input" \in enabled /\ atEncoder # <<>> /\ inside = 0 /\ "input" \notin raising
                /\ inside' = frame[Head(atEncoder)]
                /\ rawPool' = Append(rawPool, Head(atEncoder))
                /\ atEncoder' = Tail(atEncoder)
                /\ raising' = raising \union {"input"}
                /\ UNCHANGED <<pc, stop, events, atCamera, queueIn, codedVars, frame, captured, delivered, portVars>>

\* generic_output_port_cb of encoder_output
EncoderEmits == /\ "output" \in enabled /\ inside # 0 /\ atOutput # <<>> /\ "output" \notin raising
                /\ frame' = [frame EXCEPT ![Head(atOutput)] = inside]
                /\ inside' = 0
                /\ queueOut' = Append(queueOut, Head(atOutput))
                /\ atOutput' = Tail(atOutput)
                /\ raising' = raising \union {"output"}
                /\ UNCHANGED <<pc, stop, events, rawVars, codedPool, held, captured, delivered, portVars>>

\* the end of a callback: vcos_event_flags_set
SetEvent(port) == /\ port \in raising
                  /\ events' = TRUE
                  /\ raising' = raising \ {port}
                  /\ UNCHANGED <<pc, stop, rawVars, inside, codedVars, frame, captured, delivered, portVars>>

Stop == /\ ~stop
        /\ stop' = TRUE
        /\ UNCHANGED <<pc, events, raising, rawVars, inside, codedVars, frame, captured, delivered, portVars>>

Components == EncoderTakes \/ EncoderEmits \/ \E port \in Ports : SetEvent(port)

Next == \/ Loop \/ Components \/ Capture \/ DropFrame \/ Stop
        \/ \E port \in Ports : DisableAgain(port)

-----------------------------------------------------------------------------
(* Properties                                                              *)

Looping == {"wait", "fillVideo", "fillOutput", "sendFrame", "takeEncoded", "callback"}

TypeOK == /\ pc \in Looping \union {"disableVideo", "disableInput", "disableOutput", "disabled"}
          /\ stop \in BOOLEAN /\ events \in BOOLEAN /\ raising \subseteq Ports
          /\ \A s \in {rawPool, atCamera, queueIn, atEncoder} : s \in Seq(RawBuffers)
          /\ \A s \in {codedPool, atOutput, queueOut, held} : s \in Seq(CodedBuffers)
          /\ {inside, captured, delivered} \subseteq 0..MaxFrames
          /\ frame \in [RawBuffers \union CodedBuffers -> 0..MaxFrames]
          /\ enabled \subseteq Ports /\ failed \subseteq Ports
          /\ Len(held) = (IF pc = "callback" THEN 1 ELSE 0)

(* No buffer is lost or is in two places, whatever fails and wherever the  *)
(* loop is left: the pools, the ports, the queues and the callback hold    *)
(* each of them once.                                                      *)
BuffersConserved ==
    LET raw   == rawPool \o atCamera \o queueIn \o atEncoder
        coded == codedPool \o atOutput \o queueOut \o held
    IN  /\ IsInjective(raw)   /\ ToSet(raw) = RawBuffers
        /\ IsInjective(coded) /\ ToSet(coded) = CodedBuffers

(* Frames stay in the order of capture all the way to the callback; none   *)
(* is delivered twice.                                                     *)
Frames(s)     == [i \in 1..Len(s) |-> frame[s[i]]]
Ascending(ns) == \A i, j \in 1..Len(ns) : i < j /\ ns[i] # 0 /\ ns[j] # 0 => ns[i] < ns[j]

InOrder == Ascending(<<delivered>> \o Frames(held) \o Frames(queueOut) \o <<inside>>
                         \o Frames(atEncoder) \o Frames(queueIn))

(* When the loop has disabled its ports, a port whose disable did not     *)
(* fail is disabled, holds no buffer and runs no callback that is still    *)
(* going to touch a pool, a queue or the event flags.                      *)
At        == [port \in Ports |-> CASE port = "video"  -> atCamera
                                   [] port = "input"  -> atEncoder
                                   [] port = "output" -> atOutput]
Idle(port) == At[port] = <<>> /\ port \notin raising

Quiescent == pc = "disabled" => \A port \in Ports \ failed : port \notin enabled /\ Idle(port)

(* A captured frame is given to the callback unless the loop ends: the     *)
(* loop passes on one buffer per wake-up, but an event that was consumed   *)
(* for two buffers delays the second one by a timeout at most.             *)
CapturedIsDelivered ==
    \A n \in 1..MaxFrames :
        (\E i \in 1..Len(queueIn) : frame[queueIn[i]] = n) ~> (delivered >= n \/ pc \notin Looping)
=============================================================================
