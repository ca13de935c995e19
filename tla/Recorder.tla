------------------------------ MODULE Recorder ------------------------------
(***************************************************************************)
(* start_recorder (src/src/video.cpp) from its first line to its return:   *)
(* the setup, each step of which may fail, the loop of FramePipeline, and  *)
(* the teardown behind the label "error" that every failure jumps to.      *)
(* Beside it the caller that waits for init_sem.                           *)
(*                                                                         *)
(* start_recorder ignores what the disables and destroys of its teardown   *)
(* return.  A port that could not be disabled runs callbacks until its     *)
(* component is destroyed: what such a callback uses may be gone by then.  *)
(***************************************************************************)
EXTENDS FramePipeline

VARIABLES at,          \* where start_recorder is
          exists,      \* what it has created and not destroyed yet
          named,       \* its local pointers that are not null
          twice,       \* what was destroyed while it did not exist
          kept,        \* components that could not be destroyed
          initResult,  \* behaviour->init_result
          initSem      \* posts of behaviour->init_sem

setupVars    == <<at, exists, named, twice, kept, initResult, initSem>>
recorderVars == <<vars, setupVars>>

Pools  == {"pool_encoder_in", "pool_encoder_out"}
Parts  == {"camera", "encoder"}
Queues == {"queue_encoder_in", "queue_encoder_out"}

RecorderInit == /\ Init
                /\ at = "flags"
                /\ exists = {} /\ named = {} /\ twice = {} /\ kept = {}
                /\ initResult = "SUCCESS" /\ initSem = 0

-----------------------------------------------------------------------------
(* Steps                                                                   *)

\* a step succeeds with what it creates and the ports it enables, and goes on
Creates(what, ports, next) == /\ exists' = exists \union what
                              /\ named' = named \union what
                              /\ enabled' = enabled \union ports
                              /\ at' = next
                              /\ UNCHANGED <<failed, twice, kept, initResult, initSem>>

\* faulty variant of the next one: goto error without a result
FailsSilently(why) == /\ at' = "poolIn"
                      /\ UNCHANGED <<portVars, exists, named, twice, kept, initResult, initSem>>

\* a step cleans up after itself, start_recorder notes what failed: goto error
Fails(why) == /\ initResult' = why
              /\ at' = "poolIn"
              /\ UNCHANGED <<portVars, exists, named, twice, kept, initSem>>

\* if (pointer) destroy(pointer), for each of these; a second destroy of the
\* same memory may pass or end the program
Destroys(what, next) == /\ exists' = exists \ (named \cap what)
                        /\ twice' = twice \union ((named \cap what) \ exists)
                        /\ at' \in IF named \cap what \subseteq exists THEN {next} ELSE {next, "aborted"}
                        /\ UNCHANGED <<named, kept, initResult, initSem>>

Goes(next) == at' = next /\ UNCHANGED <<exists, named, twice, kept, initResult, initSem>>

-----------------------------------------------------------------------------
(* Faulty variants, not part of RecorderNext.                              *)

\* no port is disabled after the loop
LoopReturnsAtOnce == /\ at = "loop" /\ pc = "disableVideo"
                     /\ Goes("poolIn")
                     /\ UNCHANGED vars

\* the error path of connect_ports without its two destroys
ConnectLeaks == /\ at = "connect"
                /\ named' = named \ {"pool_encoder_in", "queue_encoder_in"}
                /\ exists' = exists \union {"pool_encoder_in", "queue_encoder_in"}
                /\ initResult' = "ERROR_ENCODER_IN"
                /\ at' = "poolIn"
                /\ UNCHANGED <<portVars, twice, kept, initSem>>

-----------------------------------------------------------------------------
(* Setup                                                                   *)

CreateFlags == /\ at = "flags"
               /\ \/ Creates({"events"}, {}, "camera")
                  \/ Fails("ERROR_EVENT_FLAGS")

\* create_camera and create_encoder destroy their component when they fail
CreateCamera == /\ at = "camera"
                /\ \/ Creates({"camera"}, {}, "encoder")
                   \/ Fails("ERROR_CAMERA")

CreateEncoder == /\ at = "encoder"
                 /\ \/ Creates({"encoder"}, {}, "connect")
                    \/ Fails("ERROR_ENCODER")

\* connect_ports fails before there is anything, or setup_output_port does and cleans up
ConnectPorts == /\ at = "connect"
                /\ \/ Creates({"pool_encoder_in", "queue_encoder_in"}, {"video", "input"}, "encoderOut")
                   \/ Fails("ERROR_ENCODER_IN")

\* the input port cannot be enabled: connect_ports disables the output port, if
\* that works, destroys the pool and the queue and leaves the caller's pointers to
\* them as they are
ConnectInputFails == /\ at = "connect"
                     /\ named' = named \union {"pool_encoder_in", "queue_encoder_in"}
                     /\ initResult' = "ERROR_ENCODER_IN"
                     /\ at' = "poolIn"
                     /\ \/ UNCHANGED portVars
                        \/ Failures /\ enabled' = enabled \union {"video"} /\ failed' = failed \union {"video"}
                     /\ UNCHANGED <<exists, twice, kept, initSem>>

SetupEncoderOut == /\ at = "encoderOut"
                   /\ \/ Creates({"pool_encoder_out", "queue_encoder_out"}, {"output"}, "capture")
                      \/ Fails("ERROR_ENCODER_OUT")

StartCapture == /\ at = "capture"
                /\ \/ Creates({}, {}, "ready")
                   \/ Fails("ERROR_CAMERA_CAPTURE")

Ready == /\ at = "ready"
         /\ initResult' = "SUCCESS"
         /\ initSem' = initSem + 1
         /\ at' = "loop"
         /\ UNCHANGED <<portVars, exists, named, twice, kept>>

Setup == \/ CreateFlags \/ CreateCamera \/ CreateEncoder \/ ConnectPorts \/ ConnectInputFails
         \/ SetupEncoderOut \/ StartCapture \/ Ready

-----------------------------------------------------------------------------
(* Teardown                                                                *)

\* the loop has done its disables and falls through to the label "error"
LoopReturns == /\ at = "loop" /\ pc = "disabled"
               /\ Goes("poolIn")
               /\ UNCHANGED vars

\* mmal_port_pool_destroy: a port that is still enabled is disabled first
DestroyPool(here, pool, port, next) == /\ at = here
                                       /\ IF pool \in named THEN DisableAgain(port) ELSE UNCHANGED vars
                                       /\ Destroys({pool}, next)

\* mmal_component_destroy: so is every port of the component
DisablePortOf(here, part, port, next) == /\ at = here
                                         /\ IF part \in named THEN DisableAgain(port) ELSE UNCHANGED vars
                                         /\ Goes(next)

\* ... then its action thread is joined, which ends its callbacks, and VideoCore
\* destroys it or does not
DestroyPart(here, part, ports, next) ==
    /\ at = here
    /\ raising \cap ports = {}
    /\ enabled' = enabled \ ports
    /\ \/ Destroys({part}, next)
       \/ /\ Failures /\ part \in named
          /\ kept' = kept \union {part}
          /\ at' = next
          /\ UNCHANGED <<exists, named, twice, initResult, initSem>>
    /\ UNCHANGED <<flowVars, failed>>

DestroyPools   == \/ DestroyPool("poolIn", "pool_encoder_in", "video", "poolOut")
                  \/ DestroyPool("poolOut", "pool_encoder_out", "output", "disableInputOf")

DestroyEncoder == \/ DisablePortOf("disableInputOf", "encoder", "input", "disableOutputOf")
                  \/ DisablePortOf("disableOutputOf", "encoder", "output", "destroyEncoder")
                  \/ DestroyPart("destroyEncoder", "encoder", {"input", "output"}, "disableVideoOf")

DestroyCamera  == \/ DisablePortOf("disableVideoOf", "camera", "video", "destroyCamera")
                  \/ DestroyPart("destroyCamera", "camera", {"video"}, "queues")

DestroyQueues  == at = "queues" /\ Destroys(Queues, "deleteFlags") /\ UNCHANGED vars

\* unconditional: the flags have no pointer to test
DeleteFlags == /\ at = "deleteFlags"
               /\ exists' = exists \ {"events"}
               /\ twice' = twice \union ({"events"} \ exists)
               /\ at' = "post"
               /\ UNCHANGED <<vars, named, kept, initResult, initSem>>

Post == /\ at = "post"
        /\ initSem' = IF initResult # "SUCCESS" THEN initSem + 1 ELSE initSem
        /\ at' = "returned"
        /\ UNCHANGED <<vars, exists, named, twice, kept, initResult>>

Teardown == \/ LoopReturns \/ DestroyPools \/ DestroyEncoder \/ DestroyCamera
            \/ DestroyQueues \/ DeleteFlags \/ Post

-----------------------------------------------------------------------------
(* The loop and the callbacks.  The buffers are sent in the loop; a        *)
(* callback that comes later uses what is gone without being noticed, or   *)
(* ends the program.                                                       *)
Uses == [port \in Ports |-> CASE port = "video"  -> {"pool_encoder_in", "queue_encoder_in"}
                              [] port = "input"  -> {"pool_encoder_in"}
                              [] port = "output" -> {"pool_encoder_out", "queue_encoder_out"}]

RunsLoop == at = "loop" /\ (Loop \/ DropFrame) /\ UNCHANGED setupVars

RunsCallback == at # "aborted" /\ (Components \/ Capture) /\ UNCHANGED setupVars

LateCallback(port) == /\ at # "aborted" /\ port \in enabled
                      /\ \/ At[port] # <<>> /\ ~(Uses[port] \subseteq exists)
                         \/ port \in raising /\ "events" \notin exists
                      /\ Goes("aborted")
                      /\ UNCHANGED vars

RecorderNext == \/ Setup /\ UNCHANGED flowVars
                \/ Teardown
                \/ RunsLoop \/ RunsCallback
                \/ \E port \in Ports : LateCallback(port)
                \/ Stop /\ UNCHANGED setupVars

RecorderSpec == RecorderInit /\ [][RecorderNext]_recorderVars

(* start_recorder keeps running, the encoder works and its callbacks       *)
(* return.  Nothing makes the camera capture, a send fail or somebody stop *)
(* it.                                                                     *)
RecorderFairSpec == /\ RecorderSpec
                    /\ WF_recorderVars(Setup /\ UNCHANGED flowVars)
                    /\ WF_recorderVars(Teardown)
                    /\ WF_recorderVars(at = "loop" /\ Loop /\ UNCHANGED setupVars)
                    /\ WF_recorderVars(at = "loop" /\ EncoderTakes /\ UNCHANGED setupVars)
                    /\ WF_recorderVars(at = "loop" /\ EncoderEmits /\ UNCHANGED setupVars)
                    /\ \A port \in Ports :
                          WF_recorderVars(at # "aborted" /\ SetEvent(port) /\ UNCHANGED setupVars)

-----------------------------------------------------------------------------
(* Properties                                                              *)

Resources == Pools \union Parts \union Queues \union {"events"}

RecorderTypeOK ==
    /\ TypeOK
    /\ at \in {"flags", "camera", "encoder", "connect", "encoderOut", "capture", "ready", "loop",
               "poolIn", "poolOut", "disableInputOf", "disableOutputOf", "destroyEncoder", "disableVideoOf",
               "destroyCamera", "queues", "deleteFlags", "post", "returned", "aborted"}
    /\ kept \subseteq Parts
    /\ exists \subseteq Resources /\ named \subseteq Resources /\ twice \subseteq Resources
    /\ initResult \in {"SUCCESS", "ERROR_EVENT_FLAGS", "ERROR_CAMERA", "ERROR_ENCODER",
                       "ERROR_ENCODER_IN", "ERROR_ENCODER_OUT", "ERROR_CAMERA_CAPTURE"}
    /\ initSem \in 0..1

(* init_sem is posted once, on every path: when the setup is complete or   *)
(* at the very end, never both and never neither.                          *)
PostedOnce ==
    initSem = IF \/ at = "returned"
                 \/ initResult = "SUCCESS" /\ at \notin {"flags", "camera", "encoder", "connect",
                                                        "encoderOut", "capture", "ready"}
                THEN 1 ELSE 0

(* Whatever fails, nothing that was created outlives start_recorder but a  *)
(* component MMAL would not destroy, and nothing is destroyed that does    *)
(* not exist - but for the two failures whose clean-up start_recorder      *)
(* repeats.                                                                *)
Balanced == /\ at = "returned" => exists \subseteq kept
            /\ twice # {} => initResult \in {"ERROR_EVENT_FLAGS", "ERROR_ENCODER_IN"}

(* The pools are owned by the components: they go first, and when a pool   *)
(* has gone none of its buffers is at a port and no callback with one of   *)
(* them is running - unless the port is one whose last disable failed.     *)
PoolOf(port) == IF port = "output" THEN "pool_encoder_out" ELSE "pool_encoder_in"

PoolsGoFirst == /\ exists \cap Pools # {} => Parts \subseteq exists
                /\ \A port \in Ports \ failed : PoolOf(port) \in named \ exists => Idle(port)

(* A recorder told to stop returns.                                        *)
StopReturns == stop ~> at \in {"returned", "aborted"}

(* mmal_pool.h: destroying a pool deallocates all of its memory; it is not  *)
(* destroyed again.                                                        *)
PoolsDestroyedOnce == twice \cap Pools = {}
=============================================================================
