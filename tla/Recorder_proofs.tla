-------------------------- MODULE Recorder_proofs --------------------------
(***************************************************************************)
(* What start_recorder promises for any finite pools, any number of frames *)
(* and whatever fails: only a port whose disable failed is not quiescent   *)
(* when the loop ends or its pool goes, init_sem is posted once, the       *)
(* teardown is balanced, no buffer is lost or in two places, and frames    *)
(* reach the program in order.                                             *)
(***************************************************************************)
EXTENDS Recorder, FiniteSetTheorems, SequenceTheorems, TLAPS

-----------------------------------------------------------------------------
(* The invariants.                                                         *)

\* a disabled port holds nothing, and what the loop has disabled is disabled or failed
PortInv ==
    /\ raising \subseteq enabled /\ enabled \subseteq Ports
    /\ "video" \notin enabled \union failed => atCamera = <<>>
    /\ "input" \notin enabled \union failed => atEncoder = <<>>
    /\ "output" \notin enabled \union failed => atOutput = <<>>
    /\ pc \in {"disableInput", "disableOutput", "disabled"} => "video" \notin enabled \ failed
    /\ pc \in {"disableOutput", "disabled"} => "input" \notin enabled \ failed
    /\ pc = "disabled" => "output" \notin enabled \ failed

SetupPoints == {"flags", "camera", "encoder", "connect", "encoderOut", "capture", "ready"}
Repeats     == {"ERROR_EVENT_FLAGS", "ERROR_ENCODER_IN"}

AtRest == /\ atCamera = <<>> /\ atEncoder = <<>> /\ atOutput = <<>>
          /\ raising = {}

\* only the loop sends buffers, with all ports enabled, and it is left through the disables
StageInv ==
    /\ at = "encoderOut" => {"video", "input"} \subseteq enabled
    /\ at \in {"capture", "ready"} => enabled = Ports
    /\ at = "loop" /\ pc \in Looping => enabled = Ports
    /\ at # "loop" => pc = "disabled" \/ (pc = "wait" /\ AtRest)
    /\ at \in SetupPoints \/ initResult # "SUCCESS" => pc = "wait"

\* setup and loop: what is named exists, in the order it was created
SetupInv ==
    /\ initResult = "SUCCESS" /\ exists = named /\ twice = {}
    /\ at = "flags" => exists = {}
    /\ at # "flags" => "events" \in exists
    /\ at = "encoder" => "camera" \in exists
    /\ at \in {"flags", "camera", "encoder", "connect"} => exists \cap Pools = {}
    /\ at \in {"connect", "encoderOut", "capture", "ready", "loop"} => Parts \subseteq exists
    /\ at \in {"encoderOut", "capture", "ready", "loop"} => {"pool_encoder_in", "queue_encoder_in"} \subseteq exists
    /\ at \in {"capture", "ready", "loop"} => {"pool_encoder_out", "queue_encoder_out"} \subseteq exists

\* the teardown, from each of its points on
FromCamera  == {"disableVideoOf", "destroyCamera"}
FromQueues  == {"queues", "deleteFlags", "post", "returned"}
FromEncoder == {"disableInputOf", "disableOutputOf", "destroyEncoder"}

\* teardown: what is left, and that all of it is there unless a clean-up is repeated
TeardownInv ==
    /\ exists \subseteq named \union {"events"}
    /\ at \in {"poolIn", "poolOut", "aborted"} => (exists \cap Pools # {} => Parts \subseteq exists)
    /\ at = "poolOut" => "pool_encoder_in" \notin exists
    /\ at \in FromEncoder \union FromCamera \union FromQueues => exists \cap Pools = {}
    /\ at \in FromCamera \union FromQueues => "encoder" \notin exists \ kept
    /\ at \in FromQueues => "camera" \notin exists \ kept
    /\ at \in {"deleteFlags", "post", "returned"} => exists \cap Queues = {}
    /\ at \in {"post", "returned"} => "events" \notin exists
    /\ initResult \notin Repeats =>
          /\ twice = {}
          /\ at = "poolIn" => named \subseteq exists
          /\ at = "poolOut" => named \ {"pool_encoder_in"} \subseteq exists
          /\ at \in FromEncoder => named \cap (Parts \union Queues) \subseteq exists
          /\ at \in FromCamera => named \cap ({"camera"} \union Queues) \subseteq exists
          /\ at = "queues" => named \cap Queues \subseteq exists
          /\ at \in {"poolIn", "poolOut", "queues", "deleteFlags"} \union FromEncoder \union FromCamera
               => "events" \in exists

RecorderInv ==
    /\ PostedOnce
    /\ exists \subseteq Resources
    /\ IF at \in SetupPoints \union {"loop"}
         THEN SetupInv
         ELSE /\ TeardownInv
              /\ at \in {"poolIn", "poolOut", "aborted"} \union FromEncoder \union FromCamera \union FromQueues

AllInv == PortInv /\ StageInv /\ RecorderInv

\* Nothing exists, runs or is enabled at first
LEMMA AllInvInit == RecorderInit => AllInv
BY DEF RecorderInit, Init, AllInv, PortInv, StageInv, AtRest, RecorderInv, SetupInv, PostedOnce,
       SetupPoints, Pools, Parts, Resources

-----------------------------------------------------------------------------
(* The ports                                                               *)

\* What the disables do to the buffers
Disabling == DisableVideo \/ DisableInput \/ DisableOutput \/ \E port \in Ports : DisableAgain(port)

LEMMA Disables ==
    ASSUME Disabling
    PROVE  /\ UNCHANGED <<stop, raising, captured, delivered>>
           /\ EmptyVideo \/ EmptyInput \/ EmptyOutput \/ UNCHANGED <<events, rawVars, inside, codedVars, frame>>
           /\ pc' = pc \/ (pc # "callback" /\ pc' \in {"disableInput", "disableOutput", "disabled"})
BY DEF Disabling, DisableVideo, DisableInput, DisableOutput, DisableAgain, DisablePort, Disabled, DisableFails

\* One port after the other
LEMMA DisablePortKeeps ==
    ASSUME PortInv, NEW port \in Ports, DisablePort(port)
    PROVE  /\ raising' = raising /\ raising' \subseteq enabled' /\ enabled' \subseteq enabled
           /\ port \notin enabled' \ failed'
           /\ enabled' \ failed' \subseteq enabled \ failed
           /\ AtRest => AtRest'
           /\ "video" \notin enabled' \union failed' => atCamera' = <<>>
           /\ "input" \notin enabled' \union failed' => atEncoder' = <<>>
           /\ "output" \notin enabled' \union failed' => atOutput' = <<>>
<1>1. CASE port \notin enabled /\ UNCHANGED <<portVars, events, raising, rawVars, inside, codedVars, frame>>
  BY <1>1 DEF PortInv, AtRest, portVars, rawVars, codedVars
<1>2. CASE Disabled(port)
  <2>1. CASE port = "video" /\ EmptyVideo
    BY <1>2, <2>1 DEF Disabled, EmptyVideo, PortInv, AtRest, codedVars
  <2>2. CASE port = "input" /\ EmptyInput
    BY <1>2, <2>2 DEF Disabled, EmptyInput, PortInv, AtRest, codedVars
  <2>3. CASE port = "output" /\ EmptyOutput
    BY <1>2, <2>3 DEF Disabled, EmptyOutput, PortInv, AtRest, rawVars
  <2> QED BY <1>2, <2>1, <2>2, <2>3 DEF Disabled
<1>3. CASE DisableFails(port)
  BY <1>3 DEF DisableFails, PortInv, AtRest, rawVars, codedVars
<1> QED BY <1>1, <1>2, <1>3 DEF DisablePort

\* The disables of the loop
LEMMA LoopDisablesPorts ==
    ASSUME PortInv, DisableVideo \/ DisableInput \/ DisableOutput PROVE PortInv' /\ pc' \notin Looping
<1>1. CASE DisableVideo
  BY <1>1, DisablePortKeeps DEF DisableVideo, PortInv, Ports, Looping
<1>2. CASE DisableInput
  BY <1>2, DisablePortKeeps DEF DisableInput, PortInv, Ports, Looping
<1>3. CASE DisableOutput
  BY <1>3, DisablePortKeeps DEF DisableOutput, PortInv, Ports, Looping
<1> QED BY <1>1, <1>2, <1>3

\* The disables of the teardown
LEMMA DisabledAgain ==
    ASSUME PortInv, NEW port \in Ports, DisableAgain(port)
    PROVE  PortInv' /\ pc' = pc /\ (AtRest => AtRest')
BY DisablePortKeeps DEF DisableAgain, PortInv

\* The rest of the loop, with all ports enabled
LEMMA LoopKeepsPorts ==
    ASSUME PortInv, pc \in Looping => enabled = Ports, Loop
    PROVE  PortInv' /\ (pc' \in Looping => enabled' = Ports)
<1>1. CASE Wait \/ FillVideo \/ FillOutput \/ SendFrame
  BY <1>1 DEF PortInv, Wait, FillVideo, FillOutput, SendFrame, Looping, Ports, portVars, rawVars, codedVars
<1>2. CASE Refused \/ TakeEncoded \/ Callback
  BY <1>2 DEF PortInv, Refused, TakeEncoded, Callback, Looping, Ports, portVars, rawVars, codedVars
<1>3. CASE DisableVideo \/ DisableInput \/ DisableOutput
  BY <1>3, LoopDisablesPorts
<1> QED BY <1>1, <1>2, <1>3 DEF Loop

\* The camera, the encoder and the callbacks' ends
LEMMA ComponentsKeepPorts ==
    ASSUME PortInv, Components \/ Capture \/ DropFrame \/ Stop
    PROVE  PortInv' /\ UNCHANGED <<pc, portVars>> /\ (AtRest => AtRest')
<1>1. CASE EncoderTakes
  BY <1>1 DEF PortInv, AtRest, EncoderTakes, Ports, portVars, rawVars, codedVars
<1>2. CASE EncoderEmits
  BY <1>2 DEF PortInv, AtRest, EncoderEmits, Ports, portVars, rawVars, codedVars
<1>3. CASE \E port \in Ports : SetEvent(port)
  BY <1>3 DEF PortInv, AtRest, SetEvent, Ports, portVars, rawVars, codedVars
<1>4. CASE Capture
  BY <1>4 DEF PortInv, AtRest, Capture, Ports, portVars, rawVars, codedVars
<1>5. CASE DropFrame \/ Stop
  BY <1>5 DEF PortInv, AtRest, DropFrame, Stop, portVars, rawVars, codedVars
<1> QED BY <1>1, <1>2, <1>3, <1>4, <1>5 DEF Components

\* Nothing at all
LEMMA StutterKeepsPorts ==
    ASSUME PortInv, UNCHANGED vars PROVE PortInv' /\ UNCHANGED <<pc, portVars>> /\ (AtRest => AtRest')
BY DEF PortInv, AtRest, vars, flowVars, portVars, rawVars, codedVars

-----------------------------------------------------------------------------
(* Every step of start_recorder                                            *)

\* Every step of the setup, successful or not
LEMMA SetupKeeps == ASSUME RecorderInv, Setup PROVE RecorderInv'
<1> USE DEF RecorderInv, SetupInv, TeardownInv, Creates, Fails, PostedOnce, SetupPoints, Repeats,
            FromEncoder, FromCamera, FromQueues, Pools, Parts, Queues, Resources
<1>1. CASE CreateFlags
  BY <1>1 DEF CreateFlags
<1>2. CASE CreateCamera
  BY <1>2 DEF CreateCamera
<1>3. CASE CreateEncoder
  BY <1>3 DEF CreateEncoder
<1>4. CASE ConnectPorts
  BY <1>4 DEF ConnectPorts
<1>5. CASE ConnectInputFails
  BY <1>5 DEF ConnectInputFails
<1>6. CASE SetupEncoderOut
  BY <1>6 DEF SetupEncoderOut
<1>7. CASE StartCapture
  BY <1>7 DEF StartCapture
<1>8. CASE Ready
  BY <1>8 DEF Ready
<1> QED BY <1>1, <1>2, <1>3, <1>4, <1>5, <1>6, <1>7, <1>8 DEF Setup

\* It enables ports, and sends nothing to them
LEMMA SetupKeepsPorts ==
    ASSUME PortInv, StageInv, Setup, UNCHANGED flowVars PROVE PortInv' /\ StageInv'
<1>1. pc = "wait" /\ AtRest /\ pc' = pc /\ AtRest'
  BY DEF StageInv, SetupPoints, AtRest, flowVars, rawVars, codedVars, Setup, CreateFlags, CreateCamera,
         CreateEncoder, ConnectPorts, ConnectInputFails, SetupEncoderOut, StartCapture, Ready
<1>2. enabled' \subseteq Ports
  BY DEF PortInv, Ports, portVars, Creates, Fails, Setup, CreateFlags, CreateCamera, CreateEncoder,
         ConnectPorts, ConnectInputFails, SetupEncoderOut, StartCapture, Ready
<1>3. PortInv'
  BY <1>1, <1>2 DEF PortInv, AtRest
<1>4. /\ at' = "encoderOut" => {"video", "input"} \subseteq enabled'
      /\ at' \in {"capture", "ready", "loop"} => enabled' = Ports
  BY <1>2 DEF StageInv, PortInv, Ports, portVars, Creates, Fails, Setup, CreateFlags, CreateCamera,
         CreateEncoder, ConnectPorts, ConnectInputFails, SetupEncoderOut, StartCapture, Ready
<1> QED BY <1>1, <1>3, <1>4 DEF StageInv

\* Every step of the teardown
LEMMA TeardownKeeps == ASSUME RecorderInv, Teardown PROVE RecorderInv'
<1> USE DEF RecorderInv, SetupInv, TeardownInv, Destroys, Goes, PostedOnce, SetupPoints, Repeats,
            FromEncoder, FromCamera, FromQueues, Pools, Parts, Queues, Resources
<1>1. CASE LoopReturns
  BY <1>1 DEF LoopReturns
<1>2. CASE DestroyPools
  <2>1. CASE DestroyPool("poolIn", "pool_encoder_in", "video", "poolOut")
    BY <2>1 DEF DestroyPool
  <2>2. CASE DestroyPool("poolOut", "pool_encoder_out", "output", "disableInputOf")
    BY <2>2 DEF DestroyPool
  <2> QED BY <1>2, <2>1, <2>2 DEF DestroyPools
<1>3. CASE DestroyEncoder
  <2>1. CASE DisablePortOf("disableInputOf", "encoder", "input", "disableOutputOf")
    BY <2>1 DEF DisablePortOf
  <2>2. CASE DisablePortOf("disableOutputOf", "encoder", "output", "destroyEncoder")
    BY <2>2 DEF DisablePortOf
  <2>3. CASE DestroyPart("destroyEncoder", "encoder", {"input", "output"}, "disableVideoOf")
    BY <2>3 DEF DestroyPart
  <2> QED BY <1>3, <2>1, <2>2, <2>3 DEF DestroyEncoder
<1>4. CASE DestroyCamera
  <2>1. CASE DisablePortOf("disableVideoOf", "camera", "video", "destroyCamera")
    BY <2>1 DEF DisablePortOf
  <2>2. CASE DestroyPart("destroyCamera", "camera", {"video"}, "queues")
    BY <2>2 DEF DestroyPart
  <2> QED BY <1>4, <2>1, <2>2 DEF DestroyCamera
<1>5. CASE DestroyQueues
  BY <1>5 DEF DestroyQueues
<1>6. CASE DeleteFlags
  BY <1>6 DEF DeleteFlags
<1>7. CASE Post
  BY <1>7 DEF Post
<1> QED BY <1>1, <1>2, <1>3, <1>4, <1>5, <1>6, <1>7 DEF Teardown

\* What it does to the pipeline: nothing, one more disable, or the end of a component
LEMMA TeardownSteps ==
    ASSUME Teardown
    PROVE  /\ at' \notin SetupPoints \union {"loop"} /\ initResult' = initResult
           /\ at # "loop" \/ pc = "disabled"
           /\ at \notin SetupPoints
           /\ \/ UNCHANGED vars
              \/ \E port \in Ports : DisableAgain(port)
              \/ \E ports \in SUBSET Ports : /\ raising \cap ports = {} /\ enabled' = enabled \ ports
                                             /\ UNCHANGED <<flowVars, failed>>
<1> USE DEF Goes, Destroys, SetupPoints, Ports
<1>1. CASE LoopReturns
  BY <1>1 DEF LoopReturns
<1>2. CASE DestroyPools
  BY <1>2 DEF DestroyPools, DestroyPool
<1>3. CASE DestroyEncoder
  BY <1>3 DEF DestroyEncoder, DisablePortOf, DestroyPart
<1>4. CASE DestroyCamera
  BY <1>4 DEF DestroyCamera, DisablePortOf, DestroyPart
<1>5. CASE DestroyQueues
  BY <1>5 DEF DestroyQueues
<1>6. CASE DeleteFlags \/ Post
  BY <1>6 DEF DeleteFlags, Post
<1> QED BY <1>1, <1>2, <1>3, <1>4, <1>5, <1>6 DEF Teardown

LEMMA TeardownKeepsPorts == ASSUME PortInv, StageInv, Teardown PROVE PortInv' /\ StageInv'
<1>1. PortInv' /\ pc' = pc /\ (AtRest => AtRest')
  <2>1. CASE UNCHANGED vars
    BY <2>1, StutterKeepsPorts
  <2>2. CASE \E port \in Ports : DisableAgain(port)
    BY <2>2, DisabledAgain
  <2>3. ASSUME NEW ports \in SUBSET Ports, raising \cap ports = {}, enabled' = enabled \ ports,
               UNCHANGED <<flowVars, failed>>
        PROVE  PortInv' /\ pc' = pc /\ (AtRest => AtRest')
    <3>1. CASE AtRest
      BY <2>3, <3>1 DEF PortInv, AtRest, flowVars, rawVars, codedVars
    <3>2. CASE pc = "disabled"
      BY <2>3, <3>2 DEF PortInv, AtRest, flowVars, rawVars, codedVars
    <3> QED BY <3>1, <3>2, TeardownSteps DEF StageInv
  <2> QED BY <2>1, <2>2, <2>3, TeardownSteps
<1>2. pc' = "disabled" \/ (pc' = "wait" /\ AtRest')
  BY <1>1, TeardownSteps DEF StageInv
<1>3. initResult' # "SUCCESS" => pc' = "wait"
  BY <1>1, TeardownSteps DEF StageInv
<1> QED BY <1>1, <1>2, <1>3, TeardownSteps DEF StageInv, SetupPoints

\* A late callback ends the program only after a complete setup
LEMMA LateCallbackKeeps ==
    ASSUME AllInv, NEW port \in Ports, LateCallback(port) PROVE AllInv'
<1>1. at' = "aborted" /\ UNCHANGED <<exists, named, twice, kept, initResult, initSem, vars>> /\ at # "aborted"
  BY DEF LateCallback, Goes
<1>2. PortInv' /\ UNCHANGED <<pc, portVars>> /\ (AtRest => AtRest')
  BY <1>1, StutterKeepsPorts DEF AllInv
<1>3. ~AtRest
  BY DEF LateCallback, At, AtRest, Ports
<1>4. at # "loop"
  BY DEF LateCallback, Uses, Ports, AllInv, RecorderInv, SetupInv
<1>5. pc = "disabled" /\ initResult = "SUCCESS" /\ at \notin SetupPoints
  BY <1>3, <1>4 DEF AllInv, StageInv
<1>6. RecorderInv'
  BY <1>1, <1>4, <1>5 DEF AllInv, RecorderInv, TeardownInv, PostedOnce, SetupPoints, Repeats,
         FromEncoder, FromCamera, FromQueues
<1>7. StageInv'
  BY <1>1, <1>2, <1>5 DEF StageInv, SetupPoints
<1> QED BY <1>2, <1>6, <1>7 DEF AllInv

\* The loop, the callbacks and *stop leave start_recorder where it is
LEMMA OthersKeep == ASSUME RecorderInv, UNCHANGED setupVars PROVE RecorderInv'
BY DEF RecorderInv, SetupInv, TeardownInv, PostedOnce, setupVars

LEMMA LoopKeeps == ASSUME AllInv, RunsLoop PROVE AllInv'
<1>1. at = "loop" /\ at' = at /\ initResult' = initResult /\ initResult = "SUCCESS"
  BY DEF RunsLoop, setupVars, AllInv, RecorderInv, SetupInv
<1>2. PortInv' /\ (pc' \in Looping => enabled' = Ports)
  BY <1>1, LoopKeepsPorts, ComponentsKeepPorts DEF RunsLoop, AllInv, StageInv, portVars
<1>3. StageInv'
  BY <1>1, <1>2 DEF StageInv, SetupPoints
<1> QED BY <1>2, <1>3, OthersKeep DEF AllInv, RunsLoop

LEMMA CallbacksKeep ==
    ASSUME AllInv, Components \/ Capture \/ Stop \/ UNCHANGED vars, UNCHANGED setupVars PROVE AllInv'
<1>1. PortInv' /\ UNCHANGED <<pc, portVars>> /\ (AtRest => AtRest')
  BY ComponentsKeepPorts, StutterKeepsPorts DEF AllInv
<1>2. StageInv'
  BY <1>1 DEF AllInv, StageInv, setupVars, portVars
<1> QED BY <1>1, <1>2, OthersKeep DEF AllInv

LEMMA AllStep == AllInv /\ [RecorderNext]_recorderVars => AllInv'
<1> SUFFICES ASSUME AllInv, [RecorderNext]_recorderVars PROVE AllInv'
    OBVIOUS
<1>1. CASE Setup /\ UNCHANGED flowVars
  BY <1>1, SetupKeeps, SetupKeepsPorts DEF AllInv
<1>2. CASE Teardown
  BY <1>2, TeardownKeeps, TeardownKeepsPorts DEF AllInv
<1>3. CASE RunsLoop
  BY <1>3, LoopKeeps
<1>4. CASE RunsCallback
  BY <1>4, CallbacksKeep DEF RunsCallback
<1>5. CASE \E port \in Ports : LateCallback(port)
  BY <1>5, LateCallbackKeeps
<1>6. CASE Stop /\ UNCHANGED setupVars
  BY <1>6, CallbacksKeep
<1>7. CASE UNCHANGED recorderVars
  BY <1>7, CallbacksKeep DEF recorderVars
<1> QED BY <1>1, <1>2, <1>3, <1>4, <1>5, <1>6, <1>7 DEF RecorderNext

-----------------------------------------------------------------------------
(* What follows from it                                                    *)

\* A port that is disabled, and did not fail, is idle
LEMMA DisabledIsIdle ==
    ASSUME PortInv, NEW port \in Ports, port \notin enabled \union failed PROVE Idle(port)
BY DEF PortInv, Idle, At, Ports

(* For every pool, however the loop is left - *stop or a refused buffer -  *)
(* and whichever disables fail: at its end a port whose disable did not    *)
(* fail is disabled, holds no buffer and has no callback under way.        *)
THEOREM LoopEndsQuiescent == RecorderSpec => []Quiescent
<1>1. AllInv => Quiescent
  <2> SUFFICES ASSUME AllInv, pc = "disabled", NEW port \in Ports \ failed
               PROVE  port \notin enabled /\ Idle(port)
      BY DEF Quiescent
  <2>1. port \notin enabled
    BY DEF AllInv, PortInv, Ports
  <2> QED BY <2>1, DisabledIsIdle DEF AllInv
<1> QED BY <1>1, AllInvInit, AllStep, PTL DEF RecorderSpec

(* init_sem is posted exactly once on every path through start_recorder.   *)
THEOREM SemaphorePostedOnce == RecorderSpec => []PostedOnce
<1>1. AllInv => PostedOnce
  BY DEF AllInv, RecorderInv
<1> QED BY <1>1, AllInvInit, AllStep, PTL DEF RecorderSpec

(* Nothing outlives start_recorder but a component MMAL would not destroy, *)
(* and only the two failures whose clean-up is repeated destroy something  *)
(* that does not exist.                                                    *)
THEOREM TeardownBalanced == RecorderSpec => []Balanced
<1>1. AllInv => Balanced
  BY DEF AllInv, RecorderInv, SetupInv, TeardownInv, Balanced, SetupPoints, Repeats, FromEncoder, FromCamera,
         FromQueues, Pools, Parts, Queues, Resources
<1> QED BY <1>1, AllInvInit, AllStep, PTL DEF RecorderSpec

(* The pools are destroyed before the components that own them, and when a *)
(* pool has gone only a port whose last disable failed holds one of its    *)
(* buffers or runs a callback.                                             *)
THEOREM PoolsDestroyedFirst == RecorderSpec => []PoolsGoFirst
<1>1. AllInv => PoolsGoFirst
  <2> SUFFICES ASSUME AllInv PROVE PoolsGoFirst
      OBVIOUS
  <2>1. exists \cap Pools # {} => Parts \subseteq exists
    BY DEF AllInv, RecorderInv, SetupInv, TeardownInv, SetupPoints, FromEncoder, FromCamera, FromQueues,
           Pools, Parts
  <2>2. ASSUME NEW port \in Ports \ failed, PoolOf(port) \in named \ exists PROVE Idle(port)
    <3>1. at \notin SetupPoints \union {"loop"}
      BY <2>2 DEF AllInv, RecorderInv, SetupInv
    <3>2. CASE pc = "disabled"
      <4>1. port \notin enabled
        BY <3>2 DEF AllInv, PortInv, Ports
      <4> QED BY <4>1, DisabledIsIdle DEF AllInv
    <3>3. CASE AtRest
      BY <3>3 DEF AtRest, Idle, At, Ports
    <3> QED BY <3>1, <3>2, <3>3 DEF AllInv, StageInv
  <2> QED BY <2>1, <2>2 DEF PoolsGoFirst
<1> QED BY <1>1, AllInvInit, AllStep, PTL DEF RecorderSpec

-----------------------------------------------------------------------------
(* Sequences that hold each of their elements once                         *)

\* A permutation of a finite set holds all of it.
LEMMA Permutation ==
  ASSUME NEW S, IsFiniteSet(S), NEW f \in SetToSeqs(S)
  PROVE  f \in Seq(S) /\ IsInjective(f) /\ ToSet(f) = S
<1> DEFINE D == 1..Cardinality(S)
<1>1. Cardinality(S) \in Nat
      BY FS_CardinalityType
<1>2. f \in [D -> S] /\ \A i, j \in D : i # j => f[i] # f[j]
      BY DEF SetToSeqs
<1>3. f \in Seq(S) /\ DOMAIN f = D
      BY <1>1, <1>2
<1>4. IsInjective(f)
      BY <1>2 DEF IsInjective
<1>5. f \in Injection(D, S)
      BY <1>2, <1>4 DEF Injection
<1>6. Cardinality(D) = Cardinality(S)
      BY <1>1, FS_Interval
<1>7. f \in Surjection(D, S)
      BY <1>5, <1>6, FS_Injection
<1> QED
    BY <1>2, <1>3, <1>4, <1>7 DEF Surjection, ToSet

\* s and t hold what they hold once and in one of the two.
Share(s, t) == IsInjective(s) /\ IsInjective(t) /\ ToSet(s) \cap ToSet(t) = {}

LEMMA Concatenated ==
  ASSUME NEW S, NEW s \in Seq(S), NEW t \in Seq(S)
  PROVE  /\ s \o t \in Seq(S)
         /\ ToSet(s \o t) = ToSet(s) \union ToSet(t)
         /\ IsInjective(s \o t) <=> Share(s, t)
<1> DEFINE st == s \o t
<1>1. /\ st \in Seq(S) /\ Len(st) = Len(s) + Len(t) /\ Len(s) \in Nat /\ Len(t) \in Nat
      /\ \A i \in 1..Len(s) : i \in 1..Len(st) /\ st[i] = s[i]
      /\ \A i \in 1..Len(t) : Len(s) + i \in 1..Len(st) /\ st[Len(s) + i] = t[i]
      OBVIOUS
<1>2. \A i \in 1..Len(st) : i \in 1..Len(s) \/ (i - Len(s) \in 1..Len(t) /\ st[i] = t[i - Len(s)])
      BY <1>1
<1>3. DOMAIN s = 1..Len(s) /\ DOMAIN t = 1..Len(t) /\ DOMAIN st = 1..Len(st)
      BY <1>1
<1> HIDE DEF st
<1>4. ToSet(st) = ToSet(s) \union ToSet(t)
  <2>1. ToSet(st) \subseteq ToSet(s) \union ToSet(t)
        BY <1>1, <1>2, <1>3 DEF ToSet
  <2>2. ToSet(s) \subseteq ToSet(st) /\ ToSet(t) \subseteq ToSet(st)
        BY <1>1, <1>3 DEF ToSet
  <2> QED
      BY <2>1, <2>2
<1>5. IsInjective(st) => Share(s, t)
  <2> SUFFICES ASSUME IsInjective(st) PROVE Share(s, t)
      OBVIOUS
  <2>1. IsInjective(s)
        BY <1>1, <1>3 DEF IsInjective
  <2>2. IsInjective(t)
    <3> SUFFICES ASSUME NEW i \in 1..Len(t), NEW j \in 1..Len(t), t[i] = t[j] PROVE i = j
        BY <1>3 DEF IsInjective
    <3>a. /\ Len(s) + i \in DOMAIN st /\ st[Len(s) + i] = t[i]
          /\ Len(s) + j \in DOMAIN st /\ st[Len(s) + j] = t[j]
          BY <1>1, <1>3
    <3>1. Len(s) + i = Len(s) + j
          BY <3>a, ZenonT(30) DEF IsInjective
    <3> QED
        BY <1>1, <3>1
  <2>3. ASSUME NEW i \in 1..Len(s), NEW j \in 1..Len(t), s[i] = t[j] PROVE FALSE
    <3>1. i = Len(s) + j
          BY <1>1, <1>3, <2>3 DEF IsInjective
    <3> QED
        BY <1>1, <3>1
  <2> QED
      BY <1>3, <2>1, <2>2, <2>3 DEF Share, ToSet
<1>6. Share(s, t) => IsInjective(st)
  <2> SUFFICES ASSUME Share(s, t), NEW i \in 1..Len(st), NEW j \in 1..Len(st), st[i] = st[j] PROVE i = j
      BY <1>3 DEF IsInjective
  <2>0. \A k \in 1..Len(s), l \in 1..Len(t) : s[k] # t[l]
        BY <1>3 DEF Share, ToSet
  <2>1. CASE i \in 1..Len(s) /\ j \in 1..Len(s)
        BY <1>1, <1>3, <2>1 DEF Share, IsInjective
  <2>2. CASE i \in 1..Len(s) /\ j \notin 1..Len(s)
        BY <1>1, <1>2, <2>0, <2>2, SMTT(60)
  <2>3. CASE i \notin 1..Len(s) /\ j \in 1..Len(s)
        BY <1>1, <1>2, <2>0, <2>3
  <2>4. CASE i \notin 1..Len(s) /\ j \notin 1..Len(s)
    <3>1. i - Len(s) \in 1..Len(t) /\ j - Len(s) \in 1..Len(t) /\ t[i - Len(s)] = t[j - Len(s)]
          BY <1>2, <2>4
    <3>2. i - Len(s) = j - Len(s)
          BY <1>3, <3>1 DEF Share, IsInjective
    <3> QED
        BY <1>1, <3>2
  <2> QED
      BY <2>1, <2>2, <2>3, <2>4
<1> QED
    BY <1>1, <1>4, <1>5, <1>6 DEF st

\* A buffer moves from the head of one list to the end of another.
LEMMA MoveHead ==
  ASSUME NEW S, NEW s \in Seq(S), NEW t \in Seq(S), s # <<>>
  PROVE  /\ Head(s) \in S /\ Head(s) = s[1] /\ Tail(s) \in Seq(S) /\ Append(t, Head(s)) \in Seq(S)
         /\ Share(s, t) => /\ Share(Tail(s), Append(t, Head(s)))
                           /\ ToSet(Tail(s)) \union ToSet(Append(t, Head(s))) = ToSet(s) \union ToSet(t)
<1> DEFINE x == Head(s)
<1>1. x \in S /\ x = s[1] /\ Tail(s) \in Seq(S) /\ <<x>> \in Seq(S) /\ s = <<x>> \o Tail(s)
      OBVIOUS
<1>2. Append(t, x) = t \o <<x>>
      BY <1>1
<1>3. ToSet(<<x>>) = {x} /\ IsInjective(<<x>>)
      BY DEF ToSet, IsInjective
<1> HIDE DEF x
<1>4. IsInjective(s) => Share(<<x>>, Tail(s))
      BY <1>1, Concatenated
<1>a. ToSet(<<x>> \o Tail(s)) = ToSet(<<x>>) \union ToSet(Tail(s))
  <2> DEFINE o == <<x>>
             r == Tail(s)
  <2>1. o \in Seq(S) /\ r \in Seq(S)
        BY <1>1
  <2> HIDE DEF o, r
  <2>2. ToSet(o \o r) = ToSet(o) \union ToSet(r)
        BY <2>1, Concatenated, ZenonT(60)
  <2> QED
      BY <2>2 DEF o, r
<1>5. ToSet(s) = {x} \union ToSet(Tail(s))
      BY <1>1, <1>3, <1>a
<1>6. Share(s, t) => Share(t, <<x>>)
      BY <1>3, <1>5 DEF Share
<1>b. t \o <<x>> \in Seq(S) /\ ToSet(t \o <<x>>) = ToSet(t) \union ToSet(<<x>>)
      BY <1>1, Concatenated, SMTT(60)
<1>7. Append(t, x) \in Seq(S) /\ ToSet(Append(t, x)) = ToSet(t) \union {x}
      BY <1>2, <1>3, <1>b
<1>8. IsInjective(Append(t, x)) <=> Share(t, <<x>>)
      BY <1>1, <1>2, Concatenated, ZenonT(60)
<1>9. Share(s, t) => Share(Tail(s), Append(t, x))
      BY <1>3, <1>4, <1>5, <1>6, <1>7, <1>8 DEF Share
<1>10. ToSet(Tail(s)) \union ToSet(Append(t, x)) = ToSet(s) \union ToSet(t)
      BY <1>5, <1>7
<1> QED
    BY <1>1, <1>7, <1>9, <1>10 DEF x

\* A list of one buffer.
LEMMA OneElement ==
  ASSUME NEW S, NEW s \in Seq(S), Len(s) = 1
  PROVE  s # <<>> /\ Tail(s) = <<>> /\ Head(s) = s[1] /\ s[1] \in S
<1>1. s # <<>> /\ Head(s) = s[1] /\ s[1] \in S
      OBVIOUS
<1>2. Tail(s) \in Seq(S) /\ Len(Tail(s)) = 0
      BY <1>1
<1>3. Tail(s) = <<>>
      BY <1>2, EmptySeq
<1> QED
    BY <1>1, <1>3

\* All buffers of one list move to the end of another.
LEMMA MoveAll ==
  ASSUME NEW S, NEW s \in Seq(S), NEW t \in Seq(S)
  PROVE  /\ <<>> \in Seq(S) /\ t \o s \in Seq(S)
         /\ Share(s, t) => /\ Share(<<>>, t \o s)
                           /\ ToSet(<<>>) \union ToSet(t \o s) = ToSet(s) \union ToSet(t)
<1>1. Share(s, t) => Share(t, s)
      BY DEF Share
<1>2. ToSet(<<>>) = {} /\ IsInjective(<<>>) /\ <<>> \in Seq(S)
      BY DEF ToSet, IsInjective
<1> QED
    BY <1>1, <1>2, Concatenated DEF Share

-----------------------------------------------------------------------------
(* Conservation and types                                                  *)

\* TypeOK in two parts.
Lists  == /\ rawPool \in Seq(RawBuffers) /\ atCamera \in Seq(RawBuffers)
          /\ queueIn \in Seq(RawBuffers) /\ atEncoder \in Seq(RawBuffers)
          /\ codedPool \in Seq(CodedBuffers) /\ atOutput \in Seq(CodedBuffers)
          /\ queueOut \in Seq(CodedBuffers) /\ held \in Seq(CodedBuffers)
          /\ Len(held) = (IF pc = "callback" THEN 1 ELSE 0)
Counts == /\ pc \in Looping \union {"disableVideo", "disableInput", "disableOutput", "disabled"}
          /\ stop \in BOOLEAN /\ events \in BOOLEAN /\ raising \subseteq Ports
          /\ inside \in 0..MaxFrames /\ captured \in 0..MaxFrames /\ delivered \in 0..MaxFrames
          /\ frame \in [RawBuffers \union CodedBuffers -> 0..MaxFrames]

(* BuffersConserved list by list, which is inductive.                      *)
Apart == /\ Share(rawPool, atCamera) /\ Share(rawPool, queueIn)
         /\ Share(rawPool, atEncoder) /\ Share(atCamera, queueIn)
         /\ Share(atCamera, atEncoder) /\ Share(queueIn, atEncoder)
         /\ ToSet(rawPool) \union ToSet(atCamera) \union ToSet(queueIn) \union ToSet(atEncoder) = RawBuffers
         /\ Share(codedPool, atOutput) /\ Share(codedPool, queueOut)
         /\ Share(codedPool, held) /\ Share(atOutput, queueOut)
         /\ Share(atOutput, held) /\ Share(queueOut, held)
         /\ ToSet(codedPool) \union ToSet(atOutput) \union ToSet(queueOut) \union ToSet(held) = CodedBuffers

\* s and t end to end, where they share a set.
Joined(S, s, t) == /\ s \o t \in Seq(S) /\ IsInjective(s \o t)
                   /\ ToSet(s \o t) = ToSet(s) \union ToSet(t)

\* Four lists that share a set two by two hold it once, end to end.
LEMMA FourLists ==
  ASSUME NEW S, NEW a \in Seq(S), NEW b \in Seq(S), NEW c \in Seq(S), NEW d \in Seq(S),
         Share(a, b), Share(a, c), Share(a, d), Share(b, c), Share(b, d), Share(c, d)
  PROVE  /\ IsInjective(a \o b \o c \o d)
         /\ ToSet(a \o b \o c \o d) = ToSet(a) \union ToSet(b) \union ToSet(c) \union ToSet(d)
<1>0. \A x \in Seq(S), y \in Seq(S) : Share(x, y) => Joined(S, x, y)
      BY Concatenated DEF Joined
<1>1. Joined(S, a, b)
      BY <1>0
<1> DEFINE ab == a \o b
<1>2. ab \in Seq(S) /\ IsInjective(ab) /\ ToSet(ab) = ToSet(a) \union ToSet(b)
      BY <1>1 DEF Joined
<1> HIDE DEF ab
<1>3. Share(ab, c)
      BY <1>2 DEF Share
<1>4. Joined(S, ab, c)
      BY <1>0, <1>2, <1>3
<1> DEFINE abc == ab \o c
<1>5. abc \in Seq(S) /\ IsInjective(abc) /\ ToSet(abc) = ToSet(ab) \union ToSet(c)
      BY <1>4 DEF Joined
<1> HIDE DEF abc
<1>6. Share(abc, d)
      BY <1>2, <1>5 DEF Share
<1>7. Joined(S, abc, d)
      BY <1>0, <1>5, <1>6
<1>8. IsInjective(abc \o d) /\ ToSet(abc \o d) = ToSet(a) \union ToSet(b) \union ToSet(c) \union ToSet(d)
      BY <1>2, <1>5, <1>7 DEF Joined
<1> QED
    BY <1>8 DEF abc, ab

\* The lists conserve the buffers.
LEMMA ApartIsConserved == Lists /\ Apart => BuffersConserved
<1> SUFFICES ASSUME Lists, Apart PROVE BuffersConserved
    OBVIOUS
<1>1. /\ IsInjective(rawPool \o atCamera \o queueIn \o atEncoder)
      /\ ToSet(rawPool \o atCamera \o queueIn \o atEncoder) = RawBuffers
  <2>1. /\ rawPool \in Seq(RawBuffers) /\ atCamera \in Seq(RawBuffers)
        /\ queueIn \in Seq(RawBuffers) /\ atEncoder \in Seq(RawBuffers)
        BY DEF Lists
  <2>2. /\ Share(rawPool, atCamera) /\ Share(rawPool, queueIn) /\ Share(rawPool, atEncoder)
        /\ Share(atCamera, queueIn) /\ Share(atCamera, atEncoder) /\ Share(queueIn, atEncoder)
        BY DEF Apart
  <2>3. /\ IsInjective(rawPool \o atCamera \o queueIn \o atEncoder)
        /\ ToSet(rawPool \o atCamera \o queueIn \o atEncoder)
             = ToSet(rawPool) \union ToSet(atCamera) \union ToSet(queueIn) \union ToSet(atEncoder)
        BY <2>1, <2>2, FourLists
  <2> QED
      BY <2>3 DEF Apart
<1>2. /\ IsInjective(codedPool \o atOutput \o queueOut \o held)
      /\ ToSet(codedPool \o atOutput \o queueOut \o held) = CodedBuffers
  <2>1. /\ codedPool \in Seq(CodedBuffers) /\ atOutput \in Seq(CodedBuffers)
        /\ queueOut \in Seq(CodedBuffers) /\ held \in Seq(CodedBuffers)
        BY DEF Lists
  <2>2. /\ Share(codedPool, atOutput) /\ Share(codedPool, queueOut) /\ Share(codedPool, held)
        /\ Share(atOutput, queueOut) /\ Share(atOutput, held) /\ Share(queueOut, held)
        BY DEF Apart
  <2>3. /\ IsInjective(codedPool \o atOutput \o queueOut \o held)
        /\ ToSet(codedPool \o atOutput \o queueOut \o held)
             = ToSet(codedPool) \union ToSet(atOutput) \union ToSet(queueOut) \union ToSet(held)
        BY <2>1, <2>2, FourLists
  <2> QED
      BY <2>3 DEF Apart
<1> QED
    BY <1>1, <1>2 DEF BuffersConserved

\* The pools hold everything at first.
LEMMA ListsInit == Init => Lists /\ Apart /\ Counts
<1> SUFFICES ASSUME Init PROVE Lists /\ Apart /\ Counts
    OBVIOUS
<1>1. /\ rawPool \in Seq(RawBuffers) /\ IsInjective(rawPool) /\ ToSet(rawPool) = RawBuffers
      /\ codedPool \in Seq(CodedBuffers) /\ IsInjective(codedPool) /\ ToSet(codedPool) = CodedBuffers
      BY PipelineAssumption, Permutation DEF Init
<1>2. IsInjective(<<>>) /\ ToSet(<<>>) = {}
      BY DEF IsInjective, ToSet
<1>3. Lists
      BY <1>1 DEF Init, Lists
<1>4. Apart
      BY <1>1, <1>2 DEF Init, Apart, Share
<1>5. 0 \in 0..MaxFrames
      BY PipelineAssumption
<1>6. frame \in [RawBuffers \union CodedBuffers -> 0..MaxFrames]
      BY <1>5 DEF Init
<1>7. Counts
      BY <1>5, <1>6 DEF Init, Counts, Looping
<1> QED
    BY <1>3, <1>4, <1>7

\* Every step keeps the lists typed.
LEMMA ListsStep == Lists /\ [Next]_flowVars => Lists'
<1> SUFFICES ASSUME Lists, [Next]_flowVars PROVE Lists'
    OBVIOUS
<1> USE DEF Lists, rawVars, codedVars
<1>1. CASE Wait
      BY <1>1 DEF Wait
<1>2. CASE FillVideo
  <2>1. CASE rawPool = <<>>
        BY <1>2, <2>1 DEF FillVideo
  <2>2. CASE rawPool # <<>>
    <3>1. rawPool' = Tail(rawPool) /\ atCamera' = Append(atCamera, Head(rawPool))
          BY <1>2, <2>2 DEF FillVideo
    <3> QED
        BY <1>2, <2>2, <3>1, MoveHead DEF FillVideo
  <2> QED
      BY <2>1, <2>2
<1>3. CASE FillOutput
  <2>1. CASE codedPool = <<>>
        BY <1>3, <2>1 DEF FillOutput
  <2>2. CASE codedPool # <<>>
    <3>1. codedPool' = Tail(codedPool) /\ atOutput' = Append(atOutput, Head(codedPool))
          BY <1>3, <2>2 DEF FillOutput
    <3> QED
        BY <1>3, <2>2, <3>1, MoveHead DEF FillOutput
  <2> QED
      BY <2>1, <2>2
<1>4. CASE SendFrame
  <2>1. CASE queueIn = <<>>
        BY <1>4, <2>1 DEF SendFrame
  <2>2. CASE queueIn # <<>>
    <3>1. queueIn' = Tail(queueIn) /\ atEncoder' = Append(atEncoder, Head(queueIn))
          BY <1>4, <2>2 DEF SendFrame
    <3> QED
        BY <1>4, <2>2, <3>1, MoveHead DEF SendFrame
  <2> QED
      BY <2>1, <2>2
<1>5. CASE Refused
      BY <1>5 DEF Refused
<1>6. CASE TakeEncoded
  <2>1. CASE queueOut = <<>>
        BY <1>6, <2>1 DEF TakeEncoded
  <2>2. CASE queueOut # <<>>
    <3>0. held = <<>>
          BY <1>6 DEF TakeEncoded
    <3>1. queueOut' = Tail(queueOut) /\ held' = Append(held, Head(queueOut))
          BY <1>6, <2>2, <3>0, Append(<<>>, Head(queueOut)) = <<Head(queueOut)>> DEF TakeEncoded
    <3> QED
        BY <1>6, <2>2, <3>1, MoveHead DEF TakeEncoded
  <2> QED
      BY <2>1, <2>2
<1>7. CASE Callback
  <2>1. held # <<>> /\ held' = Tail(held) /\ codedPool' = Append(codedPool, Head(held))
        BY <1>7, OneElement DEF Callback
  <2> QED
      BY <1>7, <2>1, MoveHead DEF Callback
<1>8. CASE Disabling
  <2>p. pc' = pc \/ (pc # "callback" /\ pc' # "callback")
        BY <1>8, Disables
  <2>1. CASE EmptyVideo
    <3>1. queueIn' = queueIn \o atCamera /\ atCamera' = <<>>
          BY <2>1 DEF EmptyVideo
    <3> QED
        BY <2>p, <2>1, <3>1, MoveAll DEF EmptyVideo
  <2>2. CASE EmptyInput
    <3>1. rawPool' = rawPool \o atEncoder /\ atEncoder' = <<>>
          BY <2>2 DEF EmptyInput
    <3> QED
        BY <2>p, <2>2, <3>1, MoveAll DEF EmptyInput
  <2>3. CASE EmptyOutput
    <3>1. queueOut' = queueOut \o atOutput /\ atOutput' = <<>>
          BY <2>3 DEF EmptyOutput
    <3> QED
        BY <2>p, <2>3, <3>1, MoveAll DEF EmptyOutput
  <2>4. CASE UNCHANGED <<events, rawVars, inside, codedVars, frame>>
        BY <2>p, <2>4
  <2> QED
      BY <1>8, <2>1, <2>2, <2>3, <2>4, Disables
<1>11. CASE EncoderTakes
  <2>1. CASE atEncoder = <<>>
        BY <1>11, <2>1 DEF EncoderTakes
  <2>2. CASE atEncoder # <<>>
    <3>1. atEncoder' = Tail(atEncoder) /\ rawPool' = Append(rawPool, Head(atEncoder))
          BY <1>11, <2>2 DEF EncoderTakes
    <3> QED
        BY <1>11, <2>2, <3>1, MoveHead DEF EncoderTakes
  <2> QED
      BY <2>1, <2>2
<1>12. CASE EncoderEmits
  <2>1. CASE atOutput = <<>>
        BY <1>12, <2>1 DEF EncoderEmits
  <2>2. CASE atOutput # <<>>
    <3>1. atOutput' = Tail(atOutput) /\ queueOut' = Append(queueOut, Head(atOutput))
          BY <1>12, <2>2 DEF EncoderEmits
    <3> QED
        BY <1>12, <2>2, <3>1, MoveHead DEF EncoderEmits
  <2> QED
      BY <2>1, <2>2
<1>13. ASSUME NEW port \in Ports, SetEvent(port) PROVE Lists'
      BY <1>13 DEF SetEvent
<1>14. CASE Capture
  <2>1. CASE atCamera = <<>>
        BY <1>14, <2>1 DEF Capture
  <2>2. CASE atCamera # <<>>
    <3>1. atCamera' = Tail(atCamera) /\ queueIn' = Append(queueIn, Head(atCamera))
          BY <1>14, <2>2 DEF Capture
    <3> QED
        BY <1>14, <2>2, <3>1, MoveHead DEF Capture
  <2> QED
      BY <2>1, <2>2
<1>15. CASE DropFrame
      BY <1>15 DEF DropFrame
<1>16. CASE Stop
      BY <1>16 DEF Stop
<1>17. CASE UNCHANGED flowVars
      BY <1>17 DEF flowVars
<1> QED
    BY <1>1, <1>2, <1>3, <1>4, <1>5, <1>6, <1>7, <1>8, <1>11, <1>12, <1>13, <1>14, <1>15, <1>16, <1>17 DEF Next, Loop, Components, Disabling

\* Every step moves buffers and loses none.
LEMMA ApartStep == Lists /\ Apart /\ [Next]_flowVars => Apart'
<1> SUFFICES ASSUME Lists, Apart, [Next]_flowVars PROVE Apart'
    OBVIOUS
<1> USE DEF Lists, Apart, Share, rawVars, codedVars
<1>1. CASE Wait
      BY <1>1 DEF Wait
<1>2. CASE FillVideo
  <2>1. CASE rawPool = <<>>
        BY <1>2, <2>1 DEF FillVideo
  <2>2. CASE rawPool # <<>>
    <3>1. rawPool' = Tail(rawPool) /\ atCamera' = Append(atCamera, Head(rawPool))
          BY <1>2, <2>2 DEF FillVideo
    <3> QED
        BY <1>2, <2>2, <3>1, MoveHead DEF FillVideo
  <2> QED
      BY <2>1, <2>2
<1>3. CASE FillOutput
  <2>1. CASE codedPool = <<>>
        BY <1>3, <2>1 DEF FillOutput
  <2>2. CASE codedPool # <<>>
    <3>1. codedPool' = Tail(codedPool) /\ atOutput' = Append(atOutput, Head(codedPool))
          BY <1>3, <2>2 DEF FillOutput
    <3> QED
        BY <1>3, <2>2, <3>1, MoveHead DEF FillOutput
  <2> QED
      BY <2>1, <2>2
<1>4. CASE SendFrame
  <2>1. CASE queueIn = <<>>
        BY <1>4, <2>1 DEF SendFrame
  <2>2. CASE queueIn # <<>>
    <3>1. queueIn' = Tail(queueIn) /\ atEncoder' = Append(atEncoder, Head(queueIn))
          BY <1>4, <2>2 DEF SendFrame
    <3> QED
        BY <1>4, <2>2, <3>1, MoveHead DEF SendFrame
  <2> QED
      BY <2>1, <2>2
<1>5. CASE Refused
      BY <1>5 DEF Refused
<1>6. CASE TakeEncoded
  <2>1. CASE queueOut = <<>>
        BY <1>6, <2>1 DEF TakeEncoded
  <2>2. CASE queueOut # <<>>
    <3>1. held = <<>> /\ held' = <<Head(queueOut)>> /\ queueOut' = Tail(queueOut)
          BY <1>6, <2>2 DEF TakeEncoded
    <3>2. <<>> \in Seq(CodedBuffers) /\ Append(<<>>, Head(queueOut)) = <<Head(queueOut)>>
          OBVIOUS
    <3>3. Share(queueOut, <<>>)
          BY <3>1
    <3>4. /\ Share(Tail(queueOut), <<Head(queueOut)>>)
          /\ ToSet(Tail(queueOut)) \union ToSet(<<Head(queueOut)>>) = ToSet(queueOut) \union ToSet(<<>>)
      <4>1. \A s, t \in Seq(CodedBuffers) :
               s # <<>> /\ Share(s, t) =>
                  /\ Share(Tail(s), Append(t, Head(s)))
                  /\ ToSet(Tail(s)) \union ToSet(Append(t, Head(s))) = ToSet(s) \union ToSet(t)
            BY MoveHead
      <4>2. /\ Share(Tail(queueOut), Append(<<>>, Head(queueOut)))
            /\ ToSet(Tail(queueOut)) \union ToSet(Append(<<>>, Head(queueOut)))
                  = ToSet(queueOut) \union ToSet(<<>>)
            BY <2>2, <3>2, <3>3, <4>1
      <4> QED
          BY <3>2, <4>2
    <3>5. UNCHANGED <<codedPool, atOutput>>
          BY <1>6 DEF TakeEncoded
    <3>6. /\ Share(codedPool', queueOut') /\ Share(codedPool', held')
          /\ Share(atOutput', queueOut') /\ Share(atOutput', held') /\ Share(queueOut', held')
          /\ ToSet(codedPool') \union ToSet(atOutput') \union ToSet(queueOut') \union ToSet(held') = CodedBuffers
          BY <3>1, <3>4, <3>5
    <3> QED
        BY <1>6, <3>5, <3>6 DEF TakeEncoded
  <2> QED
      BY <2>1, <2>2
<1>7. CASE Callback
  <2>1. held # <<>> /\ Tail(held) = <<>> /\ Head(held) = held[1]
        BY <1>7, OneElement DEF Callback
  <2>2. /\ Share(<<>>, Append(codedPool, Head(held)))
        /\ ToSet(<<>>) \union ToSet(Append(codedPool, Head(held))) = ToSet(held) \union ToSet(codedPool)
    <3>1. \A s, t \in Seq(CodedBuffers) :
             s # <<>> /\ Share(s, t) =>
                /\ Share(Tail(s), Append(t, Head(s)))
                /\ ToSet(Tail(s)) \union ToSet(Append(t, Head(s))) = ToSet(s) \union ToSet(t)
          BY MoveHead
    <3>2. held \in Seq(CodedBuffers) /\ codedPool \in Seq(CodedBuffers) /\ Share(held, codedPool)
          OBVIOUS
    <3>3. /\ Share(Tail(held), Append(codedPool, Head(held)))
          /\ ToSet(Tail(held)) \union ToSet(Append(codedPool, Head(held))) = ToSet(held) \union ToSet(codedPool)
          BY <2>1, <3>1, <3>2
    <3> QED
        BY <2>1, <3>3
  <2>3. codedPool' = Append(codedPool, Head(held)) /\ held' = <<>> /\ UNCHANGED <<atOutput, queueOut>>
        BY <1>7, <2>1 DEF Callback
  <2>4. /\ Share(codedPool', atOutput') /\ Share(codedPool', queueOut') /\ Share(codedPool', held')
        /\ Share(atOutput', held') /\ Share(queueOut', held')
        /\ ToSet(codedPool') \union ToSet(atOutput') \union ToSet(queueOut') \union ToSet(held') = CodedBuffers
        BY <2>2, <2>3
  <2> QED
      BY <1>7, <2>3, <2>4 DEF Callback
<1>8. CASE Disabling
  <2>p. pc' = pc \/ (pc # "callback" /\ pc' # "callback")
        BY <1>8, Disables
  <2>1. CASE EmptyVideo
    <3>1. queueIn' = queueIn \o atCamera /\ atCamera' = <<>>
          BY <2>1 DEF EmptyVideo
    <3> QED
        BY <2>p, <2>1, <3>1, MoveAll DEF EmptyVideo
  <2>2. CASE EmptyInput
    <3>1. rawPool' = rawPool \o atEncoder /\ atEncoder' = <<>>
          BY <2>2 DEF EmptyInput
    <3> QED
        BY <2>p, <2>2, <3>1, MoveAll DEF EmptyInput
  <2>3. CASE EmptyOutput
    <3>1. queueOut' = queueOut \o atOutput /\ atOutput' = <<>>
          BY <2>3 DEF EmptyOutput
    <3> QED
        BY <2>p, <2>3, <3>1, MoveAll DEF EmptyOutput
  <2>4. CASE UNCHANGED <<events, rawVars, inside, codedVars, frame>>
        BY <2>p, <2>4
  <2> QED
      BY <1>8, <2>1, <2>2, <2>3, <2>4, Disables
<1>11. CASE EncoderTakes
  <2>1. CASE atEncoder = <<>>
        BY <1>11, <2>1 DEF EncoderTakes
  <2>2. CASE atEncoder # <<>>
    <3>1. atEncoder' = Tail(atEncoder) /\ rawPool' = Append(rawPool, Head(atEncoder))
          BY <1>11, <2>2 DEF EncoderTakes
    <3> QED
        BY <1>11, <2>2, <3>1, MoveHead DEF EncoderTakes
  <2> QED
      BY <2>1, <2>2
<1>12. CASE EncoderEmits
  <2>1. CASE atOutput = <<>>
        BY <1>12, <2>1 DEF EncoderEmits
  <2>2. CASE atOutput # <<>>
    <3>1. atOutput' = Tail(atOutput) /\ queueOut' = Append(queueOut, Head(atOutput))
          BY <1>12, <2>2 DEF EncoderEmits
    <3> QED
        BY <1>12, <2>2, <3>1, MoveHead DEF EncoderEmits
  <2> QED
      BY <2>1, <2>2
<1>13. ASSUME NEW port \in Ports, SetEvent(port) PROVE Apart'
      BY <1>13 DEF SetEvent
<1>14. CASE Capture
  <2>1. CASE atCamera = <<>>
        BY <1>14, <2>1 DEF Capture
  <2>2. CASE atCamera # <<>>
    <3>1. atCamera' = Tail(atCamera) /\ queueIn' = Append(queueIn, Head(atCamera))
          BY <1>14, <2>2 DEF Capture
    <3> QED
        BY <1>14, <2>2, <3>1, MoveHead, SMTT(60) DEF Capture
  <2> QED
      BY <2>1, <2>2
<1>15. CASE DropFrame
      BY <1>15 DEF DropFrame
<1>16. CASE Stop
      BY <1>16 DEF Stop
<1>17. CASE UNCHANGED flowVars
      BY <1>17 DEF flowVars
<1> QED
    BY <1>1, <1>2, <1>3, <1>4, <1>5, <1>6, <1>7, <1>8, <1>11, <1>12, <1>13, <1>14, <1>15, <1>16, <1>17 DEF Next, Loop, Components, Disabling

\* Every step keeps the other types.
LEMMA CountsStep == Lists /\ Counts /\ [Next]_flowVars => Counts'
<1> SUFFICES ASSUME Lists, Counts, [Next]_flowVars PROVE Counts'
    OBVIOUS
<1> USE PipelineAssumption DEF Lists, Counts, Looping, Ports, rawVars, codedVars
<1>1. CASE Wait
      BY <1>1 DEF Wait
<1>2. CASE FillVideo
      BY <1>2 DEF FillVideo
<1>3. CASE FillOutput
      BY <1>3 DEF FillOutput
<1>4. CASE SendFrame
      BY <1>4 DEF SendFrame
<1>5. CASE Refused
      BY <1>5 DEF Refused
<1>6. CASE TakeEncoded
      BY <1>6 DEF TakeEncoded
<1>7. CASE Callback
      BY <1>7, OneElement DEF Callback
<1>8. CASE Disabling
  <2>p. /\ UNCHANGED <<stop, raising, captured, delivered>>
        /\ pc' \in Looping \union {"disableVideo", "disableInput", "disableOutput", "disabled"}
        BY <1>8, Disables
  <2>1. CASE EmptyVideo
        BY <2>p, <2>1 DEF EmptyVideo, Emptied
  <2>2. CASE EmptyInput
        BY <2>p, <2>2 DEF EmptyInput
  <2>3. CASE EmptyOutput
        BY <2>p, <2>3 DEF EmptyOutput, Emptied
  <2>4. CASE UNCHANGED <<events, rawVars, inside, codedVars, frame>>
        BY <2>p, <2>4
  <2> QED
      BY <1>8, <2>1, <2>2, <2>3, <2>4, Disables
<1>11. CASE EncoderTakes
      BY <1>11, SMTT(60) DEF EncoderTakes
<1>12. CASE EncoderEmits
      BY <1>12, SMTT(60) DEF EncoderEmits
<1>13. ASSUME NEW port \in Ports, SetEvent(port) PROVE Counts'
      BY <1>13 DEF SetEvent
<1>14. CASE Capture
      BY <1>14, SMTT(60) DEF Capture
<1>15. CASE DropFrame
      BY <1>15 DEF DropFrame
<1>16. CASE Stop
      BY <1>16 DEF Stop
<1>17. CASE UNCHANGED flowVars
      BY <1>17 DEF flowVars
<1> QED
    BY <1>1, <1>2, <1>3, <1>4, <1>5, <1>6, <1>7, <1>8, <1>11, <1>12, <1>13, <1>14, <1>15, <1>16, <1>17 DEF Next, Loop, Components, Disabling

\* The loop inside of start_recorder takes the loop's own steps.
LEMMA RecorderRunsLoop == [RecorderNext]_recorderVars => [Next]_flowVars
<1>1. Teardown => [Next]_flowVars
      BY TeardownSteps DEF vars, Next
<1> QED
    BY <1>1 DEF RecorderNext, recorderVars, RunsLoop, RunsCallback, LateCallback, Next, vars

\* Only ports fail to be disabled.
LEMMA FailedArePorts == failed \subseteq Ports /\ [RecorderNext]_recorderVars => failed' \subseteq Ports
<1> SUFFICES ASSUME failed \subseteq Ports, [RecorderNext]_recorderVars PROVE failed' \subseteq Ports
    OBVIOUS
<1>1. ASSUME NEW port \in Ports, DisablePort(port) PROVE failed' \subseteq Ports
      BY <1>1 DEF DisablePort, Disabled, DisableFails, portVars
<1>2. CASE Setup
      BY <1>2 DEF Setup, CreateFlags, CreateCamera, CreateEncoder, ConnectPorts, ConnectInputFails, SetupEncoderOut,
                  StartCapture, Ready, Creates, Fails, portVars, Ports
<1>3. CASE Teardown
      BY <1>1, <1>3, TeardownSteps DEF DisableAgain, vars, portVars
<1>4. CASE Loop
      BY <1>1, <1>4 DEF Loop, Wait, FillVideo, FillOutput, SendFrame, Refused, TakeEncoded, Callback,
                        DisableVideo, DisableInput, DisableOutput, Ports, portVars
<1>5. CASE Components \/ Capture \/ DropFrame \/ Stop
      BY <1>5 DEF Components, EncoderTakes, EncoderEmits, SetEvent, Capture, DropFrame, Stop, portVars
<1>6. CASE UNCHANGED vars
      BY <1>6 DEF vars, portVars
<1> QED
    BY <1>2, <1>3, <1>4, <1>5, <1>6 DEF RecorderNext, RunsLoop, RunsCallback, LateCallback, recorderVars

\* The loop's variables have their types, inside of start_recorder too.
THEOREM TypeCorrect == RecorderSpec => []TypeOK
<1>1. Lists /\ Counts /\ [RecorderNext]_recorderVars => Lists' /\ Counts'
      BY ListsStep, CountsStep, RecorderRunsLoop
<1>2. RecorderInit => Lists /\ Counts
      BY ListsInit DEF RecorderInit
<1> DEFINE FailedOK == failed \subseteq Ports
<1>3. Lists /\ Counts /\ AllInv /\ FailedOK => TypeOK
      BY DEF Lists, Counts, AllInv, PortInv, TypeOK
<1>4. RecorderInit => FailedOK
      BY DEF RecorderInit, Init
<1>5. FailedOK /\ [RecorderNext]_recorderVars => FailedOK'
      BY FailedArePorts
<1> HIDE DEF FailedOK
<1> QED
    BY <1>1, <1>2, <1>3, <1>4, <1>5, AllInvInit, AllStep, PTL DEF RecorderSpec

\* No buffer is lost or in two places, whatever fails.
THEOREM BuffersStay == RecorderSpec => []BuffersConserved
<1>1. Lists /\ Apart /\ [RecorderNext]_recorderVars => Lists' /\ Apart'
      BY ListsStep, ApartStep, RecorderRunsLoop
<1>2. RecorderInit => Lists /\ Apart
      BY ListsInit DEF RecorderInit
<1> QED
    BY <1>1, <1>2, ApartIsConserved, PTL DEF RecorderSpec
-----------------------------------------------------------------------------
(* The order of the frames                                                 *)

\* the frames in a list, where f says what is in each buffer
FramesOf(f, s) == [i \in 1..Len(s) |-> f[s[i]]]
Shown(ns)      == ToSet(ns) \ {0}
Frame(n)       == {n} \ {0}
Precedes(A, B) == \A x \in A, y \in B : x < y

LEMMA FirstLeaves ==
  ASSUME NEW ns \in Seq(Nat), ns # <<>>
  PROVE  /\ Tail(ns) \in Seq(Nat) /\ Head(ns) \in Nat
         /\ Shown(ns) = Frame(Head(ns)) \union Shown(Tail(ns))
         /\ Ascending(ns) => Ascending(Tail(ns)) /\ Precedes(Frame(Head(ns)), Shown(Tail(ns)))
<1> DEFINE ts == Tail(ns)
<1>1. /\ Len(ns) \in Nat \ {0} /\ Head(ns) = ns[1] /\ ts \in Seq(Nat) /\ Len(ts) = Len(ns) - 1
      /\ \A i \in 1..Len(ns) : ns[i] \in Nat
      /\ \A i \in 1..Len(ts) : ts[i] = ns[i + 1]
      BY HeadTailProperties, EmptySeq
<1>2. DOMAIN ns = 1..Len(ns) /\ DOMAIN ts = 1..Len(ts)
      BY <1>1
<1> HIDE DEF ts
<1>3. \A i \in 1..Len(ns) : i = 1 \/ (i - 1 \in 1..Len(ts) /\ ns[i] = ts[i - 1])
      BY <1>1
<1>4. Shown(ns) = Frame(Head(ns)) \union Shown(ts)
  <2>1. ToSet(ns) = {Head(ns)} \union ToSet(ts)
    <3>1. ASSUME NEW x \in ToSet(ns) PROVE x \in {Head(ns)} \union ToSet(ts)
      <4>1. PICK i \in 1..Len(ns) : x = ns[i]
            BY <1>2 DEF ToSet
      <4>2. CASE i = 1
            BY <1>1, <4>1, <4>2
      <4>3. CASE i - 1 \in 1..Len(ts) /\ ns[i] = ts[i - 1]
            BY <1>2, <4>1, <4>3 DEF ToSet
      <4> QED
          BY <1>3, <4>2, <4>3
    <3>2. ASSUME NEW x \in ToSet(ts) PROVE x \in ToSet(ns)
      <4>1. PICK i \in 1..Len(ts) : x = ts[i]
            BY <1>2 DEF ToSet
      <4>2. i + 1 \in 1..Len(ns) /\ x = ns[i + 1]
            BY <1>1, <4>1
      <4> QED
          BY <1>2, <4>2 DEF ToSet
    <3>3. Head(ns) \in ToSet(ns)
          BY <1>1, <1>2, SMTT(60) DEF ToSet
    <3> QED
        BY <3>1, <3>2, <3>3
  <2> QED
      BY <2>1 DEF Shown, Frame
<1>5. ASSUME Ascending(ns) PROVE Ascending(ts)
  <2> SUFFICES ASSUME NEW i \in 1..Len(ts), NEW j \in 1..Len(ts), i < j, ts[i] # 0, ts[j] # 0
               PROVE  ts[i] < ts[j]
      BY DEF Ascending
  <2>1. i + 1 \in 1..Len(ns) /\ j + 1 \in 1..Len(ns) /\ i + 1 < j + 1
        BY <1>1
  <2> QED
      BY <1>1, <1>5, <2>1 DEF Ascending
<1>6. ASSUME Ascending(ns) PROVE Precedes(Frame(Head(ns)), Shown(ts))
  <2> SUFFICES ASSUME ns[1] # 0, NEW j \in 1..Len(ts), ts[j] # 0 PROVE ns[1] < ts[j]
      BY <1>1, <1>2, SMTT(60) DEF Precedes, Shown, Frame, ToSet
  <2>1. 1 \in 1..Len(ns) /\ j + 1 \in 1..Len(ns) /\ 1 < j + 1
        BY <1>1
  <2> QED
      BY <1>1, <1>6, <2>1 DEF Ascending
<1> QED
    BY <1>1, <1>4, <1>5, <1>6 DEF ts

LEMMA EndToEnd ==
  ASSUME NEW ms \in Seq(Nat), NEW ns \in Seq(Nat)
  PROVE  /\ ms \o ns \in Seq(Nat)
         /\ Shown(ms \o ns) = Shown(ms) \union Shown(ns)
         /\ Ascending(ms) /\ Ascending(ns) /\ Precedes(Shown(ms), Shown(ns)) => Ascending(ms \o ns)
<1>1. ToSet(ms \o ns) = ToSet(ms) \union ToSet(ns)
      BY Concatenated
<1> DEFINE all == ms \o ns
<1>2. /\ all \in Seq(Nat) /\ Len(ms) \in Nat /\ Len(ns) \in Nat /\ Len(all) = Len(ms) + Len(ns)
      /\ DOMAIN ms = 1..Len(ms) /\ DOMAIN ns = 1..Len(ns)
      /\ \A i \in 1..Len(ms) : ms[i] \in Nat
      /\ \A i \in 1..Len(ns) : ns[i] \in Nat
      /\ \A i \in 1..Len(all) : \/ i \in 1..Len(ms) /\ all[i] = ms[i]
                                \/ i - Len(ms) \in 1..Len(ns) /\ all[i] = ns[i - Len(ms)]
      OBVIOUS
<1> HIDE DEF all
<1>3. ASSUME Ascending(ms), Ascending(ns), Precedes(Shown(ms), Shown(ns)),
             NEW i \in 1..Len(all), NEW j \in 1..Len(all), i < j, all[i] # 0, all[j] # 0
      PROVE  all[i] < all[j]
  <2>1. CASE i \in 1..Len(ms) /\ all[i] = ms[i] /\ j \in 1..Len(ms) /\ all[j] = ms[j]
        BY <1>3, <2>1 DEF Ascending
  <2>2. CASE /\ i - Len(ms) \in 1..Len(ns) /\ all[i] = ns[i - Len(ms)]
             /\ j - Len(ms) \in 1..Len(ns) /\ all[j] = ns[j - Len(ms)]
    <3>1. i - Len(ms) < j - Len(ms)
          BY <1>2, <1>3
    <3> QED
        BY <1>3, <2>2, <3>1 DEF Ascending
  <2>3. CASE i \in 1..Len(ms) /\ all[i] = ms[i] /\ j - Len(ms) \in 1..Len(ns) /\ all[j] = ns[j - Len(ms)]
    <3>1. all[i] \in Shown(ms) /\ all[j] \in Shown(ns)
          BY <1>2, <1>3, <2>3 DEF Shown, ToSet
    <3> QED
        BY <1>3, <3>1 DEF Precedes
  <2>4. CASE i - Len(ms) \in 1..Len(ns) /\ j \in 1..Len(ms)
        BY <1>2, <1>3, <2>4
  <2> QED
      BY <1>2, <2>1, <2>2, <2>3, <2>4
<1> QED
    BY <1>1, <1>2, <1>3 DEF Shown, Ascending, all

LEMMA Single ==
  ASSUME NEW n \in Nat
  PROVE  <<n>> \in Seq(Nat) /\ Shown(<<n>>) = Frame(n) /\ Ascending(<<n>>)
<1>1. <<n>> \in Seq(Nat) /\ ToSet(<<n>>) = {n}
      BY DEF ToSet
<1>2. Ascending(<<n>>)
      BY DEF Ascending
<1> QED
    BY <1>1, <1>2 DEF Shown, Frame

\* A frame is added at the end.
LEMMA LastJoins ==
  ASSUME NEW ns \in Seq(Nat), NEW n \in Nat
  PROVE  /\ Append(ns, n) \in Seq(Nat)
         /\ Shown(Append(ns, n)) = Shown(ns) \union Frame(n)
         /\ Ascending(ns) /\ Precedes(Shown(ns), Frame(n)) => Ascending(Append(ns, n))
<1>1. Append(ns, n) = ns \o <<n>>
      OBVIOUS
<1>2. <<n>> \in Seq(Nat) /\ Shown(<<n>>) = Frame(n) /\ Ascending(<<n>>)
      BY Single
<1>3. /\ ns \o <<n>> \in Seq(Nat)
      /\ Shown(ns \o <<n>>) = Shown(ns) \union Shown(<<n>>)
      /\ Ascending(ns) /\ Precedes(Shown(ns), Shown(<<n>>)) => Ascending(ns \o <<n>>)
      BY <1>2, EndToEnd
<1> QED
    BY <1>1, <1>2, <1>3

\* The frames of a list whose first buffer leaves, or that gets one more.
LEMMA FramesTyped ==
  ASSUME NEW T, NEW f \in [T -> Nat], NEW S \in SUBSET T, NEW s \in Seq(S)
  PROVE  FramesOf(f, s) \in Seq(Nat) /\ Len(FramesOf(f, s)) = Len(s)
<1>1. Len(s) \in Nat /\ \A i \in 1..Len(s) : s[i] \in T
      OBVIOUS
<1>2. \A i \in 1..Len(s) : f[s[i]] \in Nat
      BY <1>1
<1> QED
    BY <1>1, <1>2 DEF FramesOf

LEMMA FramesTail ==
  ASSUME NEW T, NEW f \in [T -> Nat], NEW S \in SUBSET T, NEW s \in Seq(S), s # <<>>
  PROVE  /\ FramesOf(f, s) # <<>> /\ Head(FramesOf(f, s)) = f[Head(s)] /\ f[Head(s)] \in Nat
         /\ FramesOf(f, Tail(s)) = Tail(FramesOf(f, s))
<1>1. FramesOf(f, s) \in Seq(Nat) /\ Len(FramesOf(f, s)) = Len(s)
      BY FramesTyped
<1>2. /\ Len(s) \in Nat \ {0} /\ Tail(s) \in Seq(S) /\ Len(Tail(s)) = Len(s) - 1
      /\ Head(s) = s[1] /\ s[1] \in T
      /\ \A i \in 1..Len(Tail(s)) : Tail(s)[i] = s[i + 1]
      BY HeadTailProperties, EmptySeq
<1>3. FramesOf(f, Tail(s)) \in Seq(Nat) /\ Len(FramesOf(f, Tail(s))) = Len(s) - 1
      BY <1>2, FramesTyped, ZenonT(60)
<1>4. FramesOf(f, s) # <<>> /\ Head(FramesOf(f, s)) = f[Head(s)]
  <2>1. FramesOf(f, s)[1] = f[s[1]]
        BY <1>2 DEF FramesOf
  <2>2. FramesOf(f, s) # <<>>
        BY <1>1, <1>2
  <2> QED
      BY <1>1, <1>2, <2>1, <2>2
<1>5. /\ Tail(FramesOf(f, s)) \in Seq(Nat) /\ Len(Tail(FramesOf(f, s))) = Len(s) - 1
      /\ \A i \in 1..Len(s) - 1 : Tail(FramesOf(f, s))[i] = FramesOf(f, s)[i + 1]
      BY <1>1, <1>4, HeadTailProperties
<1>6. \A i \in 1..Len(s) - 1 : /\ FramesOf(f, s)[i + 1] = f[s[i + 1]]
                               /\ FramesOf(f, Tail(s))[i] = f[Tail(s)[i]]
      BY <1>2 DEF FramesOf
<1>7. \A i \in 1..Len(s) - 1 : FramesOf(f, Tail(s))[i] = Tail(FramesOf(f, s))[i]
      BY <1>2, <1>5, <1>6
<1>8. FramesOf(f, Tail(s)) = Tail(FramesOf(f, s))
      BY <1>2, <1>3, <1>5, <1>7, SeqEqual
<1> QED
    BY <1>2, <1>4, <1>8

LEMMA FramesAppend ==
  ASSUME NEW T, NEW f \in [T -> Nat], NEW S \in SUBSET T, NEW s \in Seq(S), NEW x \in S
  PROVE  FramesOf(f, Append(s, x)) = Append(FramesOf(f, s), f[x])
<1>1. FramesOf(f, s) \in Seq(Nat) /\ Len(FramesOf(f, s)) = Len(s) /\ Len(s) \in Nat
      BY FramesTyped
<1>2. /\ Append(s, x) \in Seq(S) /\ Len(Append(s, x)) = Len(s) + 1
      /\ \A i \in 1..Len(s) : Append(s, x)[i] = s[i]
      /\ Append(s, x)[Len(s) + 1] = x
      OBVIOUS
<1>3. FramesOf(f, Append(s, x)) \in Seq(Nat) /\ Len(FramesOf(f, Append(s, x))) = Len(s) + 1
      BY <1>2, FramesTyped, ZenonT(60)
<1>4. f[x] \in Nat
      OBVIOUS
<1>5. /\ Append(FramesOf(f, s), f[x]) \in Seq(Nat) /\ Len(Append(FramesOf(f, s), f[x])) = Len(s) + 1
      /\ \A i \in 1..Len(s) : Append(FramesOf(f, s), f[x])[i] = FramesOf(f, s)[i]
      /\ Append(FramesOf(f, s), f[x])[Len(s) + 1] = f[x]
      BY <1>1, <1>4
<1>6. \A i \in 1..Len(s) : FramesOf(f, Append(s, x))[i] = f[s[i]] /\ FramesOf(f, s)[i] = f[s[i]]
      BY <1>1, <1>2 DEF FramesOf
<1>7. FramesOf(f, Append(s, x))[Len(s) + 1] = f[x]
      BY <1>1, <1>2 DEF FramesOf
<1>8. \A i \in 1..Len(s) + 1 : FramesOf(f, Append(s, x))[i] = Append(FramesOf(f, s), f[x])[i]
      BY <1>1, <1>5, <1>6, <1>7
<1> QED
    BY <1>1, <1>3, <1>5, <1>8, SeqEqual

\* Buffers that are written elsewhere do not show in a list.
LEMMA FramesElsewhere ==
  ASSUME NEW f, NEW g, NEW S, NEW s \in Seq(S), \A x \in ToSet(s) : f[x] = g[x]
  PROVE  FramesOf(f, s) = FramesOf(g, s)
<1>1. \A i \in 1..Len(s) : s[i] \in ToSet(s)
      BY DEF ToSet
<1> QED
    BY <1>1 DEF FramesOf

\* Buffers without a frame at the end do not show.
LEMMA EmptyAtEnd ==
  ASSUME NEW T, NEW f \in [T -> Nat], NEW S \in SUBSET T, NEW s \in Seq(S), NEW t \in Seq(S),
         \A x \in ToSet(t) : f[x] = 0
  PROVE  /\ Shown(FramesOf(f, s \o t)) = Shown(FramesOf(f, s))
         /\ Ascending(FramesOf(f, s)) => Ascending(FramesOf(f, s \o t))
<1> DEFINE st == s \o t
<1>1. /\ st \in Seq(S) /\ Len(s) \in Nat /\ Len(t) \in Nat /\ Len(st) = Len(s) + Len(t)
      /\ \A i \in 1..Len(s) : i \in 1..Len(st) /\ st[i] = s[i]
      /\ \A i \in 1..Len(st) : i \in 1..Len(s) \/ (i - Len(s) \in 1..Len(t) /\ st[i] = t[i - Len(s)])
      OBVIOUS
<1> HIDE DEF st
<1>2. \A i \in 1..Len(t) : t[i] \in ToSet(t)
      BY DEF ToSet
<1>3. /\ FramesOf(f, st) \in Seq(Nat) /\ Len(FramesOf(f, st)) = Len(st)
      /\ FramesOf(f, s) \in Seq(Nat) /\ Len(FramesOf(f, s)) = Len(s)
      BY <1>1, FramesTyped
<1>4. /\ DOMAIN FramesOf(f, st) = 1..Len(st) /\ DOMAIN FramesOf(f, s) = 1..Len(s)
      /\ \A i \in 1..Len(st) : FramesOf(f, st)[i] = f[st[i]]
      /\ \A i \in 1..Len(s) : FramesOf(f, s)[i] = f[s[i]]
      BY <1>1 DEF FramesOf
<1>5. \A i \in 1..Len(st) : \/ i \in 1..Len(s) /\ FramesOf(f, st)[i] = FramesOf(f, s)[i]
                            \/ FramesOf(f, st)[i] = 0
  <2> SUFFICES ASSUME NEW i \in 1..Len(st), i \notin 1..Len(s) PROVE FramesOf(f, st)[i] = 0
      BY <1>1, <1>4, SMTT(60)
  <2>1. i - Len(s) \in 1..Len(t) /\ st[i] = t[i - Len(s)]
        BY <1>1
  <2>2. f[st[i]] = 0
        BY <1>2, <2>1
  <2> QED
      BY <1>4, <2>2
<1>6. \A i \in 1..Len(s) : i \in 1..Len(st) /\ FramesOf(f, st)[i] = FramesOf(f, s)[i]
  <2> SUFFICES ASSUME NEW i \in 1..Len(s)
               PROVE i \in 1..Len(st) /\ FramesOf(f, st)[i] = FramesOf(f, s)[i]
      OBVIOUS
  <2>1. i \in 1..Len(st) /\ st[i] = s[i]
        BY <1>1
  <2>2. FramesOf(f, st)[i] = f[st[i]] /\ FramesOf(f, s)[i] = f[s[i]]
        BY <1>4, <2>1
  <2> QED
      BY <2>1, <2>2
<1>7. Shown(FramesOf(f, st)) = Shown(FramesOf(f, s))
  <2> DEFINE a == FramesOf(f, st)
             b == FramesOf(f, s)
  <2>1. DOMAIN a = 1..Len(st) /\ DOMAIN b = 1..Len(s)
        BY <1>4
  <2>2. \A i \in 1..Len(st) : (i \in 1..Len(s) /\ a[i] = b[i]) \/ a[i] = 0
        BY <1>5
  <2>3. \A i \in 1..Len(s) : i \in 1..Len(st) /\ a[i] = b[i]
        BY <1>6
  <2> HIDE DEF a, b
  <2>4. Shown(a) = Shown(b)
        BY <2>1, <2>2, <2>3 DEF Shown, ToSet
  <2> QED
      BY <2>4 DEF a, b
<1>8. Ascending(FramesOf(f, s)) => Ascending(FramesOf(f, st))
      BY <1>3, <1>5 DEF Ascending
<1> QED
    BY <1>7, <1>8 DEF st

LEMMA NoFrames ==
  ASSUME NEW f
  PROVE  Shown(FramesOf(f, <<>>)) = {} /\ Ascending(FramesOf(f, <<>>))
<1>1. DOMAIN FramesOf(f, <<>>) = {} /\ Len(FramesOf(f, <<>>)) = 0
      BY DEF FramesOf
<1> QED
    BY <1>1 DEF Shown, ToSet, Ascending

LEMMA Leaves ==
  ASSUME NEW T, NEW f \in [T -> Nat], NEW S \in SUBSET T, NEW s \in Seq(S), s # <<>>,
         Ascending(FramesOf(f, s))
  PROVE  /\ Ascending(FramesOf(f, Tail(s)))
         /\ Shown(FramesOf(f, s)) = Frame(f[Head(s)]) \union Shown(FramesOf(f, Tail(s)))
         /\ Precedes(Frame(f[Head(s)]), Shown(FramesOf(f, Tail(s))))
<1>1. FramesOf(f, s) \in Seq(Nat)
      BY FramesTyped
<1>2. /\ FramesOf(f, s) # <<>> /\ Head(FramesOf(f, s)) = f[Head(s)]
      /\ FramesOf(f, Tail(s)) = Tail(FramesOf(f, s))
      BY FramesTail
<1> DEFINE ns == FramesOf(f, s)
<1> HIDE DEF ns
<1>3. /\ Shown(ns) = Frame(Head(ns)) \union Shown(Tail(ns))
      /\ Ascending(Tail(ns)) /\ Precedes(Frame(Head(ns)), Shown(Tail(ns)))
      BY <1>1, <1>2, FirstLeaves DEF ns
<1> QED
    BY <1>2, <1>3 DEF ns

LEMMA Joins ==
  ASSUME NEW T, NEW f \in [T -> Nat], NEW S \in SUBSET T, NEW s \in Seq(S), NEW x \in S,
         Ascending(FramesOf(f, s)), Precedes(Shown(FramesOf(f, s)), Frame(f[x]))
  PROVE  /\ Ascending(FramesOf(f, Append(s, x)))
         /\ Shown(FramesOf(f, Append(s, x))) = Shown(FramesOf(f, s)) \union Frame(f[x])
<1>1. FramesOf(f, s) \in Seq(Nat)
      BY FramesTyped
<1>2. FramesOf(f, Append(s, x)) = Append(FramesOf(f, s), f[x]) /\ f[x] \in Nat
      BY FramesAppend
<1> QED
    BY <1>1, <1>2, LastJoins

\* InOrder place by place, from the callback back to the camera.
Rising(A, B, C, D, E, F, n) ==
    /\ Precedes(A, B) /\ Precedes(A, C) /\ Precedes(A, D) /\ Precedes(A, E) /\ Precedes(A, F)
    /\ Precedes(B, C) /\ Precedes(B, D) /\ Precedes(B, E) /\ Precedes(B, F)
    /\ Precedes(C, D) /\ Precedes(C, E) /\ Precedes(C, F)
    /\ Precedes(D, E) /\ Precedes(D, F)
    /\ Precedes(E, F)
    /\ \A x \in A \union B \union C \union D \union E \union F : x \in Nat /\ x <= n

Line == /\ Ascending(FramesOf(frame, held)) /\ Ascending(FramesOf(frame, queueOut))
        /\ Ascending(FramesOf(frame, atEncoder)) /\ Ascending(FramesOf(frame, queueIn))
        /\ Rising(Frame(delivered), Shown(FramesOf(frame, held)), Shown(FramesOf(frame, queueOut)),
                  Frame(inside), Shown(FramesOf(frame, atEncoder)), Shown(FramesOf(frame, queueIn)),
                  captured)

LEMMA LineIsInOrder == Lists /\ Counts /\ Line => InOrder
<1> SUFFICES ASSUME Lists, Counts, Line PROVE InOrder
    OBVIOUS
<1> DEFINE T == RawBuffers \union CodedBuffers
           H == FramesOf(frame, held)
           Q == FramesOf(frame, queueOut)
           E == FramesOf(frame, atEncoder)
           R == FramesOf(frame, queueIn)
<1>1. frame \in [T -> Nat] /\ inside \in Nat /\ delivered \in Nat
      BY PipelineAssumption DEF Counts
<1>2. H \in Seq(Nat) /\ Q \in Seq(Nat) /\ E \in Seq(Nat) /\ R \in Seq(Nat)
  <2>1. RawBuffers \in SUBSET T /\ CodedBuffers \in SUBSET T
        OBVIOUS
  <2>2. held \in Seq(CodedBuffers) /\ queueOut \in Seq(CodedBuffers)
        BY DEF Lists
  <2>3. atEncoder \in Seq(RawBuffers) /\ queueIn \in Seq(RawBuffers)
        BY DEF Lists
  <2> HIDE DEF T
  <2>4. H \in Seq(Nat) /\ Q \in Seq(Nat)
        BY <1>1, <2>1, <2>2, FramesTyped
  <2>5. E \in Seq(Nat) /\ R \in Seq(Nat)
        BY <1>1, <2>1, <2>3, FramesTyped
  <2> QED
      BY <2>4, <2>5
<1>3. /\ <<delivered>> \in Seq(Nat) /\ Shown(<<delivered>>) = Frame(delivered) /\ Ascending(<<delivered>>)
      /\ <<inside>> \in Seq(Nat) /\ Shown(<<inside>>) = Frame(inside) /\ Ascending(<<inside>>)
      BY <1>1, Single
<1>4. /\ Ascending(H) /\ Ascending(Q) /\ Ascending(E) /\ Ascending(R)
      /\ Rising(Shown(<<delivered>>), Shown(H), Shown(Q), Shown(<<inside>>), Shown(E), Shown(R), captured)
      BY <1>3 DEF Line
<1>5. Frames(held) = H /\ Frames(queueOut) = Q /\ Frames(atEncoder) = E /\ Frames(queueIn) = R
      BY DEF Frames, FramesOf
<1>6. \A ms \in Seq(Nat), ns \in Seq(Nat) :
         /\ ms \o ns \in Seq(Nat)
         /\ Shown(ms \o ns) = Shown(ms) \union Shown(ns)
         /\ Ascending(ms) /\ Ascending(ns) /\ Precedes(Shown(ms), Shown(ns)) => Ascending(ms \o ns)
      BY EndToEnd
<1> DEFINE D == <<delivered>>
           I == <<inside>>
<1> HIDE DEF D, H, Q, I, E, R
<1> DEFINE s1 == D \o H
<1>11. s1 \in Seq(Nat) /\ Ascending(s1) /\ Shown(s1) = Shown(D) \union Shown(H)
       BY <1>2, <1>3, <1>4, <1>6 DEF Rising, D
<1> HIDE DEF s1
<1> DEFINE s2 == s1 \o Q
<1>12. s2 \in Seq(Nat) /\ Ascending(s2) /\ Shown(s2) = Shown(s1) \union Shown(Q)
  <2>1. Precedes(Shown(s1), Shown(Q))
        BY <1>4, <1>11 DEF Rising, Precedes, D
  <2> QED
      BY <1>2, <1>4, <1>6, <1>11, <2>1
<1> HIDE DEF s2
<1> DEFINE s3 == s2 \o I
<1>13. s3 \in Seq(Nat) /\ Ascending(s3) /\ Shown(s3) = Shown(s2) \union Shown(I)
  <2>1. Precedes(Shown(s2), Shown(I))
        BY <1>4, <1>11, <1>12 DEF Rising, Precedes, D, I
  <2>2. I \in Seq(Nat) /\ Ascending(I)
        BY <1>3 DEF I
  <2> QED
      BY <1>6, <1>12, <2>1, <2>2
<1> HIDE DEF s3
<1> DEFINE s4 == s3 \o E
<1>14. s4 \in Seq(Nat) /\ Ascending(s4) /\ Shown(s4) = Shown(s3) \union Shown(E)
  <2>1. Precedes(Shown(s3), Shown(E))
        BY <1>4, <1>11, <1>12, <1>13 DEF Rising, Precedes, D, I
  <2> QED
      BY <1>2, <1>4, <1>6, <1>13, <2>1
<1> HIDE DEF s4
<1>15. Ascending(s4 \o R)
  <2>1. Precedes(Shown(s4), Shown(R))
        BY <1>4, <1>11, <1>12, <1>13, <1>14 DEF Rising, Precedes, D, I
  <2> QED
      BY <1>2, <1>4, <1>6, <1>14, <2>1
<1>16. Ascending(<<delivered>> \o H \o Q \o <<inside>> \o E \o R)
       BY <1>15 DEF s4, s3, s2, s1, D, I
<1> QED
    BY <1>5, <1>16 DEF InOrder

LEMMA LineInit == Init => Line
<1> SUFFICES ASSUME Init PROVE Line
    OBVIOUS
<1>1. /\ held = <<>> /\ queueOut = <<>> /\ atEncoder = <<>> /\ queueIn = <<>>
      /\ delivered = 0 /\ inside = 0 /\ captured = 0
      BY DEF Init
<1>2. Frame(0) = {}
      BY DEF Frame
<1>3. Rising({}, {}, {}, {}, {}, {}, 0)
      BY DEF Rising, Precedes
<1> QED
    BY <1>1, <1>2, <1>3, NoFrames DEF Line

\* Every step keeps the frames in line.
LEMMA LineStep == Lists /\ Counts /\ Apart /\ Line /\ [Next]_flowVars => Line'
<1> SUFFICES ASSUME Lists, Counts, Apart, Line, [Next]_flowVars PROVE Line'
    OBVIOUS
<1> DEFINE T == RawBuffers \union CodedBuffers
           O(s) == FramesOf(frame, s)
<1>a. /\ frame \in [T -> Nat] /\ inside \in Nat /\ delivered \in Nat /\ captured \in Nat
      /\ RawBuffers \in SUBSET T /\ CodedBuffers \in SUBSET T
      BY PipelineAssumption DEF Counts
<1>b. /\ rawPool \in Seq(RawBuffers) /\ atCamera \in Seq(RawBuffers)
      /\ queueIn \in Seq(RawBuffers) /\ atEncoder \in Seq(RawBuffers)
      BY DEF Lists
<1>c. /\ atOutput \in Seq(CodedBuffers) /\ queueOut \in Seq(CodedBuffers) /\ held \in Seq(CodedBuffers)
      /\ <<>> \in Seq(CodedBuffers)
      BY DEF Lists
<1>d. /\ Ascending(O(held)) /\ Ascending(O(queueOut)) /\ Ascending(O(atEncoder)) /\ Ascending(O(queueIn))
      /\ Rising(Frame(delivered), Shown(O(held)), Shown(O(queueOut)), Frame(inside),
                Shown(O(atEncoder)), Shown(O(queueIn)), captured)
      BY DEF Line
<1>e. Frame(0) = {}
      BY DEF Frame
<1>f. /\ ToSet(atCamera) \cap (ToSet(queueIn) \union ToSet(atEncoder)) = {}
      /\ ToSet(atOutput) \cap (ToSet(queueOut) \union ToSet(held)) = {}
      /\ ToSet(atCamera) \subseteq RawBuffers /\ ToSet(queueIn) \subseteq RawBuffers
      /\ ToSet(atEncoder) \subseteq RawBuffers /\ ToSet(atOutput) \subseteq CodedBuffers
      /\ ToSet(queueOut) \subseteq CodedBuffers /\ ToSet(held) \subseteq CodedBuffers
      BY DEF Apart, Share
<1>g. RawBuffers \cap CodedBuffers = {}
      BY PipelineAssumption
<1> HIDE DEF T
<1>h. \A f \in [T -> Nat], s \in Seq(RawBuffers), x \in RawBuffers :
         Ascending(FramesOf(f, s)) /\ Precedes(Shown(FramesOf(f, s)), Frame(f[x])) =>
            /\ Ascending(FramesOf(f, Append(s, x)))
            /\ Shown(FramesOf(f, Append(s, x))) = Shown(FramesOf(f, s)) \union Frame(f[x])
  <2>1. RawBuffers \in SUBSET T
        BY <1>a
  <2> QED
      BY <2>1, Joins
<1>i. \A f \in [T -> Nat], s \in Seq(CodedBuffers), x \in CodedBuffers :
         Ascending(FramesOf(f, s)) /\ Precedes(Shown(FramesOf(f, s)), Frame(f[x])) =>
            /\ Ascending(FramesOf(f, Append(s, x)))
            /\ Shown(FramesOf(f, Append(s, x))) = Shown(FramesOf(f, s)) \union Frame(f[x])
  <2>1. CodedBuffers \in SUBSET T
        BY <1>a
  <2> QED
      BY <2>1, Joins
<1>j. \A s \in Seq(CodedBuffers) : s # <<>> /\ Ascending(O(s)) =>
         Shown(O(s)) = Frame(frame[Head(s)]) \union Shown(O(Tail(s)))
      BY <1>a, Leaves
<1>1. CASE Wait
      BY <1>1 DEF Wait, Line, rawVars, codedVars
<1>2. CASE FillVideo
      BY <1>2 DEF FillVideo, Line, rawVars, codedVars
<1>3. CASE FillOutput
      BY <1>3 DEF FillOutput, Line, rawVars, codedVars
<1>4. CASE SendFrame
  <2>1. CASE queueIn = <<>>
        BY <1>4, <2>1 DEF SendFrame, Line, codedVars
  <2>2. CASE queueIn # <<>>
    <3> DEFINE x == Head(queueIn)
    <3>1. /\ queueIn' = Tail(queueIn) /\ atEncoder' = Append(atEncoder, x)
          /\ UNCHANGED <<inside, queueOut, held, frame, captured, delivered>>
          BY <1>4, <2>2 DEF SendFrame, codedVars
    <3>2. /\ Ascending(O(Tail(queueIn)))
          /\ Shown(O(queueIn)) = Frame(frame[x]) \union Shown(O(Tail(queueIn)))
          /\ Precedes(Frame(frame[x]), Shown(O(Tail(queueIn))))
          BY <1>a, <1>b, <1>d, <2>2, Leaves
    <3>3. Precedes(Shown(O(atEncoder)), Frame(frame[x]))
          BY <1>d, <3>2 DEF Rising, Precedes
    <3>4. x \in RawBuffers
          BY <1>b, <2>2
    <3>5. /\ Ascending(O(Append(atEncoder, x)))
          /\ Shown(O(Append(atEncoder, x))) = Shown(O(atEncoder)) \union Frame(frame[x])
      <4> HIDE DEF x
      <4> QED
          BY <1>a, <1>b, <1>d, <1>h, <3>3, <3>4
    <3>6. Rising(Frame(delivered), Shown(O(held)), Shown(O(queueOut)), Frame(inside),
                 Shown(O(Append(atEncoder, x))), Shown(O(Tail(queueIn))), captured)
          BY <1>d, <3>2, <3>5 DEF Rising, Precedes
    <3> QED
        BY <1>d, <3>1, <3>2, <3>5, <3>6 DEF Line
  <2> QED
      BY <2>1, <2>2
<1>5. CASE Refused
      BY <1>5 DEF Refused, Line, rawVars, codedVars
<1>6. CASE TakeEncoded
  <2>1. CASE queueOut = <<>>
        BY <1>6, <2>1 DEF TakeEncoded, Line, rawVars
  <2>2. CASE queueOut # <<>>
    <3> DEFINE x == Head(queueOut)
    <3>1. /\ queueOut' = Tail(queueOut) /\ held' = <<x>>
          /\ UNCHANGED <<inside, queueIn, atEncoder, frame, captured, delivered>>
          BY <1>6, <2>2 DEF TakeEncoded, rawVars
    <3>2. /\ Ascending(O(Tail(queueOut)))
          /\ Shown(O(queueOut)) = Frame(frame[x]) \union Shown(O(Tail(queueOut)))
          /\ Precedes(Frame(frame[x]), Shown(O(Tail(queueOut))))
          BY <1>a, <1>c, <1>d, <2>2, Leaves
    <3>4. x \in CodedBuffers /\ Append(<<>>, x) = <<x>>
          BY <1>c, <2>2
    <3>5. Ascending(O(<<x>>)) /\ Shown(O(<<x>>)) = Frame(frame[x])
      <4>1. Ascending(O(<<>>)) /\ Shown(O(<<>>)) = {} /\ Precedes(Shown(O(<<>>)), Frame(frame[x]))
            BY NoFrames DEF Precedes
      <4>2. x \in CodedBuffers
            BY <3>4
      <4> HIDE DEF x
      <4>3. /\ Ascending(O(Append(<<>>, x)))
            /\ Shown(O(Append(<<>>, x))) = Shown(O(<<>>)) \union Frame(frame[x])
            BY <1>a, <1>c, <1>i, <4>1, <4>2
      <4> QED
          BY <3>4, <4>1, <4>3
    <3>6. Rising(Frame(delivered), Shown(O(<<x>>)), Shown(O(Tail(queueOut))), Frame(inside),
                 Shown(O(atEncoder)), Shown(O(queueIn)), captured)
          BY <1>d, <3>2, <3>5 DEF Rising, Precedes
    <3> QED
        BY <1>d, <3>1, <3>2, <3>5, <3>6 DEF Line
  <2> QED
      BY <2>1, <2>2
<1>7. CASE Callback
  <2>1. held # <<>> /\ Tail(held) = <<>> /\ Head(held) = held[1]
        BY <1>7, OneElement DEF Callback, Lists
  <2>2. Shown(O(held)) = Frame(frame[Head(held)]) \union Shown(O(Tail(held)))
        BY <1>c, <1>d, <1>j, <2>1
  <2>3. Ascending(O(<<>>)) /\ Shown(O(<<>>)) = {}
        BY NoFrames
  <2>4. Shown(O(held)) = Frame(frame[held[1]])
        BY <2>1, <2>2, <2>3
  <2>5. /\ delivered' = frame[held[1]] /\ held' = <<>>
        /\ UNCHANGED <<inside, queueIn, atEncoder, queueOut, frame, captured>>
        BY <1>7 DEF Callback, rawVars
  <2>6. Rising(Frame(frame[held[1]]), {}, Shown(O(queueOut)), Frame(inside),
               Shown(O(atEncoder)), Shown(O(queueIn)), captured)
        BY <1>d, <2>4 DEF Rising, Precedes
  <2> QED
      BY <1>d, <2>3, <2>5, <2>6 DEF Line
<1>8. CASE Disabling
  <2>p. UNCHANGED <<captured, delivered>>
        BY <1>8, Disables
  <2>1. CASE EmptyVideo
    <3>1. /\ queueIn' = queueIn \o atCamera
          /\ frame' = [b \in DOMAIN frame |-> IF b \in ToSet(atCamera) THEN 0 ELSE frame[b]]
          /\ UNCHANGED <<inside, atEncoder, queueOut, held, captured, delivered>>
          BY <2>p, <2>1 DEF EmptyVideo, Emptied, codedVars
    <3>2. frame' \in [T -> Nat] /\ \A b \in T : frame'[b] = (IF b \in ToSet(atCamera) THEN 0 ELSE frame[b])
          BY <1>a, <3>1
    <3>3. \A x \in ToSet(atCamera) : frame'[x] = 0
          BY <1>a, <1>f, <3>2
    <3>4. \A x \in ToSet(queueIn) \union ToSet(atEncoder) \union ToSet(queueOut) \union ToSet(held) :
              frame'[x] = frame[x]
          BY <1>a, <1>f, <1>g, <3>2
    <3>5. /\ FramesOf(frame', queueIn) = O(queueIn) /\ FramesOf(frame', atEncoder) = O(atEncoder)
          /\ FramesOf(frame', queueOut) = O(queueOut) /\ FramesOf(frame', held) = O(held)
          BY <1>b, <1>c, <3>4, FramesElsewhere
    <3>6. /\ Shown(FramesOf(frame', queueIn \o atCamera)) = Shown(FramesOf(frame', queueIn))
          /\ Ascending(FramesOf(frame', queueIn)) => Ascending(FramesOf(frame', queueIn \o atCamera))
          BY <1>a, <1>b, <3>2, <3>3, EmptyAtEnd
    <3> QED
        BY <1>d, <3>1, <3>5, <3>6 DEF Line
  <2>2. CASE EmptyInput
    <3>1. atEncoder' = <<>> /\ UNCHANGED <<inside, queueIn, queueOut, held, frame, captured, delivered>>
          BY <2>p, <2>2 DEF EmptyInput, codedVars
    <3>2. Ascending(O(<<>>)) /\ Shown(O(<<>>)) = {}
          BY NoFrames
    <3>3. Rising(Frame(delivered), Shown(O(held)), Shown(O(queueOut)), Frame(inside),
                 {}, Shown(O(queueIn)), captured)
          BY <1>d DEF Rising, Precedes
    <3> QED
        BY <1>d, <3>1, <3>2, <3>3 DEF Line
  <2>3. CASE EmptyOutput
    <3>1. /\ queueOut' = queueOut \o atOutput /\ inside' = 0
          /\ frame' = [b \in DOMAIN frame |-> IF b \in ToSet(atOutput) THEN 0 ELSE frame[b]]
          /\ UNCHANGED <<atEncoder, queueIn, held, captured, delivered>>
          BY <2>p, <2>3 DEF EmptyOutput, Emptied, rawVars
    <3>2. frame' \in [T -> Nat] /\ \A b \in T : frame'[b] = (IF b \in ToSet(atOutput) THEN 0 ELSE frame[b])
          BY <1>a, <3>1
    <3>3. \A x \in ToSet(atOutput) : frame'[x] = 0
          BY <1>a, <1>f, <3>2
    <3>4. \A x \in ToSet(queueIn) \union ToSet(atEncoder) \union ToSet(queueOut) \union ToSet(held) :
              frame'[x] = frame[x]
          BY <1>a, <1>f, <1>g, <3>2
    <3>5. /\ FramesOf(frame', queueIn) = O(queueIn) /\ FramesOf(frame', atEncoder) = O(atEncoder)
          /\ FramesOf(frame', queueOut) = O(queueOut) /\ FramesOf(frame', held) = O(held)
          BY <1>b, <1>c, <3>4, FramesElsewhere
    <3>6. /\ Shown(FramesOf(frame', queueOut \o atOutput)) = Shown(FramesOf(frame', queueOut))
          /\ Ascending(FramesOf(frame', queueOut)) => Ascending(FramesOf(frame', queueOut \o atOutput))
          BY <1>a, <1>c, <3>2, <3>3, EmptyAtEnd
    <3>7. Rising(Frame(delivered), Shown(O(held)), Shown(O(queueOut)), {},
                 Shown(O(atEncoder)), Shown(O(queueIn)), captured)
          BY <1>d DEF Rising, Precedes
    <3> QED
        BY <1>d, <1>e, <3>1, <3>5, <3>6, <3>7 DEF Line
  <2>4. CASE UNCHANGED <<events, rawVars, inside, codedVars, frame>>
        BY <2>p, <2>4 DEF Line, rawVars, codedVars
  <2> QED
      BY <1>8, <2>1, <2>2, <2>3, <2>4, Disables
<1>11. CASE EncoderTakes
  <2> DEFINE x == Head(atEncoder)
  <2>1. /\ atEncoder # <<>> /\ atEncoder' = Tail(atEncoder) /\ inside = 0 /\ inside' = frame[x]
        /\ UNCHANGED <<queueIn, queueOut, held, frame, captured, delivered>>
        BY <1>11 DEF EncoderTakes, codedVars
  <2>2. /\ Ascending(O(Tail(atEncoder)))
        /\ Shown(O(atEncoder)) = Frame(frame[x]) \union Shown(O(Tail(atEncoder)))
        /\ Precedes(Frame(frame[x]), Shown(O(Tail(atEncoder))))
        BY <1>a, <1>b, <1>d, <2>1, Leaves
  <2>3. Rising(Frame(delivered), Shown(O(held)), Shown(O(queueOut)), Frame(frame[x]),
               Shown(O(Tail(atEncoder))), Shown(O(queueIn)), captured)
        BY <1>d, <2>2 DEF Rising, Precedes
  <2> QED
      BY <1>d, <2>1, <2>2, <2>3 DEF Line
<1>12. CASE EncoderEmits
  <2> DEFINE x == Head(atOutput)
  <2>1. /\ atOutput # <<>> /\ frame' = [frame EXCEPT ![x] = inside] /\ inside' = 0
        /\ queueOut' = Append(queueOut, x)
        /\ UNCHANGED <<atEncoder, queueIn, held, captured, delivered>>
        BY <1>12 DEF EncoderEmits, rawVars
  <2>2. x \in CodedBuffers /\ x \in ToSet(atOutput) /\ x \in T
        BY <1>a, <1>c, <2>1, MoveHead DEF ToSet
  <2>3. frame' \in [T -> Nat] /\ frame'[x] = inside /\ \A b \in T \ {x} : frame'[b] = frame[b]
        BY <1>a, <2>1, <2>2
  <2>4. \A b \in ToSet(queueIn) \union ToSet(atEncoder) \union ToSet(queueOut) \union ToSet(held) :
            frame'[b] = frame[b]
        BY <1>a, <1>f, <1>g, <2>2, <2>3
  <2>5. /\ FramesOf(frame', queueIn) = O(queueIn) /\ FramesOf(frame', atEncoder) = O(atEncoder)
        /\ FramesOf(frame', queueOut) = O(queueOut) /\ FramesOf(frame', held) = O(held)
        BY <1>b, <1>c, <2>4, FramesElsewhere
  <2>6. Precedes(Shown(FramesOf(frame', queueOut)), Frame(frame'[x])) /\ Ascending(FramesOf(frame', queueOut))
        BY <1>d, <2>3, <2>5 DEF Rising
  <2>7. /\ Ascending(FramesOf(frame', Append(queueOut, x)))
        /\ Shown(FramesOf(frame', Append(queueOut, x)))
              = Shown(FramesOf(frame', queueOut)) \union Frame(frame'[x])
    <3>1. x \in CodedBuffers
          BY <2>2
    <3> HIDE DEF x
    <3> QED
        BY <1>c, <1>i, <2>3, <2>6, <3>1
  <2>8. Rising(Frame(delivered), Shown(O(held)), Shown(O(queueOut)) \union Frame(inside), {},
               Shown(O(atEncoder)), Shown(O(queueIn)), captured)
        BY <1>d DEF Rising, Precedes
  <2> QED
      BY <1>d, <1>e, <2>1, <2>3, <2>5, <2>7, <2>8 DEF Line
<1>13. ASSUME NEW port \in Ports, SetEvent(port) PROVE Line'
      BY <1>13 DEF SetEvent, Line, rawVars, codedVars
<1>14. CASE Capture
  <2> DEFINE x == Head(atCamera)
             n == captured + 1
  <2>1. /\ atCamera # <<>> /\ frame' = [frame EXCEPT ![x] = n] /\ captured' = n
        /\ queueIn' = Append(queueIn, x)
        /\ UNCHANGED <<atEncoder, queueOut, held, inside, delivered>>
        BY <1>14 DEF Capture, codedVars
  <2>2. x \in RawBuffers /\ x \in ToSet(atCamera) /\ x \in T
        BY <1>a, <1>b, <2>1, MoveHead DEF ToSet
  <2>3. frame' \in [T -> Nat] /\ frame'[x] = n /\ \A b \in T \ {x} : frame'[b] = frame[b]
        BY <1>a, <2>1, <2>2
  <2>4. \A b \in ToSet(queueIn) \union ToSet(atEncoder) \union ToSet(queueOut) \union ToSet(held) :
            frame'[b] = frame[b]
        BY <1>a, <1>f, <1>g, <2>2, <2>3
  <2>5. /\ FramesOf(frame', queueIn) = O(queueIn) /\ FramesOf(frame', atEncoder) = O(atEncoder)
        /\ FramesOf(frame', queueOut) = O(queueOut) /\ FramesOf(frame', held) = O(held)
        BY <1>b, <1>c, <2>4, FramesElsewhere
  <2>a. \A y \in Frame(n) : y = n
        BY DEF Frame
  <2>b. \A y \in Frame(delivered) \union Shown(O(held)) \union Shown(O(queueOut)) \union Frame(inside)
                   \union Shown(O(atEncoder)) \union Shown(O(queueIn)) : y \in Nat /\ y < n
        BY <1>a, <1>d DEF Rising
  <2>6. Precedes(Shown(FramesOf(frame', queueIn)), Frame(frame'[x])) /\ Ascending(FramesOf(frame', queueIn))
        BY <1>d, <2>3, <2>5, <2>a, <2>b DEF Precedes
  <2>7. /\ Ascending(FramesOf(frame', Append(queueIn, x)))
        /\ Shown(FramesOf(frame', Append(queueIn, x)))
              = Shown(FramesOf(frame', queueIn)) \union Frame(frame'[x])
    <3>1. x \in RawBuffers
          BY <2>2
    <3> HIDE DEF x
    <3> QED
        BY <1>b, <1>h, <2>3, <2>6, <3>1
  <2>8. Rising(Frame(delivered), Shown(O(held)), Shown(O(queueOut)), Frame(inside),
               Shown(O(atEncoder)), Shown(O(queueIn)) \union Frame(n), n)
        BY <1>a, <1>d, <2>a, <2>b DEF Rising, Precedes
  <2> QED
      BY <1>d, <2>1, <2>3, <2>5, <2>7, <2>8 DEF Line
<1>15. CASE DropFrame
  <2>1. Rising(Frame(delivered), Shown(O(held)), Shown(O(queueOut)), Frame(inside),
               Shown(O(atEncoder)), Shown(O(queueIn)), captured + 1)
        BY <1>a, <1>d DEF Rising
  <2> QED
      BY <1>15, <1>d, <2>1 DEF DropFrame, Line, rawVars, codedVars
<1>16. CASE Stop
      BY <1>16 DEF Stop, Line, rawVars, codedVars
<1>17. CASE UNCHANGED flowVars
      BY <1>17 DEF flowVars, Line, rawVars, codedVars
<1> QED
    BY <1>1, <1>2, <1>3, <1>4, <1>5, <1>6, <1>7, <1>8, <1>11, <1>12, <1>13, <1>14, <1>15, <1>16, <1>17 DEF Next, Loop, Components, Disabling

\* Frames reach the callback in the order of their capture.
THEOREM FramesInOrder == RecorderSpec => []InOrder
<1>1. /\ Lists /\ Counts /\ Apart /\ Line /\ [RecorderNext]_recorderVars
      => Lists' /\ Counts' /\ Apart' /\ Line'
      BY ListsStep, CountsStep, ApartStep, LineStep, RecorderRunsLoop
<1>2. RecorderInit => Lists /\ Counts /\ Apart /\ Line
      BY ListsInit, LineInit DEF RecorderInit
<1> QED
    BY <1>1, <1>2, LineIsInOrder, PTL DEF RecorderSpec
=============================================================================
