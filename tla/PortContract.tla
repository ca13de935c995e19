---------------------------- MODULE PortContract ----------------------------
(***************************************************************************)
(* What an MMAL port promises the program that uses it: it takes buffers   *)
(* only while it is enabled, gives each one back by a callback, and when a *)
(* disable has succeeded it holds no buffer and runs no callback.          *)
(* DisableVideo, DisableInput and DisableOutput of FramePipeline rely on   *)
(* this.                                                                   *)
(***************************************************************************)
EXTENDS Naturals

CONSTANT Buffers

VARIABLES state,   \* "disabled", "enabling", "enabled", "disabling"
          held,    \* buffers the port has taken
          calls    \* callbacks that run

vars == <<state, held, calls>>

Init == state = "disabled" /\ held = {} /\ calls = 0

Moves(from, to) == state = from /\ state' = to /\ UNCHANGED <<held, calls>>

Enable == \/ Moves("disabled", "enabling") \/ Moves("enabling", "enabled")
          \/ Moves("enabling", "disabled") /\ calls = 0

Accept(b) == /\ state = "enabled" /\ b \notin held
             /\ held' = held \union {b}
             /\ UNCHANGED <<state, calls>>

\* the send fails, the caller keeps the buffer
Refuse(b) == /\ state = "enabled" /\ b \in held
             /\ held' = held \ {b}
             /\ UNCHANGED <<state, calls>>

\* a buffer is given back, or an event is delivered
BeginCallback == /\ state # "disabled"
                 /\ held' = held \/ \E b \in held : held' = held \ {b}
                 /\ calls' = calls + 1
                 /\ UNCHANGED state

EndCallback == calls > 0 /\ calls' = calls - 1 /\ UNCHANGED <<state, held>>

Disable == \/ Moves("enabled", "disabling") \/ Moves("disabling", "enabled")
           \/ Moves("disabling", "disabled") /\ held = {} /\ calls = 0

Next == \/ Enable \/ Disable \/ BeginCallback \/ EndCallback
        \/ \E b \in Buffers : Accept(b) \/ Refuse(b)

Spec == Init /\ [][Next]_vars
=============================================================================
