----------------------------- MODULE RemoteCalls -----------------------------
(***************************************************************************)
(* What a caller of mmal_vc_sendwait_message may rely on: a call is either *)
(* answered, once and with the answer to this very call, or refused, and   *)
(* only then does it return.                                               *)
(***************************************************************************)
CONSTANT Threads

VARIABLE state   \* of each thread's call: "idle", "called", "answered", "refused"

Init == state = [t \in Threads |-> "idle"]

Moves(t, from, to) == state[t] \in from /\ state' = [state EXCEPT ![t] = to]

Call(t)   == Moves(t, {"idle"}, "called")
Answer(t) == Moves(t, {"called"}, "answered")
Refuse(t) == Moves(t, {"called"}, "refused")
Return(t) == Moves(t, {"answered", "refused"}, "idle")

Next == \E t \in Threads : Call(t) \/ Answer(t) \/ Refuse(t) \/ Return(t)

Spec == Init /\ [][Next]_state
=============================================================================
