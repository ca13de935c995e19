----------------------------- MODULE EventGroup -----------------------------
(***************************************************************************)
(* What vcos_event_flags.h promises: a set of events that threads set and  *)
(* wait for.  A get returns the events that satisfied it, at once or when  *)
(* a set satisfies it, and consumes what it asked for if it says so; or it *)
(* returns nothing, at once or when its time is up.                        *)
(***************************************************************************)
CONSTANTS Threads, Events

VARIABLES
    events,    \* the events that are set
    phase,     \* of each thread's get: "out", "waiting", "done"
    request,   \* what it asks for
    success,   \* its return status: VCOS_SUCCESS or VCOS_EAGAIN
    bits       \* the events it retrieves

vars == <<events, phase, request, success, bits>>

Request == [mask : SUBSET Events, all : BOOLEAN, consume : BOOLEAN, wait : {"no", "timed", "forever"}]

Satisfied(r, e) == IF r.all THEN r.mask \subseteq e ELSE r.mask \cap e # {}
Consumed(r)     == IF r.consume THEN r.mask ELSE {}

\* the results a get starts with
Starts(t, r) == /\ phase[t] = "out"
                /\ request' = [request EXCEPT ![t] = r]

Init == /\ events = {}
        /\ phase = [t \in Threads |-> "out"]
        /\ request \in [Threads -> Request]
        /\ success = [t \in Threads |-> FALSE] /\ bits = [t \in Threads |-> {}]

Now(t, r) == /\ Starts(t, r) /\ Satisfied(r, events)
             /\ phase' = [phase EXCEPT ![t] = "done"]
             /\ success' = [success EXCEPT ![t] = TRUE] /\ bits' = [bits EXCEPT ![t] = events]
             /\ events' = events \ Consumed(r)

Miss(t, r) == /\ Starts(t, r) /\ ~Satisfied(r, events) /\ r.wait = "no"
              /\ phase' = [phase EXCEPT ![t] = "done"]
              /\ success' = [success EXCEPT ![t] = FALSE] /\ bits' = [bits EXCEPT ![t] = {}]
              /\ UNCHANGED events

Wait(t, r) == /\ Starts(t, r) /\ ~Satisfied(r, events) /\ r.wait # "no"
              /\ phase' = [phase EXCEPT ![t] = "waiting"]
              /\ success' = [success EXCEPT ![t] = FALSE] /\ bits' = [bits EXCEPT ![t] = {}]
              /\ UNCHANGED events

\* the events become e: whoever is satisfied sees all of them, then they are consumed
Set(e) == LET woken == {t \in Threads : phase[t] = "waiting" /\ Satisfied(request[t], e)}
          IN  /\ phase' = [t \in Threads |-> IF t \in woken THEN "done" ELSE phase[t]]
              /\ success' = [t \in Threads |-> success[t] \/ t \in woken]
              /\ bits' = [t \in Threads |-> IF t \in woken THEN e ELSE bits[t]]
              /\ events' = e \ UNION {Consumed(request[t]) : t \in woken}
              /\ UNCHANGED request

TimeOut(t) == /\ phase[t] = "waiting" /\ request[t].wait = "timed"
              /\ phase' = [phase EXCEPT ![t] = "done"]
              /\ UNCHANGED <<events, request, success, bits>>

Return(t) == /\ phase[t] = "done"
             /\ phase' = [phase EXCEPT ![t] = "out"]
             /\ UNCHANGED <<events, request, success, bits>>

Next == \/ \E t \in Threads : \/ \E r \in Request : Now(t, r) \/ Miss(t, r) \/ Wait(t, r)
                              \/ TimeOut(t) \/ Return(t)
        \/ \E e \in SUBSET Events : Set(e)

Spec == Init /\ [][Next]_vars

\* time passes, and a get that is done returns whatever the others do
FairSpec == Spec /\ \A t \in Threads : WF_vars(TimeOut(t)) /\ WF_vars(Return(t))
=============================================================================
