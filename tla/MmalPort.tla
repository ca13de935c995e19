------------------------------ MODULE MmalPort ------------------------------
(***************************************************************************)
(* A port of a VideoCore component as MMAL implements it on the ARM side   *)
(* (src/src/include/interface/mmal): enable, disable, send, flush, pause   *)
(* and the callbacks of core/mmal_port.c, their VideoCore half in          *)
(* vc/mmal_vc_api.c, and the component's action thread of                  *)
(* core/mmal_component.c that runs the callbacks.                          *)
(*                                                                         *)
(* Threads of the program call into the port; the VCHIQ thread takes what  *)
(* VideoCore sends, and only queues it; the action thread calls back.      *)
(* VideoCore holds the buffers it was sent, gives them back in any order,  *)
(* and answers one request at a time.  The port is not connected to        *)
(* another one and uses zero copy, as the recorder's ports do.             *)
(***************************************************************************)
EXTENDS Naturals, Sequences, SequencesExt, FiniteSets

CONSTANTS Threads,    \* threads that call the API
          Buffers,    \* buffer headers of the port's pool
          None,       \* no thread, no buffer
          MaxEvents,  \* bound: events VideoCore sends
          Failures    \* whether messages to VideoCore and its answers may fail

Action == "action"               \* the component's action thread
Agents == Threads \union {Action}
Event  == "event"                \* an event buffer of the component, not one of Buffers

ASSUME PortAssumption ==
    /\ Threads \cap (Buffers \union {None, Action, Event}) = {}
    /\ Buffers \cap {None, Action, Event, "success", "failure"} = {} /\ None \notin {Action, Event}
    /\ IsFiniteSet(Buffers) /\ Failures \in BOOLEAN /\ MaxEvents \in Nat

VARIABLES
    pc,             \* where each agent is
    item,           \* the buffer an agent is sending or calling back with
    taken,          \* buffers of the internal queue a thread is about to return
    isEnabled,      \* port->is_enabled
    callback,       \* core->buffer_header_callback is not NULL
    transit,        \* core->transit_buffer_headers
    sema,           \* core->transit_sema
    isPaused,       \* core->is_paused
    queue,          \* the internal queue, core->queue_first
    portLock,       \* who holds core->connection_lock and core->lock
    sendLock,       \* who holds core->send_lock
    actionLock,     \* who holds the component's action_mutex
    actionEvent,    \* the component's action_event is signalled
    pool,           \* module->pool: "none" (has_pool = 0), "live", "deleted" (but has_pool = 1)
    stale,          \* buffers at VideoCore whose client context went with the pool
    callbackQueue,  \* the component's callback_queue
    triggering,     \* the VCHIQ thread has queued a buffer and not signalled it yet
    request,        \* the request VideoCore works on: "none", "enable", "disable", "flush"
    reply,          \* its answer: "none", "success", "failure"
    atVC,           \* buffers VideoCore holds
    toHost,         \* messages from VideoCore on their way
    vcOn,           \* its side of the port is enabled
    events,         \* events sent so far
    withClient,     \* buffers the program holds
    aborted         \* a stale context was used and the program ended

lockVars   == <<portLock, sendLock, actionLock>>
coreVars   == <<isEnabled, callback, isPaused, queue>>
transitVars == <<transit, sema>>
hostVars   == <<actionEvent, callbackQueue, triggering>>
vcVars     == <<request, reply, atVC, toHost, vcOn, events>>
vars == <<pc, item, taken, coreVars, transitVars, lockVars, hostVars, pool, stale, vcVars,
          withClient, aborted>>

Init == /\ pc = [a \in Agents |-> IF a = Action THEN "waitEvent" ELSE "idle"]
        /\ item = [a \in Agents |-> None] /\ taken = [t \in Threads |-> <<>>]
        /\ isEnabled = FALSE /\ callback = FALSE /\ isPaused = FALSE /\ queue = <<>>
        /\ transit = 0 /\ sema = 1
        /\ portLock = None /\ sendLock = None /\ actionLock = None
        /\ actionEvent = FALSE /\ callbackQueue = <<>> /\ triggering = FALSE
        /\ pool = "none" /\ stale = {}
        /\ request = "none" /\ reply = "none" /\ atVC = {} /\ toHost = <<>>
        /\ vcOn = FALSE /\ events = 0
        /\ withClient = Buffers
        /\ aborted = FALSE

Goes(a, from, to) == pc[a] = from /\ pc' = [pc EXCEPT ![a] = to] /\ ~aborted

\* IN_TRANSIT_INCREMENT and IN_TRANSIT_DECREMENT; the former may block on the semaphore
Increment == /\ transit = 0 => sema > 0
             /\ transit' = transit + 1
             /\ sema' = IF transit = 0 THEN sema - 1 ELSE sema

Decrement == /\ transit' = transit - 1
             /\ sema' = IF transit = 1 THEN sema + 1 ELSE sema

\* contexts allocated from the pool: their buffers are at VideoCore or on the way back
InFlight == (atVC \union ToSet(toHost)) \cap Buffers

(* mmal_vc_sendwait_message: VideoCore is asked, or the message cannot be  *)
(* queued and the call fails at once; later there is an answer.            *)
Ask(what) == /\ \/ request' = what /\ UNCHANGED reply
                \/ Failures /\ reply' = "failure" /\ UNCHANGED request
             /\ UNCHANGED <<atVC, toHost, vcOn, events>>

Answered(status) == /\ reply = status
                    /\ reply' = "none"
                    /\ UNCHANGED <<request, atVC, toHost, vcOn, events>>

-----------------------------------------------------------------------------
(* Faulty variants, not part of Next.                                      *)

\* a send that fails leaves the buffer counted
SendFailsCounted(t) == /\ Goes(t, "sending", "idle")
                       /\ ~isPaused /\ (pool = "none" \/ Failures)
                       /\ sendLock' = None
                       /\ item' = [item EXCEPT ![t] = None]
                       /\ withClient' = withClient \union {item[t]}
                       /\ UNCHANGED <<taken, coreVars, transitVars, portLock, actionLock, hostVars,
                                      pool, stale, vcVars, aborted>>

\* one of two returns of the flush keeps the action lock
FlushDisabledLocked(t) == /\ Goes(t, "flushLock", "idle")
                          /\ sendLock = None /\ ~isEnabled
                          /\ UNCHANGED <<item, taken, coreVars, transitVars, lockVars, hostVars, pool,
                                         stale, vcVars, withClient, aborted>>

\* the pool is deleted before VideoCore is told
DisableDeletesFirst(t) == /\ Goes(t, "disableLock", "disableWait")
                          /\ actionLock = None /\ actionLock' = t
                          /\ pool' = "none"
                          /\ Ask("disable")
                          /\ UNCHANGED <<item, taken, coreVars, transitVars, portLock, sendLock,
                                         hostVars, stale, withClient, aborted>>

\* queued callbacks are left to the action thread
NotDrained(t) == /\ item[t] = None
                 /\ \/ /\ Goes(t, "drain", "returnQueue")
                       /\ taken' = [taken EXCEPT ![t] = queue] /\ queue' = <<>>
                    \/ Goes(t, "drainFailed", "reenable") /\ UNCHANGED <<taken, queue>>
                 /\ actionLock' = None
                 /\ UNCHANGED <<item, isEnabled, callback, isPaused, transitVars, portLock, sendLock,
                                hostVars, pool, stale, vcVars, withClient, aborted>>

\* the disable does not wait for what is in transit
TransitNotAwaited(t) == /\ Goes(t, "returnQueue", "idle")
                        /\ taken[t] = <<>> /\ item[t] = None
                        /\ callback' = FALSE /\ portLock' = None
                        /\ UNCHANGED <<item, taken, isEnabled, isPaused, queue, transitVars, sendLock,
                                       actionLock, hostVars, pool, stale, vcVars, withClient, aborted>>

\* one callback per signal
ActionDoneAfterOne == /\ Goes(Action, "loop", "waitEvent")
                      /\ item[Action] = None
                      /\ actionLock' = None
                      /\ UNCHANGED <<item, taken, coreVars, transitVars, portLock, sendLock, hostVars,
                                     pool, stale, vcVars, withClient, aborted>>

-----------------------------------------------------------------------------
(* mmal_port_send_buffer.  A port that is not enabled refuses the buffer   *)
(* and nothing changes.                                                    *)

BeginSend(t, b) == /\ Goes(t, "idle", "sending")
                   /\ sendLock = None /\ isEnabled /\ b \in withClient
                   /\ sendLock' = t
                   /\ Increment
                   /\ item' = [item EXCEPT ![t] = b]
                   /\ withClient' = withClient \ {b}
                   /\ UNCHANGED <<taken, coreVars, portLock, actionLock, hostVars, pool, stale,
                                  vcVars, aborted>>

EndSend(t) == /\ Goes(t, "sending", "idle")
              /\ sendLock' = None
              /\ item' = [item EXCEPT ![t] = None]
              /\ UNCHANGED <<taken, isEnabled, callback, isPaused, portLock, actionLock, hostVars,
                             pool, stale, request, reply, toHost, vcOn, events, aborted>>

SendPaused(t) == /\ EndSend(t)
                 /\ isPaused
                 /\ queue' = Append(queue, item[t])
                 /\ UNCHANGED <<atVC, withClient, transitVars>>

\* mmal_vc_port_send: a client context and a message
SendToVC(t) == /\ EndSend(t)
               /\ ~isPaused /\ pool # "none"
               /\ atVC' = atVC \union {item[t]}
               /\ UNCHANGED <<queue, withClient, transitVars>>

\* no pool, or the message cannot be queued
SendFails(t) == /\ EndSend(t)
                /\ ~isPaused /\ (pool = "none" \/ Failures)
                /\ Decrement
                /\ withClient' = withClient \union {item[t]}
                /\ UNCHANGED <<queue, atVC>>

-----------------------------------------------------------------------------
(* mmal_port_pause                                                         *)

Pause(t) == /\ Goes(t, "idle", "idle") /\ sendLock = None
            /\ isPaused' = TRUE
            /\ UNCHANGED <<item, taken, isEnabled, callback, queue, transitVars, lockVars, hostVars,
                           pool, stale, vcVars, withClient, aborted>>

\* the buffers of the internal queue are sent; if one cannot be, the port stays as it was
Resume(t) == /\ Goes(t, "idle", "idle") /\ sendLock = None
             /\ \E n \in IF isEnabled THEN 0..Len(queue) ELSE {0} :
                   /\ n > 0 => pool # "none"
                   /\ isEnabled /\ n < Len(queue) => Failures
                   /\ atVC' = atVC \union ToSet(SubSeq(queue, 1, n))
                   /\ queue' = SubSeq(queue, n + 1, Len(queue))
                   /\ isPaused' = (isPaused /\ isEnabled /\ n < Len(queue))
             /\ UNCHANGED <<item, taken, isEnabled, callback, transitVars, lockVars, hostVars,
                            pool, stale, request, reply, toHost, vcOn, events, withClient, aborted>>

-----------------------------------------------------------------------------
(* mmal_port_flush                                                         *)

FlushLock(t) == /\ Goes(t, "idle", "flushLock")
                /\ actionLock = None /\ actionLock' = t
                /\ UNCHANGED <<item, taken, coreVars, transitVars, portLock, sendLock, hostVars,
                               pool, stale, vcVars, withClient, aborted>>

FlushDisabled(t) == /\ Goes(t, "flushLock", "idle")
                    /\ sendLock = None /\ ~isEnabled
                    /\ actionLock' = None
                    /\ UNCHANGED <<item, taken, coreVars, transitVars, portLock, sendLock, hostVars,
                                   pool, stale, vcVars, withClient, aborted>>

FlushAsk(t) == /\ Goes(t, "flushLock", "flushWait")
               /\ sendLock = None /\ isEnabled
               /\ sendLock' = t
               /\ Ask("flush")
               /\ UNCHANGED <<item, taken, coreVars, transitVars, portLock, actionLock, hostVars,
                              pool, stale, withClient, aborted>>

\* the internal queue is returned after the locks are free again
FlushAnswered(t) == /\ Goes(t, "flushWait", "returning")
                    /\ \/ /\ Answered("success")
                          /\ taken' = [taken EXCEPT ![t] = queue] /\ queue' = <<>>
                       \/ Answered("failure") /\ UNCHANGED <<taken, queue>>
                    /\ sendLock' = None /\ actionLock' = None
                    /\ UNCHANGED <<item, isEnabled, callback, isPaused, transitVars, portLock,
                                   hostVars, pool, stale, withClient, aborted>>

FlushReturns(t) == /\ Goes(t, "returning", "idle")
                   /\ taken[t] = <<>> /\ item[t] = None
                   /\ UNCHANGED <<item, taken, coreVars, transitVars, lockVars, hostVars, pool,
                                  stale, vcVars, withClient, aborted>>

-----------------------------------------------------------------------------
(* mmal_port_enable with mmal_vc_port_enable                               *)

EnableAsk(t) == /\ Goes(t, "idle", "enableWait")
                /\ portLock = None /\ ~isEnabled
                /\ portLock' = t
                /\ callback' = TRUE
                /\ pool' = "live"
                /\ Ask("enable")
                /\ UNCHANGED <<item, taken, isEnabled, isPaused, queue, transitVars, sendLock,
                               actionLock, hostVars, stale, withClient, aborted>>

Enabled(t) == /\ Goes(t, "enableWait", "idle")
              /\ Answered("success")
              /\ sendLock = None
              /\ isEnabled' = TRUE
              /\ portLock' = None
              /\ UNCHANGED <<item, taken, callback, isPaused, queue, transitVars, sendLock,
                             actionLock, hostVars, pool, stale, withClient, aborted>>

\* the pool is deleted, has_pool and the callback stay
EnableFails(t) == /\ Goes(t, "enableWait", "idle")
                  /\ Answered("failure")
                  /\ pool' = "deleted"
                  /\ portLock' = None
                  /\ UNCHANGED <<item, taken, coreVars, transitVars, sendLock, actionLock, hostVars,
                                 stale, withClient, aborted>>

-----------------------------------------------------------------------------
(* mmal_port_disable with mmal_vc_port_disable                             *)

DisableLock(t) == /\ Goes(t, "idle", "clear")
                  /\ portLock = None /\ isEnabled
                  /\ portLock' = t
                  /\ UNCHANGED <<item, taken, coreVars, transitVars, sendLock, actionLock, hostVars,
                                 pool, stale, vcVars, withClient, aborted>>

Clear(t) == /\ Goes(t, "clear", "disableLock")
            /\ sendLock = None
            /\ isEnabled' = FALSE
            /\ UNCHANGED <<item, taken, callback, isPaused, queue, transitVars, lockVars, hostVars,
                           pool, stale, vcVars, withClient, aborted>>

DisableAsk(t) == /\ Goes(t, "disableLock", "disableWait")
                 /\ actionLock = None /\ actionLock' = t
                 /\ Ask("disable")
                 /\ UNCHANGED <<item, taken, coreVars, transitVars, portLock, sendLock, hostVars,
                                pool, stale, withClient, aborted>>

\* the pool goes whatever the answer was, with the contexts of buffers still on their way
DisableAnswered(t) == /\ \/ Answered("success") /\ Goes(t, "disableWait", "drain")
                         \/ Answered("failure") /\ Goes(t, "disableWait", "drainFailed")
                      /\ pool' = "none"
                      /\ stale' = IF pool = "live" THEN stale \union InFlight ELSE stale
                      /\ UNCHANGED <<item, taken, coreVars, transitVars, lockVars, hostVars,
                                     withClient, aborted>>

\* the callback queue is empty: the action lock is free again
Drained(t) == /\ callbackQueue = <<>> /\ item[t] = None
              /\ \/ /\ Goes(t, "drain", "returnQueue")
                    /\ taken' = [taken EXCEPT ![t] = queue] /\ queue' = <<>>
                 \/ Goes(t, "drainFailed", "reenable") /\ UNCHANGED <<taken, queue>>
              /\ actionLock' = None
              /\ UNCHANGED <<item, isEnabled, callback, isPaused, transitVars, portLock, sendLock,
                             hostVars, pool, stale, vcVars, withClient, aborted>>

Reenable(t) == /\ Goes(t, "reenable", "idle")
               /\ sendLock = None
               /\ isEnabled' = TRUE
               /\ portLock' = None
               /\ UNCHANGED <<item, taken, callback, isPaused, queue, transitVars, sendLock,
                              actionLock, hostVars, pool, stale, vcVars, withClient, aborted>>

\* IN_TRANSIT_WAIT: the semaphore is taken and given back
TransitWait(t) == /\ Goes(t, "returnQueue", "transitPost")
                  /\ taken[t] = <<>> /\ item[t] = None
                  /\ sema > 0 /\ sema' = sema - 1
                  /\ UNCHANGED <<item, taken, coreVars, transit, lockVars, hostVars, pool, stale,
                                 vcVars, withClient, aborted>>

Disabled(t) == /\ Goes(t, "transitPost", "idle")
               /\ sema' = sema + 1
               /\ callback' = FALSE
               /\ portLock' = None
               /\ UNCHANGED <<item, taken, isEnabled, isPaused, queue, transit, sendLock,
                              actionLock, hostVars, pool, stale, vcVars, withClient, aborted>>

-----------------------------------------------------------------------------
(* Callbacks: mmal_port_buffer_header_callback and mmal_port_event_send,   *)
(* on the action thread, on a thread that drains the callback queue, or on *)
(* one that returns the internal queue.  The program has its buffer as     *)
(* soon as the callback runs, and may send it again before it returns.     *)

Calls(a, what) == /\ ~aborted /\ item[a] = None
                  /\ item' = [item EXCEPT ![a] = IF what = Event /\ ~callback THEN None ELSE what]
                  /\ withClient' = withClient \union ({what} \ {Event})

\* mmal_vc_do_callback
CallQueued(a) == /\ pc[a] \in {"loop", "drain", "drainFailed"}
                 /\ callbackQueue # <<>>
                 /\ Calls(a, Head(callbackQueue))
                 /\ callbackQueue' = Tail(callbackQueue)
                 /\ UNCHANGED <<pc, taken, coreVars, transitVars, lockVars, actionEvent, triggering,
                                pool, stale, vcVars, aborted>>

CallTaken(t) == /\ pc[t] \in {"returning", "returnQueue"}
                /\ taken[t] # <<>>
                /\ Calls(t, Head(taken[t]))
                /\ taken' = [taken EXCEPT ![t] = Tail(@)]
                /\ UNCHANGED <<pc, coreVars, transitVars, lockVars, hostVars, pool, stale, vcVars,
                               aborted>>

\* agents whose callback runs
Calling == {a \in Agents : item[a] # None /\ pc[a] # "sending"}

CallReturns(a) == /\ ~aborted /\ a \in Calling
                  /\ IF item[a] = Event THEN UNCHANGED transitVars ELSE Decrement
                  /\ item' = [item EXCEPT ![a] = None]
                  /\ UNCHANGED <<pc, taken, coreVars, lockVars, hostVars, pool, stale, vcVars,
                                 withClient, aborted>>

-----------------------------------------------------------------------------
(* The action thread: mmal_component_action_thread_func                    *)

ActionWakes == /\ Goes(Action, "waitEvent", "lockAction")
               /\ actionEvent /\ actionEvent' = FALSE
               /\ UNCHANGED <<item, taken, coreVars, transitVars, lockVars, callbackQueue,
                              triggering, pool, stale, vcVars, withClient, aborted>>

ActionLocks == /\ Goes(Action, "lockAction", "loop")
               /\ actionLock = None /\ actionLock' = Action
               /\ UNCHANGED <<item, taken, coreVars, transitVars, portLock, sendLock, hostVars,
                              pool, stale, vcVars, withClient, aborted>>

ActionDone == /\ Goes(Action, "loop", "waitEvent")
              /\ callbackQueue = <<>> /\ item[Action] = None
              /\ actionLock' = None
              /\ UNCHANGED <<item, taken, coreVars, transitVars, portLock, sendLock, hostVars,
                             pool, stale, vcVars, withClient, aborted>>

-----------------------------------------------------------------------------
(* The VCHIQ thread                                                        *)

\* mmal_vc_port_send_callback: the context is freed, the buffer queued
HostBuffer == /\ ~aborted /\ ~triggering
              /\ toHost # <<>> /\ Head(toHost) \in Buffers \union {Event}
              /\ toHost' = Tail(toHost)
              /\ stale' = stale \ {Head(toHost)}
              /\ aborted' \in BOOLEAN /\ (aborted' => Head(toHost) \in stale)
              /\ callbackQueue' = Append(callbackQueue, Head(toHost))
              /\ triggering' = TRUE
              /\ UNCHANGED <<pc, item, taken, coreVars, transitVars, lockVars, actionEvent, pool,
                             request, reply, atVC, vcOn, events, withClient>>

\* mmal_component_action_trigger
Trigger == /\ ~aborted /\ triggering
           /\ triggering' = FALSE
           /\ actionEvent' = TRUE
           /\ UNCHANGED <<pc, item, taken, coreVars, transitVars, lockVars, callbackQueue, pool,
                          stale, vcVars, withClient, aborted>>

HostReply == /\ ~aborted /\ ~triggering
             /\ toHost # <<>> /\ Head(toHost) \in {"success", "failure"}
             /\ reply' = Head(toHost)
             /\ toHost' = Tail(toHost)
             /\ request' = "none"
             /\ UNCHANGED <<pc, item, taken, coreVars, transitVars, lockVars, hostVars, pool, stale,
                            atVC, vcOn, events, withClient, aborted>>

Vchiq == HostBuffer \/ Trigger \/ HostReply

-----------------------------------------------------------------------------
(* VideoCore                                                               *)

VCSends(what) == /\ ~aborted
                 /\ toHost' = Append(toHost, what)
                 /\ UNCHANGED <<pc, item, taken, coreVars, transitVars, lockVars, hostVars, pool,
                                stale, request, reply, withClient, aborted>>

VCReturn(b) == /\ b \in atVC
               /\ VCSends(b)
               /\ atVC' = atVC \ {b}
               /\ UNCHANGED <<vcOn, events>>

VCEvent == /\ vcOn /\ events < MaxEvents
           /\ VCSends(Event)
           /\ events' = events + 1
           /\ UNCHANGED <<atVC, vcOn>>

Replied == ToSet(toHost) \cap {"success", "failure"} # {}

\* before it answers a flush or a disable VideoCore gives every buffer back
VCAnswer == /\ request # "none" /\ ~Replied
            /\ request # "enable" => atVC = {}
            /\ VCSends("success")
            /\ vcOn' = IF request = "flush" THEN vcOn ELSE request = "enable"
            /\ UNCHANGED <<atVC, events>>

VCRefuses == /\ Failures /\ request # "none" /\ ~Replied
             /\ VCSends("failure")
             /\ UNCHANGED <<atVC, vcOn, events>>

-----------------------------------------------------------------------------
Begins(t) == \/ FlushLock(t) \/ EnableAsk(t) \/ DisableLock(t) \/ Pause(t) \/ Resume(t)
             \/ \E b \in Buffers : BeginSend(t, b)

\* what a thread does inside a call
Continues(t) == \/ SendPaused(t) \/ SendToVC(t) \/ SendFails(t)
                \/ FlushDisabled(t) \/ FlushAsk(t) \/ FlushAnswered(t) \/ FlushReturns(t)
                \/ Enabled(t) \/ EnableFails(t)
                \/ Clear(t) \/ DisableAsk(t) \/ DisableAnswered(t) \/ Drained(t) \/ Reenable(t)
                \/ TransitWait(t) \/ Disabled(t)
                \/ CallQueued(t) \/ CallTaken(t) \/ CallReturns(t)

ActionThread == ActionWakes \/ ActionLocks \/ ActionDone \/ CallQueued(Action) \/ CallReturns(Action)

VideoCore == VCEvent \/ VCAnswer \/ VCRefuses \/ \E b \in Buffers : VCReturn(b)

Next == \/ \E t \in Threads : Begins(t) \/ Continues(t)
        \/ ActionThread \/ Vchiq \/ VideoCore

Spec == Init /\ [][Next]_vars

(* Every thread runs and gets the locks it waits for in the end, callbacks *)
(* return, and VideoCore answers.  Nobody has to call, and VideoCore may   *)
(* keep a buffer as long as it is not asked to give it back.               *)
Fairness == /\ \A t \in Threads : SF_vars(Continues(t))
            /\ SF_vars(ActionThread)
            /\ WF_vars(Vchiq)
            /\ WF_vars(VCAnswer)
            /\ WF_vars(request \in {"flush", "disable"} /\ \E b \in Buffers : VCReturn(b))

FairSpec == Spec /\ Fairness

-----------------------------------------------------------------------------
(* Properties                                                              *)

Items == Buffers \union {Event}

TypeOK ==
    /\ pc \in [Agents -> {"idle", "sending", "flushLock", "flushWait", "returning", "enableWait",
                          "clear", "disableLock", "disableWait", "drain", "drainFailed", "reenable",
                          "returnQueue", "transitPost", "waitEvent", "lockAction", "loop"}]
    /\ item \in [Agents -> Items \union {None}]
    /\ taken \in [Threads -> Seq(Buffers)]
    /\ isEnabled \in BOOLEAN /\ callback \in BOOLEAN /\ isPaused \in BOOLEAN
    /\ queue \in Seq(Buffers)
    /\ transit \in Nat /\ sema \in 0..1
    /\ portLock \in Threads \union {None} /\ sendLock \in Threads \union {None}
    /\ actionLock \in Agents \union {None}
    /\ actionEvent \in BOOLEAN /\ triggering \in BOOLEAN /\ callbackQueue \in Seq(Items)
    /\ pool \in {"none", "live", "deleted"} /\ stale \subseteq Buffers
    /\ request \in {"none", "enable", "disable", "flush"} /\ reply \in {"none", "success", "failure"}
    /\ atVC \subseteq Buffers /\ toHost \in Seq(Items \union {"success", "failure"})
    /\ vcOn \in BOOLEAN /\ events \in 0..MaxEvents
    /\ withClient \subseteq Buffers /\ aborted \in BOOLEAN

(* The transit counter is exact in every state, although sends, callbacks  *)
(* and a disable change it on different threads and a buffer may be sent   *)
(* again before its callback has returned; and the semaphore is taken just *)
(* while something is in transit.                                          *)
TransitExact ==
    /\ transit = Cardinality(Buffers \ withClient) + Cardinality({a \in Calling : item[a] \in Buffers})
    /\ sema = IF transit = 0 /\ \A t \in Threads : pc[t] # "transitPost" THEN 1 ELSE 0

(* The callback pointer that a disable resets is never called through      *)
(* after, by no thread.                                                    *)
NoNullCallback == Calling # {} => callback

(* The assertion in mmal_vc_port_disable: no client context is in use when *)
(* the port's pool is deleted.  It is deleted after a failure too, when    *)
(* nobody can promise that.                                                *)
PoolIdleWhenDeleted == [][pool = "live" /\ pool' # "live" /\ reply # "failure" => InFlight = {}]_vars

(* The port is what PortContract says, whatever fails.                     *)
Disabling == {"disableLock", "disableWait", "drain", "drainFailed", "reenable", "returnQueue",
              "transitPost"}

Contract == INSTANCE PortContract
              WITH state <- IF isEnabled THEN "enabled"
                            ELSE IF \E t \in Threads : pc[t] = "enableWait" THEN "enabling"
                            ELSE IF \E t \in Threads : pc[t] \in Disabling THEN "disabling"
                            ELSE "disabled",
                   held  <- Buffers \ withClient,
                   calls <- Cardinality(Calling)

ImplementsContract == Contract!Spec

(* Whoever calls into the port comes back: no order of its three locks and *)
(* the semaphore, and no callback, leaves a caller waiting for ever.       *)
CallsReturn == \A t \in Threads : (pc[t] # "idle") ~> (pc[t] = "idle" \/ aborted)

(* A buffer that came back from VideoCore reaches the program, although    *)
(* events do not count and a thread that disables takes buffers from the   *)
(* action thread's queue.                                                  *)
QueuedIsCalledBack == \A b \in Buffers :
    (b \in ToSet(callbackQueue)) ~> (b \notin ToSet(callbackQueue) \/ aborted)
=============================================================================
