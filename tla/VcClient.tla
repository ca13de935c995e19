------------------------------ MODULE VcClient ------------------------------
(***************************************************************************)
(* The client of the VideoCore's MMAL service, mmal_vc_client.c, under its *)
(* users in mmal_vc_api.c: threads that create a component, make calls on  *)
(* it and destroy it.  The first component opens the service and the last  *)
(* one closes it (refcount); VideoCore is kept awake while somebody needs  *)
(* it (usecount); a call takes a waiter from a pool of them, sends a       *)
(* message that names it and sleeps on the waiter's semaphore until the    *)
(* message thread has copied the reply and posts it.                       *)
(*                                                                         *)
(* What runs under client.lock is one step.  Calls with a dummy bulk       *)
(* transfer and transfers themselves are left out.                         *)
(***************************************************************************)
EXTENDS Integers, FiniteSets

CONSTANTS Threads,    \* each has one component at a time
          MAX_WAITERS, \* waiters in the pool
          Nobody,
          Failures,   \* whether calls of vchiq, and set-ups after a call, may fail
          MaxMisses   \* bound: failed uses between two openings of the service

ASSUME ClientAssumption ==
    /\ MAX_WAITERS \in Nat \ {0} /\ Nobody \notin Threads /\ IsFiniteSet(Threads)
    /\ Failures \in BOOLEAN /\ MaxMisses \in Nat

VARIABLES
    refcount, usecount,  \* client.refcount, client.usecount
    inited,              \* client.inited; the service is open and the pool exists
    used,                \* the service is in use as vchiq sees it: VideoCore stays awake
    misses,              \* history: failed uses since the service was opened
    stuck,               \* history: failed releases since then
    sem,                 \* the semaphore of the pool
    inuse, dest, wsem,   \* of each waiter: inuse, whose reply buffer it points to, its semaphore
    wire,                \* requests VideoCore has not answered yet
    pc,                  \* where a thread is
    cmd, waiter,         \* its message and its waiter, 0 outside a call
    got                  \* its reply buffer: whose reply it is and whether it reports success

countVars  == <<refcount, usecount, inited, used, misses, stuck>>
poolVars   == <<sem, inuse, dest, wsem>>
threadVars == <<pc, cmd, waiter, got>>
vars       == <<countVars, poolVars, wire, threadVars>>

Waiters == 1..MAX_WAITERS
NoReply == [from |-> Nobody, ok |-> FALSE]
Calling == {"take", "scan", "use", "queue", "wait", "unuse", "clear", "post"}

Init ==
    /\ refcount = 0 /\ usecount = 0 /\ inited = FALSE /\ used = FALSE /\ misses = 0 /\ stuck = 0
    /\ sem = 0
    /\ inuse = [w \in Waiters |-> FALSE] /\ dest = [w \in Waiters |-> Nobody]
    /\ wsem = [w \in Waiters |-> 0]
    /\ wire = {}
    /\ pc = [t \in Threads |-> "idle"] /\ cmd = [t \in Threads |-> "create"]
    /\ waiter = [t \in Threads |-> 0] /\ got = [t \in Threads |-> NoReply]

Goes(t, from, to) == pc[t] = from /\ pc' = [pc EXCEPT ![t] = to]

\* mmal_vc_sendwait_message is called with a message
Sends(t, what) == cmd' = [cmd EXCEPT ![t] = what]

\* faulty variant: tests the count after the increment
UseTwice == /\ usecount' = usecount + 1
            /\ used' = (used \/ usecount = 1)
            /\ UNCHANGED misses

\* mmal_vc_use_internal; the callers do not look at its result
Use == \/ /\ usecount' = usecount + 1
          /\ used' = (used \/ usecount = 0)
          /\ UNCHANGED misses
       \/ /\ Failures /\ usecount = 0 /\ misses < MaxMisses
          /\ misses' = misses + 1
          /\ UNCHANGED <<usecount, used>>

\* mmal_vc_release_internal
Release == \/ /\ usecount' = usecount - 1
              /\ used' = (used /\ usecount # 1)
              /\ UNCHANGED stuck
           \/ /\ Failures /\ usecount = 1
              /\ stuck' = stuck + 1
              /\ UNCHANGED <<usecount, used>>

-----------------------------------------------------------------------------
(* Faulty variants, not part of Next.                                      *)

\* release_waiter forgets inuse
ClearForgotten(t) == /\ Goes(t, "clear", "post")
                     /\ UNCHANGED <<countVars, poolVars, wire, cmd, waiter, got>>

\* a timeout that does not cancel the waiter
WokenOrTimedOut(t) == /\ Goes(t, "wait", "unuse")
                      /\ wsem' = [wsem EXCEPT ![waiter[t]] = IF @ > 0 THEN @ - 1 ELSE @]
                      /\ UNCHANGED <<countVars, sem, inuse, dest, wire, cmd, waiter, got>>

\* takes the first waiter, in use or not
ScanFirst(t) == /\ Goes(t, "scan", "use")
                /\ inuse' = [inuse EXCEPT ![1] = TRUE]
                /\ dest' = [dest EXCEPT ![1] = t]
                /\ waiter' = [waiter EXCEPT ![t] = 1]
                /\ UNCHANGED <<countVars, sem, wsem, wire, cmd, got>>

-----------------------------------------------------------------------------
(* A component's life in its thread                                        *)

\* mmal_vc_init: the first one opens the service, which counts as a use, and
\* makes the pool; if a part of that fails everything is undone under the lock
InitFirst(t) == /\ Goes(t, "idle", "opened")
                /\ refcount = 0
                /\ refcount' = 1 /\ usecount' = 1
                /\ inited' = TRUE /\ used' = TRUE
                /\ misses' = 0 /\ stuck' = 0
                /\ sem' = MAX_WAITERS
                /\ inuse' = [w \in Waiters |-> FALSE] /\ wsem' = [w \in Waiters |-> 0]
                /\ UNCHANGED <<dest, wire, cmd, waiter, got>>

InitMore(t) == /\ Goes(t, "idle", "claim")
               /\ refcount > 0
               /\ refcount' = refcount + 1
               /\ UNCHANGED <<usecount, inited, used, misses, stuck, poolVars, wire, cmd, waiter, got>>

\* not using VC immediately: outside the lock
InitReleases(t) == /\ Goes(t, "opened", "claim")
                   /\ Release
                   /\ UNCHANGED <<refcount, inited, misses, poolVars, wire, cmd, waiter, got>>

\* mmal_vc_shm_init fails
ShmFails(t) == /\ Failures
               /\ Goes(t, "claim", "deinit")
               /\ UNCHANGED <<countVars, poolVars, wire, cmd, waiter, got>>

\* claim VC for the entire duration of the component, then ask it for one
Claim(t) == /\ Goes(t, "claim", "take")
            /\ Use
            /\ Sends(t, "create")
            /\ UNCHANGED <<refcount, inited, stuck, poolVars, wire, waiter, got>>

Call(t) == /\ Goes(t, "have", "take")
           /\ Sends(t, "call")
           /\ UNCHANGED <<countVars, poolVars, wire, waiter, got>>

Destroy(t) == /\ Goes(t, "have", "take")
              /\ Sends(t, "destroy")
              /\ UNCHANGED <<countVars, poolVars, wire, waiter, got>>

Unclaim(t) == /\ Goes(t, "unclaim", "deinit")
              /\ IF inited THEN Release ELSE UNCHANGED <<usecount, used, stuck>>
              /\ UNCHANGED <<refcount, inited, misses, poolVars, wire, cmd, waiter, got>>

\* mmal_vc_deinit: the last one closes the service and destroys the pool
Deinit(t) == /\ Goes(t, "deinit", "idle")
             /\ refcount' = refcount - 1
             /\ inited' = (refcount # 1) /\ used' = (used /\ refcount # 1)
             /\ sem' = IF refcount = 1 THEN 0 ELSE sem
             /\ UNCHANGED <<usecount, misses, stuck, inuse, dest, wsem, wire, cmd, waiter, got>>

Component(t) == \/ InitFirst(t) \/ InitMore(t) \/ InitReleases(t) \/ ShmFails(t) \/ Claim(t)
                \/ Call(t) \/ Destroy(t) \/ Unclaim(t) \/ Deinit(t)
-----------------------------------------------------------------------------
(* mmal_vc_sendwait_message                                                *)

\* get_waiter waits for the pool's semaphore
Take(t) == /\ Goes(t, "take", "scan")
           /\ sem > 0
           /\ sem' = sem - 1
           /\ UNCHANGED <<countVars, inuse, dest, wsem, wire, cmd, waiter, got>>

\* then looks for the first free waiter under the lock
Scan(t) == /\ Goes(t, "scan", "use")
           /\ \E w \in Waiters :
                 /\ ~inuse[w] /\ \A v \in 1..(w - 1) : inuse[v]
                 /\ inuse' = [inuse EXCEPT ![w] = TRUE]
                 /\ dest' = [dest EXCEPT ![w] = t]
                 /\ waiter' = [waiter EXCEPT ![t] = w]
           /\ UNCHANGED <<countVars, sem, wsem, wire, cmd, got>>

CallUses(t) == /\ Goes(t, "use", "queue")
               /\ Use
               /\ UNCHANGED <<refcount, inited, stuck, poolVars, wire, cmd, waiter, got>>

Queue(t) == /\ Goes(t, "queue", "wait")
            /\ wire' = wire \union {[to |-> waiter[t], from |-> t]}
            /\ UNCHANGED <<countVars, poolVars, cmd, waiter, got>>

QueueFails(t) == /\ Failures
                 /\ Goes(t, "queue", "unuse")
                 /\ UNCHANGED <<countVars, poolVars, wire, cmd, waiter, got>>

Woken(t) == /\ Goes(t, "wait", "unuse")
            /\ wsem[waiter[t]] > 0
            /\ wsem' = [wsem EXCEPT ![waiter[t]] = @ - 1]
            /\ UNCHANGED <<countVars, sem, inuse, dest, wire, cmd, waiter, got>>

CallReleases(t) == /\ Goes(t, "unuse", "clear")
                   /\ Release
                   /\ UNCHANGED <<refcount, inited, misses, poolVars, wire, cmd, waiter, got>>

\* release_waiter clears inuse, without the lock, and posts
Clear(t) == /\ Goes(t, "clear", "post")
            /\ inuse' = [inuse EXCEPT ![waiter[t]] = FALSE]
            /\ UNCHANGED <<countVars, sem, dest, wsem, wire, cmd, waiter, got>>

\* the call returns; a component that VideoCore created but whose ports cannot be
\* set up is destroyed again (the label fail of mmal_vc_component_create)
Returns(t) ==
    /\ pc[t] = "post"
    /\ sem' = sem + 1
    /\ \/ /\ cmd[t] = "call" \/ (cmd[t] = "create" /\ got[t].ok)
          /\ pc' = [pc EXCEPT ![t] = "have"]
          /\ cmd' = [cmd EXCEPT ![t] = "create"]
       \/ /\ cmd[t] = "destroy" \/ (cmd[t] = "create" /\ ~got[t].ok)
          /\ pc' = [pc EXCEPT ![t] = "unclaim"]
          /\ cmd' = [cmd EXCEPT ![t] = "create"]
       \/ /\ Failures /\ cmd[t] = "create" /\ got[t].ok
          /\ pc' = [pc EXCEPT ![t] = "broken"]
          /\ UNCHANGED cmd
    /\ waiter' = [waiter EXCEPT ![t] = 0]
    /\ got' = [got EXCEPT ![t] = NoReply]
    /\ UNCHANGED <<countVars, inuse, dest, wsem, wire>>

DestroyBroken(t) == /\ Goes(t, "broken", "take")
                    /\ Sends(t, "destroy")
                    /\ UNCHANGED <<countVars, poolVars, wire, waiter, got>>

SendWait(t) == \/ Take(t) \/ Scan(t) \/ CallUses(t) \/ Queue(t) \/ QueueFails(t) \/ Woken(t)
               \/ CallReleases(t) \/ Clear(t) \/ Returns(t) \/ DestroyBroken(t)

\* VideoCore's answer in the message thread, mmal_vc_vchiq_callback: copied to
\* where the waiter points, then the waiter's semaphore is posted
Reply(m) == /\ m \in wire
            /\ wire' = wire \ {m}
            /\ \E ok \in {TRUE, ~Failures} :
                  got' = [got EXCEPT ![dest[m.to]] = [from |-> m.from, ok |-> ok]]
            /\ wsem' = [wsem EXCEPT ![m.to] = @ + 1]
            /\ UNCHANGED <<countVars, sem, inuse, dest, pc, cmd, waiter>>

Next == \/ \E t \in Threads : Component(t) \/ SendWait(t)
        \/ \E m \in wire : Reply(m)

Spec == Init /\ [][Next]_vars

-----------------------------------------------------------------------------
(* Properties                                                              *)

TypeOK ==
    /\ refcount \in Nat /\ usecount \in Int /\ misses \in Nat /\ stuck \in Nat
    /\ inited \in BOOLEAN /\ used \in BOOLEAN /\ sem \in Nat
    /\ inuse \in [Waiters -> BOOLEAN] /\ wsem \in [Waiters -> Nat]
    /\ dest \in [Waiters -> Threads \union {Nobody}]
    /\ wire \subseteq [to : Waiters, from : Threads]
    /\ pc \in [Threads -> Calling \union {"idle", "opened", "claim", "have", "broken", "unclaim", "deinit"}]
    /\ cmd \in [Threads -> {"create", "call", "destroy"}]
    /\ waiter \in [Threads -> Waiters \union {0}]
    /\ got \in [Threads -> [from : Threads \union {Nobody}, ok : BOOLEAN]]

(* get_waiter: "If this fails, the semaphore is not working": a thread     *)
(* that got past the pool's semaphore finds a free waiter, although        *)
(* release_waiter frees one without the lock and another component may     *)
(* have opened and closed the service in between.                          *)
WaiterAlwaysThere == \A t \in Threads : pc[t] = "scan" => \E w \in Waiters : ~inuse[w]

(* mmal_vc_vchiq_callback asserts waiter->inuse: a reply finds the waiter  *)
(* taken, by the very thread that sent the request, still waiting.  And a  *)
(* thread that waits is going to be woken, once: its request is under way  *)
(* or its semaphore has been posted for it, and no other semaphore is.     *)
EachReplyWakesItsCaller ==
    /\ \A m \in wire : /\ pc[m.from] = "wait" /\ waiter[m.from] = m.to
                      /\ inuse[m.to] /\ dest[m.to] = m.from
    /\ \A t \in Threads : pc[t] = "wait" =>
           \/ [to |-> waiter[t], from |-> t] \in wire /\ wsem[waiter[t]] = 0
           \/ [to |-> waiter[t], from |-> t] \notin wire /\ wsem[waiter[t]] = 1
    /\ \A w \in Waiters : wsem[w] > 0 => \E t \in Threads : pc[t] = "wait" /\ waiter[t] = w

\* threads that need VideoCore: for their component, for a call, for the opening
Claims == {t \in Threads : pc[t] \notin {"idle", "opened", "claim", "deinit"}}
InCall == {t \in Threads : pc[t] \in {"queue", "wait", "unuse"}}
Opened == {t \in Threads : pc[t] = "opened"}

(* usecount is exact up to the failures nobody looks at: each failed use   *)
(* leaves it one too low, each failed release one too high, until the      *)
(* service is opened anew; and unless there was a failed use VideoCore is  *)
(* awake for the whole life of every component, through every call.        *)
AwakeWhileNeeded ==
    /\ inited => usecount + misses = stuck + Cardinality(Claims) + Cardinality(InCall) + Cardinality(Opened)
    /\ misses = 0 => \A t \in Claims \union Opened : used

\* refinement: each call as the caller sees it
callState == [t \in Threads |->
    IF pc[t] \notin Calling THEN "idle"
    ELSE IF got[t].from = t THEN "answered"
    ELSE IF got[t].from # Nobody THEN "another's answer"
    ELSE IF pc[t] \in {"unuse", "clear", "post"} THEN "refused"
    ELSE "called"]

Abstract == INSTANCE RemoteCalls WITH state <- callState

(* Every call gets its own answer, once, or is refused.                    *)
ImplementsRemoteCalls == Abstract!Spec
=============================================================================
