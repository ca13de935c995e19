--------------------------- MODULE MmalPort_proofs ---------------------------
(***************************************************************************)
(* What an MMAL port promises, for any set of threads, any finite pool of  *)
(* buffers and any number of events, whatever fails: the counter of        *)
(* buffers in transit is exact, the callback is never called once it is    *)
(* reset, the pool of contexts is idle when a successful disable deletes   *)
(* it, and the port implements PortContract.                               *)
(***************************************************************************)
EXTENDS MmalPort, FiniteSetTheorems, SequenceTheorems, TLAPS

-----------------------------------------------------------------------------
(* The inductive invariant                                                 *)

\* where the action thread and the threads of the program can be
ActionPlaces == {"waitEvent", "lockAction", "loop"}
AllPlaces == {"idle", "sending", "flushLock", "flushWait", "returning", "enableWait",
              "clear", "disableLock", "disableWait", "drain", "drainFailed", "reenable",
              "returnQueue", "transitPost"} \union ActionPlaces
PlacesOK == /\ pc[Action] \in ActionPlaces
            /\ \A t \in Threads : pc[t] \notin ActionPlaces

\* where an agent holds which lock
HoldsPort   == {"enableWait", "clear"} \union Disabling
HoldsSend   == {"sending", "flushWait"}
HoldsAction == {"flushLock", "flushWait", "disableWait", "drain", "drainFailed", "loop"}

LockInv == /\ \A t \in Threads : portLock = t <=> pc[t] \in HoldsPort
           /\ \A t \in Threads : sendLock = t <=> pc[t] \in HoldsSend
           /\ \A a \in Agents : actionLock = a <=> pc[a] \in HoldsAction

\* what a place says of the port: is_enabled and the callback
PhaseInv == /\ \A t \in Threads : pc[t] \in Disabling \union {"enableWait"} => ~isEnabled
            /\ \A t \in Threads : pc[t] \in HoldsSend \union {"clear"} => isEnabled
            /\ callback \/ (~isEnabled /\ portLock = None)

(* One request at a time, one answer to it: it is at VideoCore, on its way *)
(* or at the caller, who waits for it.                                     *)
Answers == {"success", "failure"}
Waiting == {"flushWait", "enableWait", "disableWait"}

RequestInv ==
    /\ \A i, j \in 1..Len(toHost) : toHost[i] \in Answers /\ toHost[j] \in Answers => i = j
    /\ \A i \in 1..Len(toHost) : toHost[i] \in Answers => request # "none"
    /\ reply # "none" => request = "none"
    /\ (\A t \in Threads : pc[t] \notin Waiting) => request = "none" /\ reply = "none"
    /\ \A t \in Threads : /\ pc[t] = "flushWait" => request \in {"none", "flush"}
                          /\ pc[t] = "enableWait" => request \in {"none", "enable"}
                          /\ pc[t] = "disableWait" => request \in {"none", "disable"}

\* what an agent may have in its hand, and where
ItemInv ==
    \A a \in Agents :
        /\ item[a] # None => pc[a] \in {"sending", "loop", "drain", "drainFailed", "returning", "returnQueue"}
        /\ pc[a] = "sending" => item[a] \in Buffers
        /\ item[a] = Event => pc[a] \in {"loop", "drain", "drainFailed"}

(* A buffer is in one place only, and once: there is a map from buffers to *)
(* places that every place agrees with.  What a callback has in its hand   *)
(* is the program's already.                                               *)
Kinds == {"client", "sending", "queue", "taken", "vc", "host", "callbacks"}

OnceInv ==
    /\ \A i, j \in 1..Len(queue) : queue[i] = queue[j] => i = j
    /\ \A t, u \in Threads : \A i \in 1..Len(taken[t]), j \in 1..Len(taken[u]) :
          taken[t][i] = taken[u][j] => t = u /\ i = j
    /\ \A i, j \in 1..Len(toHost) : toHost[i] = toHost[j] /\ toHost[i] \in Buffers => i = j
    /\ \A i, j \in 1..Len(callbackQueue) :
          callbackQueue[i] = callbackQueue[j] /\ callbackQueue[i] \in Buffers => i = j

Located(w) ==
    /\ \A b \in withClient : w[b] = "client"
    /\ \A t \in Threads : pc[t] = "sending" => w[item[t]] = "sending"
    /\ \A i \in 1..Len(queue) : w[queue[i]] = "queue"
    /\ \A t \in Threads : \A i \in 1..Len(taken[t]) : w[taken[t][i]] = "taken"
    /\ \A b \in atVC : w[b] = "vc"
    /\ \A i \in 1..Len(toHost) : toHost[i] \in Buffers => w[toHost[i]] = "host"
    /\ \A i \in 1..Len(callbackQueue) : callbackQueue[i] \in Buffers => w[callbackQueue[i]] = "callbacks"

PlaceInv == OnceInv /\ \E w \in [Buffers -> Kinds] : Located(w)

\* nothing is in transit before the port is enabled and at the end of a disable
RestInv == /\ portLock = None /\ ~isEnabled => transit = 0
           /\ \A t \in Threads : pc[t] \in {"enableWait", "transitPost"} => transit = 0

CountInv == IsFiniteSet(Calling) /\ TransitExact

(* Events come only from a port that VideoCore has enabled.  Its answer to *)
(* a disable is the last it sends; when the caller has it, and later when  *)
(* the queue is drained, nothing is left.                                  *)
Silent == /\ ~vcOn
          /\ \A i \in 1..Len(toHost) : toHost[i] # Event
          /\ \A i \in 1..Len(callbackQueue) : callbackQueue[i] # Event
          /\ \A a \in Agents : item[a] # Event

\* VideoCore has granted the enable, and its answer has not been taken
Granted == vcOn /\ (reply = "success" \/ \E i \in 1..Len(toHost) : toHost[i] = "success")

EventInv ==
    /\ portLock = None /\ ~isEnabled => Silent
    /\ \A t \in Threads :
        /\ pc[t] \in {"returnQueue", "transitPost"} => Silent
        /\ pc[t] = "enableWait" => Granted \/ Silent
        /\ pc[t] = "disableWait" /\ (\E i \in 1..Len(toHost) : toHost[i] = "success") =>
              ~vcOn /\ atVC = {} /\ toHost[Len(toHost)] = "success"
        /\ pc[t] = "disableWait" /\ reply = "success" => ~vcOn /\ atVC = {} /\ toHost = <<>>
        /\ pc[t] = "drain" => ~vcOn /\ atVC = {} /\ toHost = <<>>

\* without failures no context outlives its pool
SoundInv == ~Failures => /\ reply # "failure" /\ stale = {} /\ ~aborted
                         /\ \A i \in 1..Len(toHost) : toHost[i] # "failure"

PortInv == /\ TypeOK /\ PlacesOK /\ LockInv /\ PhaseInv /\ RequestInv /\ ItemInv /\ PlaceInv
           /\ CountInv /\ RestInv /\ EventInv
-----------------------------------------------------------------------------
(* Type correctness.  The counter's type follows from TransitExact.        *)

\* TypeOK without the counter: truth values, places and locks, and data
BoolOK == /\ isEnabled \in BOOLEAN /\ callback \in BOOLEAN /\ isPaused \in BOOLEAN
          /\ actionEvent \in BOOLEAN /\ triggering \in BOOLEAN
          /\ vcOn \in BOOLEAN /\ aborted \in BOOLEAN
ControlOK == /\ pc \in [Agents -> AllPlaces]
             /\ portLock \in Threads \union {None} /\ sendLock \in Threads \union {None}
             /\ actionLock \in Agents \union {None}
             /\ request \in {"none", "enable", "disable", "flush"} /\ reply \in {"none", "success", "failure"}
             /\ pool \in {"none", "live", "deleted"} /\ events \in 0..MaxEvents
DataOK == /\ item \in [Agents -> Items \union {None}]
          /\ taken \in [Threads -> Seq(Buffers)] /\ queue \in Seq(Buffers)
          /\ callbackQueue \in Seq(Items) /\ toHost \in Seq(Items \union {"success", "failure"})
          /\ stale \subseteq Buffers /\ atVC \subseteq Buffers /\ withClient \subseteq Buffers

\* Every step keeps the truth values.
LEMMA BoolStep == BoolOK /\ [Next]_vars => BoolOK'
<1> SUFFICES ASSUME BoolOK, [Next]_vars PROVE BoolOK'
    OBVIOUS
<1> USE PortAssumption DEF BoolOK, Goes, coreVars, transitVars, lockVars, hostVars, vcVars
<1>1. ASSUME NEW t \in Threads, NEW b \in Buffers, BeginSend(t, b) PROVE BoolOK'
      BY <1>1 DEF BeginSend, Increment
<1>2. ASSUME NEW t \in Threads, SendPaused(t) \/ SendToVC(t) \/ SendFails(t) PROVE BoolOK'
      BY <1>2 DEF SendPaused, EndSend, SendToVC, SendFails, Decrement
<1>3. ASSUME NEW t \in Threads, Pause(t) \/ Resume(t) PROVE BoolOK'
      BY <1>3 DEF Pause, Resume
<1>4. ASSUME NEW t \in Threads, FlushLock(t) \/ FlushDisabled(t) \/ FlushAsk(t) \/ FlushAnswered(t)
             \/ FlushReturns(t)
      PROVE  BoolOK'
      BY <1>4 DEF FlushLock, FlushDisabled, FlushAsk, Ask, FlushAnswered, Answered, FlushReturns
<1>5. ASSUME NEW t \in Threads, EnableAsk(t) \/ Enabled(t) \/ EnableFails(t) PROVE BoolOK'
      BY <1>5 DEF EnableAsk, Ask, Enabled, Answered, EnableFails
<1>6. ASSUME NEW t \in Threads, DisableLock(t) \/ Clear(t) \/ DisableAsk(t) \/ DisableAnswered(t)
             \/ Drained(t) \/ Reenable(t) \/ TransitWait(t) \/ Disabled(t)
      PROVE  BoolOK'
      BY <1>6, ZenonT(60) DEF DisableLock, Clear, DisableAsk, Ask, DisableAnswered, Answered,
         Drained, Reenable, TransitWait, Disabled
<1>7. ASSUME NEW a \in Agents, CallQueued(a) \/ CallReturns(a) PROVE BoolOK'
      BY <1>7 DEF CallQueued, Calls, CallReturns, Decrement
<1>8. ASSUME NEW t \in Threads, CallTaken(t) PROVE BoolOK'
      BY <1>8 DEF CallTaken, Calls
<1>9. CASE ActionWakes \/ ActionLocks \/ ActionDone
      BY <1>9 DEF ActionWakes, ActionLocks, ActionDone
<1>10. CASE HostBuffer \/ Trigger \/ HostReply
      BY <1>10 DEF HostBuffer, Trigger, HostReply
<1>11. ASSUME NEW b \in Buffers, VCReturn(b) PROVE BoolOK'
      BY <1>11 DEF VCReturn, VCSends
<1>12. CASE VCEvent \/ VCAnswer \/ VCRefuses
      BY <1>12 DEF VCEvent, VCSends, VCAnswer, VCRefuses
<1>13. CASE UNCHANGED vars
      BY <1>13 DEF vars
<1> QED
    BY <1>1, <1>2, <1>3, <1>4, <1>5, <1>6, <1>7, <1>8, <1>9, <1>10, <1>11, <1>12, <1>13
       DEF Next, Begins, Continues, ActionThread, Vchiq, VideoCore, Agents

\* Every step keeps the places, the locks and the requests.
LEMMA ControlStep == ControlOK /\ [Next]_vars => ControlOK'
<1> SUFFICES ASSUME ControlOK, [Next]_vars PROVE ControlOK'
    OBVIOUS
<1> USE PortAssumption DEF ControlOK, Goes, Agents, AllPlaces, ActionPlaces, coreVars, transitVars,
        lockVars, hostVars, vcVars
<1>1. ASSUME NEW t \in Threads, NEW b \in Buffers, BeginSend(t, b) PROVE ControlOK'
      BY <1>1 DEF BeginSend, Increment
<1>2. ASSUME NEW t \in Threads, SendPaused(t) \/ SendToVC(t) \/ SendFails(t) PROVE ControlOK'
      BY <1>2 DEF SendPaused, EndSend, SendToVC, SendFails, Decrement
<1>3. ASSUME NEW t \in Threads, Pause(t) \/ Resume(t) PROVE ControlOK'
      BY <1>3 DEF Pause, Resume
<1>4. ASSUME NEW t \in Threads, FlushLock(t) \/ FlushDisabled(t) \/ FlushAsk(t) \/ FlushAnswered(t)
             \/ FlushReturns(t)
      PROVE  ControlOK'
      BY <1>4 DEF FlushLock, FlushDisabled, FlushAsk, Ask, FlushAnswered, Answered, FlushReturns
<1>5. ASSUME NEW t \in Threads, EnableAsk(t) \/ Enabled(t) \/ EnableFails(t) PROVE ControlOK'
      BY <1>5 DEF EnableAsk, Ask, Enabled, Answered, EnableFails
<1>6. ASSUME NEW t \in Threads, DisableLock(t) \/ Clear(t) \/ DisableAsk(t) \/ DisableAnswered(t)
             \/ Drained(t) \/ Reenable(t) \/ TransitWait(t) \/ Disabled(t)
      PROVE  ControlOK'
      BY <1>6 DEF DisableLock, Clear, DisableAsk, Ask, DisableAnswered, Answered, Drained,
         Reenable, TransitWait, Disabled
<1>7. ASSUME NEW a \in Agents, CallQueued(a) \/ CallReturns(a) PROVE ControlOK'
      BY <1>7 DEF CallQueued, Calls, CallReturns, Decrement
<1>8. ASSUME NEW t \in Threads, CallTaken(t) PROVE ControlOK'
      BY <1>8 DEF CallTaken, Calls
<1>9. CASE ActionWakes \/ ActionLocks \/ ActionDone
      BY <1>9 DEF ActionWakes, ActionLocks, ActionDone
<1>10. CASE HostBuffer \/ Trigger \/ HostReply
      BY <1>10 DEF HostBuffer, Trigger, HostReply
<1>11. ASSUME NEW b \in Buffers, VCReturn(b) PROVE ControlOK'
      BY <1>11 DEF VCReturn, VCSends
<1>12. CASE VCEvent \/ VCAnswer \/ VCRefuses
      BY <1>12 DEF VCEvent, VCSends, VCAnswer, VCRefuses
<1>13. CASE UNCHANGED vars
      BY <1>13 DEF vars
<1> QED
    BY <1>1, <1>2, <1>3, <1>4, <1>5, <1>6, <1>7, <1>8, <1>9, <1>10, <1>11, <1>12, <1>13
       DEF Next, Begins, Continues, ActionThread, Vchiq, VideoCore, Agents

\* What a part of a sequence holds is from the sequence.
LEMMA Cut ==
  ASSUME NEW S, NEW s \in Seq(S), NEW n \in 0..Len(s)
  PROVE  /\ SubSeq(s, 1, n) \in Seq(S) /\ SubSeq(s, n + 1, Len(s)) \in Seq(S)
         /\ Len(SubSeq(s, 1, n)) = n /\ \A i \in 1..n : SubSeq(s, 1, n)[i] = s[i]
         /\ Len(SubSeq(s, n + 1, Len(s))) = Len(s) - n
         /\ \A i \in 1..Len(s) - n : SubSeq(s, n + 1, Len(s))[i] = s[n + i]
<1>1. Len(s) \in Nat /\ n \in Int /\ n + 1 \in Int /\ Len(s) \in Int
      OBVIOUS
<1>2. (\A i \in 1..n : s[i] \in S) /\ (\A i \in n + 1..Len(s) : s[i] \in S)
      BY <1>1
<1>3. /\ SubSeq(s, 1, n) \in Seq(S) /\ Len(SubSeq(s, 1, n)) = IF 1 <= n THEN n - 1 + 1 ELSE 0
      /\ \A i \in 1..n - 1 + 1 : SubSeq(s, 1, n)[i] = s[1 + i - 1]
      BY <1>1, <1>2, SubSeqProperties
<1>4. /\ SubSeq(s, n + 1, Len(s)) \in Seq(S)
      /\ Len(SubSeq(s, n + 1, Len(s))) = IF n + 1 <= Len(s) THEN Len(s) - (n + 1) + 1 ELSE 0
      /\ \A i \in 1..Len(s) - (n + 1) + 1 : SubSeq(s, n + 1, Len(s))[i] = s[n + 1 + i - 1]
      BY <1>1, <1>2, SubSeqProperties
<1> QED
    BY <1>1, <1>3, <1>4

\* Every step keeps the buffers and the queues.
LEMMA DataStep == DataOK /\ ItemInv /\ [Next]_vars => DataOK'
<1> SUFFICES ASSUME DataOK, ItemInv, [Next]_vars PROVE DataOK'
    OBVIOUS
<1> USE PortAssumption DEF DataOK, Goes, Agents, Items, Answers, coreVars, transitVars, lockVars,
        hostVars, vcVars
<1>1. ASSUME NEW t \in Threads, NEW b \in Buffers, BeginSend(t, b) PROVE DataOK'
      BY <1>1 DEF BeginSend, Increment
<1>2. ASSUME NEW t \in Threads, SendPaused(t) PROVE DataOK'
  <2>1. item[t] \in Buffers
        BY <1>2 DEF SendPaused, EndSend, ItemInv
  <2> QED
      BY <1>2, <2>1 DEF SendPaused, EndSend
<1>3. ASSUME NEW t \in Threads, SendToVC(t) PROVE DataOK'
  <2>1. item[t] \in Buffers
        BY <1>3 DEF SendToVC, EndSend, ItemInv
  <2> QED
      BY <1>3, <2>1 DEF SendToVC, EndSend
<1>4. ASSUME NEW t \in Threads, SendFails(t) PROVE DataOK'
  <2>1. item[t] \in Buffers
        BY <1>4 DEF SendFails, EndSend, ItemInv
  <2> QED
      BY <1>4, <2>1 DEF SendFails, EndSend
<1>5. ASSUME NEW t \in Threads, Pause(t) PROVE DataOK'
      BY <1>5 DEF Pause
<1>6. ASSUME NEW t \in Threads, Resume(t) PROVE DataOK'
  <2>1. PICK n \in 0..Len(queue) : /\ atVC' = atVC \union ToSet(SubSeq(queue, 1, n))
                                     /\ queue' = SubSeq(queue, n + 1, Len(queue))
        BY <1>6 DEF Resume
  <2>2. /\ queue' \in Seq(Buffers) /\ SubSeq(queue, 1, n) \in Seq(Buffers)
        BY <2>1, Cut
  <2>3. ToSet(SubSeq(queue, 1, n)) \subseteq Buffers
        BY <2>2 DEF ToSet
  <2>4. UNCHANGED <<item, taken, callbackQueue, toHost, stale, withClient>>
        BY <1>6 DEF Resume
  <2> QED
      BY <2>1, <2>2, <2>3, <2>4
<1>7. ASSUME NEW t \in Threads, FlushLock(t) \/ FlushDisabled(t) \/ FlushAsk(t) \/ FlushReturns(t)
      PROVE  DataOK'
      BY <1>7 DEF FlushLock, FlushDisabled, FlushAsk, Ask, FlushReturns
<1>8. ASSUME NEW t \in Threads, FlushAnswered(t) PROVE DataOK'
  <2>1. queue' = queue \/ queue' = <<>>
        BY <1>8 DEF FlushAnswered
  <2>2. taken' = taken \/ taken' = [taken EXCEPT ![t] = queue]
        BY <1>8 DEF FlushAnswered
  <2>3. [taken EXCEPT ![t] = queue] \in [Threads -> Seq(Buffers)]
        BY ZenonT(20)
  <2>4. queue' \in Seq(Buffers)
        BY <2>1, EmptySeq, ZenonT(20)
  <2>5. taken' \in [Threads -> Seq(Buffers)]
        BY <2>2, <2>3, ZenonT(20)
  <2>6. UNCHANGED <<item, callbackQueue, toHost, stale, atVC, withClient>>
        BY <1>8 DEF FlushAnswered, Answered
  <2> QED
      BY <2>4, <2>6, <2>5
<1>9. ASSUME NEW t \in Threads, EnableAsk(t) \/ Enabled(t) \/ EnableFails(t) PROVE DataOK'
      BY <1>9 DEF EnableAsk, Ask, Enabled, Answered, EnableFails
<1>10. ASSUME NEW t \in Threads, DisableLock(t) \/ Clear(t) \/ DisableAsk(t) \/ Reenable(t) \/
              TransitWait(t) \/ Disabled(t)
       PROVE  DataOK'
      BY <1>10 DEF DisableLock, Clear, DisableAsk, Ask, Reenable, TransitWait, Disabled
<1>11. ASSUME NEW t \in Threads, DisableAnswered(t) PROVE DataOK'
  <2>1. stale' \subseteq Buffers
        BY <1>11 DEF DisableAnswered, InFlight
  <2>2. UNCHANGED <<item, taken, queue, callbackQueue, toHost, atVC, withClient>>
        BY <1>11 DEF DisableAnswered, Answered
  <2> QED
      BY <2>1, <2>2
<1>12. ASSUME NEW t \in Threads, Drained(t) PROVE DataOK'
  <2>1. queue' = queue \/ queue' = <<>>
        BY <1>12 DEF Drained
  <2>2. taken' = taken \/ taken' = [taken EXCEPT ![t] = queue]
        BY <1>12 DEF Drained
  <2>3. [taken EXCEPT ![t] = queue] \in [Threads -> Seq(Buffers)]
        BY ZenonT(20)
  <2>4. queue' \in Seq(Buffers)
        BY <2>1, EmptySeq, ZenonT(20)
  <2>5. taken' \in [Threads -> Seq(Buffers)]
        BY <2>2, <2>3, ZenonT(20)
  <2>6. UNCHANGED <<item, callbackQueue, toHost, stale, atVC, withClient>>
        BY <1>12 DEF Drained
  <2> QED
      BY <2>4, <2>6, <2>5
<1>13. ASSUME NEW a \in Agents, CallQueued(a) PROVE DataOK'
      BY <1>13 DEF CallQueued, Calls
<1>14. ASSUME NEW t \in Threads, CallTaken(t) PROVE DataOK'
      BY <1>14 DEF CallTaken, Calls
<1>15. ASSUME NEW a \in Agents, CallReturns(a) PROVE DataOK'
      BY <1>15 DEF CallReturns, Decrement
<1>16. CASE ActionWakes \/ ActionLocks \/ ActionDone
      BY <1>16 DEF ActionWakes, ActionLocks, ActionDone
<1>17. CASE HostBuffer
      BY <1>17 DEF HostBuffer
<1>18. CASE Trigger
      BY <1>18 DEF Trigger
<1>19. CASE HostReply
      BY <1>19 DEF HostReply
<1>20. ASSUME NEW b \in Buffers, VCReturn(b) PROVE DataOK'
      BY <1>20 DEF VCReturn, VCSends
<1>21. CASE VCEvent
      BY <1>21 DEF VCEvent, VCSends
<1>22. CASE VCAnswer
      BY <1>22 DEF VCAnswer, VCSends
<1>23. CASE VCRefuses
      BY <1>23 DEF VCRefuses, VCSends
<1>24. CASE UNCHANGED vars
      BY <1>24 DEF vars
<1> QED
    BY <1>1, <1>2, <1>3, <1>4, <1>5, <1>6, <1>7, <1>8, <1>9, <1>10, <1>11, <1>12, <1>13, <1>14,
       <1>15, <1>16, <1>17, <1>18, <1>19, <1>20, <1>21, <1>22, <1>23, <1>24
       DEF Next, Begins, Continues, ActionThread, Vchiq, VideoCore, Agents

-----------------------------------------------------------------------------
(* Locks and phases                                                        *)

\* Nobody leaves his part of the program.
LEMMA PlacesStep == ControlOK /\ PlacesOK /\ [Next]_vars => PlacesOK'
<1> SUFFICES ASSUME ControlOK, PlacesOK, [Next]_vars PROVE PlacesOK'
    OBVIOUS
<1> USE PortAssumption DEF ControlOK, PlacesOK, ActionPlaces, Agents, Goes, coreVars, transitVars,
        lockVars, hostVars, vcVars
<1>1. ASSUME NEW t \in Threads, NEW b \in Buffers, BeginSend(t, b) PROVE PlacesOK'
      BY <1>1 DEF BeginSend, Increment
<1>2. ASSUME NEW t \in Threads, SendPaused(t) \/ SendToVC(t) \/ SendFails(t) PROVE PlacesOK'
      BY <1>2 DEF SendPaused, EndSend, SendToVC, SendFails, Decrement
<1>3. ASSUME NEW t \in Threads, Pause(t) \/ Resume(t) PROVE PlacesOK'
      BY <1>3 DEF Pause, Resume
<1>4. ASSUME NEW t \in Threads, FlushLock(t) \/ FlushDisabled(t) \/ FlushAsk(t) \/ FlushAnswered(t)
             \/ FlushReturns(t)
      PROVE  PlacesOK'
      BY <1>4 DEF FlushLock, FlushDisabled, FlushAsk, Ask, FlushAnswered, Answered, FlushReturns
<1>5. ASSUME NEW t \in Threads, EnableAsk(t) \/ Enabled(t) \/ EnableFails(t) PROVE PlacesOK'
      BY <1>5 DEF EnableAsk, Ask, Enabled, Answered, EnableFails
<1>6. ASSUME NEW t \in Threads, DisableLock(t) \/ Clear(t) \/ DisableAsk(t) \/ DisableAnswered(t)
             \/ Drained(t) \/ Reenable(t) \/ TransitWait(t) \/ Disabled(t)
      PROVE  PlacesOK'
      BY <1>6 DEF DisableLock, Clear, DisableAsk, Ask, DisableAnswered, Answered, Drained,
         Reenable, TransitWait, Disabled
<1>7. ASSUME NEW a \in Agents, CallQueued(a) \/ CallReturns(a) PROVE PlacesOK'
      BY <1>7 DEF CallQueued, Calls, CallReturns, Decrement
<1>8. ASSUME NEW t \in Threads, CallTaken(t) PROVE PlacesOK'
      BY <1>8 DEF CallTaken, Calls
<1>9. CASE ActionWakes \/ ActionLocks \/ ActionDone
      BY <1>9 DEF ActionWakes, ActionLocks, ActionDone
<1>10. CASE HostBuffer \/ Trigger \/ HostReply
      BY <1>10 DEF HostBuffer, Trigger, HostReply
<1>11. ASSUME NEW b \in Buffers, VCReturn(b) PROVE PlacesOK'
      BY <1>11 DEF VCReturn, VCSends
<1>12. CASE VCEvent \/ VCAnswer \/ VCRefuses
      BY <1>12 DEF VCEvent, VCSends, VCAnswer, VCRefuses
<1>13. CASE UNCHANGED vars
      BY <1>13 DEF vars
<1> QED
    BY <1>1, <1>2, <1>3, <1>4, <1>5, <1>6, <1>7, <1>8, <1>9, <1>10, <1>11, <1>12, <1>13
       DEF Next, Begins, Continues, ActionThread, Vchiq, VideoCore, Agents

\* A lock is with the agent that is where it is held.
LEMMA LockStep == ControlOK /\ PlacesOK /\ LockInv /\ [Next]_vars => LockInv'
<1> SUFFICES ASSUME ControlOK, PlacesOK, LockInv, [Next]_vars PROVE LockInv'
    OBVIOUS
<1> USE PortAssumption DEF ControlOK, PlacesOK, ActionPlaces, Agents, Goes, HoldsPort, HoldsSend,
        HoldsAction, Disabling, LockInv, coreVars, transitVars, lockVars, hostVars, vcVars
<1>1. ASSUME NEW t \in Threads, NEW b \in Buffers, BeginSend(t, b) PROVE LockInv'
      BY <1>1 DEF BeginSend, Increment
<1>2. ASSUME NEW t \in Threads, SendPaused(t) \/ SendToVC(t) \/ SendFails(t) PROVE LockInv'
      BY <1>2 DEF SendPaused, EndSend, SendToVC, SendFails, Decrement
<1>3. ASSUME NEW t \in Threads, Pause(t) \/ Resume(t) PROVE LockInv'
      BY <1>3 DEF Pause, Resume
<1>4. ASSUME NEW t \in Threads, FlushLock(t) \/ FlushDisabled(t) \/ FlushAsk(t) \/ FlushAnswered(t)
             \/ FlushReturns(t)
      PROVE  LockInv'
      BY <1>4 DEF FlushLock, FlushDisabled, FlushAsk, Ask, FlushAnswered, Answered, FlushReturns
<1>5. ASSUME NEW t \in Threads, EnableAsk(t) \/ Enabled(t) \/ EnableFails(t) PROVE LockInv'
      BY <1>5 DEF EnableAsk, Ask, Enabled, Answered, EnableFails
<1>6. ASSUME NEW t \in Threads, DisableLock(t) \/ Clear(t) \/ DisableAsk(t) \/ DisableAnswered(t)
             \/ Drained(t) \/ Reenable(t) \/ TransitWait(t) \/ Disabled(t)
      PROVE  LockInv'
      BY <1>6 DEF DisableLock, Clear, DisableAsk, Ask, DisableAnswered, Answered, Drained,
         Reenable, TransitWait, Disabled
<1>7. ASSUME NEW a \in Agents, CallQueued(a) \/ CallReturns(a) PROVE LockInv'
      BY <1>7 DEF CallQueued, Calls, CallReturns, Decrement
<1>8. ASSUME NEW t \in Threads, CallTaken(t) PROVE LockInv'
      BY <1>8 DEF CallTaken, Calls
<1>9. CASE ActionWakes \/ ActionLocks \/ ActionDone
      BY <1>9 DEF ActionWakes, ActionLocks, ActionDone
<1>10. CASE HostBuffer \/ Trigger \/ HostReply
      BY <1>10 DEF HostBuffer, Trigger, HostReply
<1>11. ASSUME NEW b \in Buffers, VCReturn(b) PROVE LockInv'
      BY <1>11 DEF VCReturn, VCSends
<1>12. CASE VCEvent \/ VCAnswer \/ VCRefuses
      BY <1>12 DEF VCEvent, VCSends, VCAnswer, VCRefuses
<1>13. CASE UNCHANGED vars
      BY <1>13 DEF vars
<1> QED
    BY <1>1, <1>2, <1>3, <1>4, <1>5, <1>6, <1>7, <1>8, <1>9, <1>10, <1>11, <1>12, <1>13
       DEF Next, Begins, Continues, ActionThread, Vchiq, VideoCore, Agents

\* Places and phases of the port agree.
LEMMA PhaseStep == ControlOK /\ PlacesOK /\ LockInv /\ PhaseInv /\ [Next]_vars => PhaseInv'
<1> SUFFICES ASSUME ControlOK, PlacesOK, LockInv, PhaseInv, [Next]_vars PROVE PhaseInv'
    OBVIOUS
<1> USE PortAssumption DEF ControlOK, PlacesOK, ActionPlaces, Agents, Goes, HoldsPort, HoldsSend,
        HoldsAction, Disabling, LockInv, PhaseInv, coreVars, transitVars, lockVars, hostVars, vcVars
<1>1. ASSUME NEW t \in Threads, NEW b \in Buffers, BeginSend(t, b) PROVE PhaseInv'
      BY <1>1 DEF BeginSend, Increment
<1>2. ASSUME NEW t \in Threads, SendPaused(t) \/ SendToVC(t) \/ SendFails(t) PROVE PhaseInv'
      BY <1>2 DEF SendPaused, EndSend, SendToVC, SendFails, Decrement
<1>3. ASSUME NEW t \in Threads, Pause(t) \/ Resume(t) PROVE PhaseInv'
      BY <1>3 DEF Pause, Resume
<1>4. ASSUME NEW t \in Threads, FlushLock(t) \/ FlushDisabled(t) \/ FlushAsk(t) \/ FlushAnswered(t)
             \/ FlushReturns(t)
      PROVE  PhaseInv'
      BY <1>4 DEF FlushLock, FlushDisabled, FlushAsk, Ask, FlushAnswered, Answered, FlushReturns
<1>5. ASSUME NEW t \in Threads, EnableAsk(t) \/ Enabled(t) \/ EnableFails(t) PROVE PhaseInv'
      BY <1>5 DEF EnableAsk, Ask, Enabled, Answered, EnableFails
<1>6. ASSUME NEW t \in Threads, DisableLock(t) \/ Clear(t) \/ DisableAsk(t) \/ DisableAnswered(t)
             \/ Drained(t) \/ Reenable(t) \/ TransitWait(t) \/ Disabled(t)
      PROVE  PhaseInv'
      BY <1>6 DEF DisableLock, Clear, DisableAsk, Ask, DisableAnswered, Answered, Drained,
         Reenable, TransitWait, Disabled
<1>7. ASSUME NEW a \in Agents, CallQueued(a) \/ CallReturns(a) PROVE PhaseInv'
      BY <1>7 DEF CallQueued, Calls, CallReturns, Decrement
<1>8. ASSUME NEW t \in Threads, CallTaken(t) PROVE PhaseInv'
      BY <1>8 DEF CallTaken, Calls
<1>9. CASE ActionWakes \/ ActionLocks \/ ActionDone
      BY <1>9 DEF ActionWakes, ActionLocks, ActionDone
<1>10. CASE HostBuffer \/ Trigger \/ HostReply
      BY <1>10 DEF HostBuffer, Trigger, HostReply
<1>11. ASSUME NEW b \in Buffers, VCReturn(b) PROVE PhaseInv'
      BY <1>11 DEF VCReturn, VCSends
<1>12. CASE VCEvent \/ VCAnswer \/ VCRefuses
      BY <1>12 DEF VCEvent, VCSends, VCAnswer, VCRefuses
<1>13. CASE UNCHANGED vars
      BY <1>13 DEF vars
<1> QED
    BY <1>1, <1>2, <1>3, <1>4, <1>5, <1>6, <1>7, <1>8, <1>9, <1>10, <1>11, <1>12, <1>13
       DEF Next, Begins, Continues, ActionThread, Vchiq, VideoCore, Agents

\* Agents have buffers in their hands where they may.
LEMMA ItemStep == ControlOK /\ PlacesOK /\ DataOK /\ ItemInv /\ [Next]_vars => ItemInv'
<1> SUFFICES ASSUME ControlOK, PlacesOK, DataOK, ItemInv, [Next]_vars PROVE ItemInv'
    OBVIOUS
<1> USE PortAssumption DEF ControlOK, PlacesOK, DataOK, ActionPlaces, Agents, Items, Goes, ItemInv,
        coreVars, transitVars, lockVars, hostVars, vcVars
<1>1. ASSUME NEW t \in Threads, NEW b \in Buffers, BeginSend(t, b) PROVE ItemInv'
      BY <1>1 DEF BeginSend, Increment
<1>2. ASSUME NEW t \in Threads, SendPaused(t) \/ SendToVC(t) \/ SendFails(t) PROVE ItemInv'
      BY <1>2 DEF SendPaused, EndSend, SendToVC, SendFails, Decrement
<1>3. ASSUME NEW t \in Threads, Pause(t) \/ Resume(t) PROVE ItemInv'
      BY <1>3 DEF Pause, Resume
<1>4. ASSUME NEW t \in Threads, FlushLock(t) \/ FlushDisabled(t) \/ FlushAsk(t) \/ FlushAnswered(t)
             \/ FlushReturns(t)
      PROVE  ItemInv'
      BY <1>4, ZenonT(60) DEF FlushLock, FlushDisabled, FlushAsk, Ask, FlushAnswered, Answered,
         FlushReturns
<1>5. ASSUME NEW t \in Threads, EnableAsk(t) \/ Enabled(t) \/ EnableFails(t) PROVE ItemInv'
      BY <1>5, ZenonT(60) DEF EnableAsk, Ask, Enabled, Answered, EnableFails
<1>6. ASSUME NEW t \in Threads, DisableLock(t) \/ Clear(t) \/ DisableAsk(t) \/ DisableAnswered(t)
             \/ Drained(t) \/ Reenable(t) \/ TransitWait(t) \/ Disabled(t)
      PROVE  ItemInv'
      BY <1>6, SMTT(30) DEF DisableLock, Clear, DisableAsk, Ask, DisableAnswered, Answered,
         Drained, Reenable, TransitWait, Disabled
<1>7. ASSUME NEW a \in Agents, CallQueued(a) PROVE ItemInv'
      BY <1>7 DEF CallQueued, Calls
<1>8. ASSUME NEW t \in Threads, CallTaken(t) PROVE ItemInv'
      BY <1>8 DEF CallTaken, Calls
<1>9. ASSUME NEW a \in Agents, CallReturns(a) PROVE ItemInv'
  <2>1. item' = [item EXCEPT ![a] = None] /\ pc' = pc /\ pc[a] # "sending"
        BY <1>9 DEF CallReturns, Calling
  <2> QED
      BY <2>1
<1>10. CASE ActionWakes \/ ActionLocks \/ ActionDone
      BY <1>10, ZenonT(60) DEF ActionWakes, ActionLocks, ActionDone
<1>11. CASE HostBuffer \/ Trigger \/ HostReply
      BY <1>11 DEF HostBuffer, Trigger, HostReply
<1>12. ASSUME NEW b \in Buffers, VCReturn(b) PROVE ItemInv'
      BY <1>12 DEF VCReturn, VCSends
<1>13. CASE VCEvent \/ VCAnswer \/ VCRefuses
      BY <1>13 DEF VCEvent, VCSends, VCAnswer, VCRefuses
<1>14. CASE UNCHANGED vars
      BY <1>14 DEF vars
<1> QED
    BY <1>1, <1>2, <1>3, <1>4, <1>5, <1>6, <1>7, <1>8, <1>9, <1>10, <1>11, <1>12, <1>13, <1>14
       DEF Next, Begins, Continues, ActionThread, Vchiq, VideoCore, Agents

-----------------------------------------------------------------------------
(* Requests and answers                                                    *)

\* What the rest of a sequence is.
LEMMA TailOf ==
  ASSUME NEW S, NEW s \in Seq(S), s # <<>>
  PROVE  /\ Tail(s) \in Seq(S) /\ Len(s) \in Nat /\ Len(Tail(s)) = Len(s) - 1
         /\ 1 \in 1..Len(s) /\ Head(s) = s[1]
         /\ \A i \in 1..Len(Tail(s)) : i + 1 \in 1..Len(s) /\ Tail(s)[i] = s[i + 1]
  OBVIOUS

\* What a longer sequence is.
LEMMA AppendOf ==
  ASSUME NEW S, NEW s \in Seq(S), NEW x
  PROVE  /\ Len(s) \in Nat /\ Len(Append(s, x)) = Len(s) + 1 /\ Append(s, x)[Len(s) + 1] = x
         /\ \A i \in 1..Len(s) : i \in 1..Len(Append(s, x)) /\ Append(s, x)[i] = s[i]
         /\ \A i \in 1..Len(Append(s, x)) : \/ i \in 1..Len(s) /\ Append(s, x)[i] = s[i]
                                            \/ i = Len(s) + 1 /\ Append(s, x)[i] = x
<1>1. s \in Seq(S \union {x}) /\ x \in S \union {x}
      OBVIOUS
<1> QED
    BY <1>1

\* Where somebody asks nobody waits for an answer.
LEMMA FreeToAsk ==
  ASSUME ControlOK, LockInv, PhaseInv, RequestInv, NEW t \in Threads,
         \/ pc[t] = "flushLock" /\ sendLock = None /\ isEnabled
         \/ pc[t] = "idle" /\ portLock = None /\ ~isEnabled
         \/ pc[t] = "disableLock"
  PROVE  /\ \A u \in Threads : pc[u] \notin Waiting
         /\ request = "none" /\ reply = "none"
<1>1. ASSUME NEW u \in Threads, pc[u] \in Waiting PROVE FALSE
      BY <1>1, PortAssumption DEF LockInv, PhaseInv, Waiting, HoldsPort, HoldsSend, Disabling
<1> QED
    BY <1>1 DEF RequestInv

\* What VideoCore sends comes last.
LEMMA Arrives ==
  ASSUME DataOK, NEW x, toHost' = Append(toHost, x)
  PROVE  /\ Len(toHost) \in Nat /\ Len(toHost') = Len(toHost) + 1
         /\ toHost'[Len(toHost')] = x
         /\ \A i \in 1..Len(toHost) : i \in 1..Len(toHost') /\ toHost'[i] = toHost[i]
         /\ \A i \in 1..Len(toHost') : \/ i \in 1..Len(toHost) /\ toHost'[i] = toHost[i]
                                       \/ i = Len(toHost) + 1 /\ toHost'[i] = x
<1>1. toHost \in Seq(Items \union {"success", "failure"})
      BY DEF DataOK
<1>2. /\ Len(toHost) \in Nat /\ Len(toHost') = Len(toHost) + 1
      /\ \A i \in 1..Len(toHost) : i \in 1..Len(toHost') /\ toHost'[i] = toHost[i]
      /\ toHost'[Len(toHost) + 1] = x
      BY <1>1, AppendOf
<1> QED
    BY <1>2

\* What VCHIQ delivers comes first.
LEMMA Leaves ==
  ASSUME DataOK, toHost # <<>>, toHost' = Tail(toHost)
  PROVE  /\ 1 \in 1..Len(toHost) /\ Head(toHost) = toHost[1] /\ Len(toHost) \in Nat
         /\ Len(toHost') = Len(toHost) - 1
         /\ \A i \in 1..Len(toHost') : i + 1 \in 1..Len(toHost) /\ toHost'[i] = toHost[i + 1]
<1>1. toHost \in Seq(Items \union {"success", "failure"})
      BY DEF DataOK
<1> QED
    BY <1>1, TailOf

\* No answer is on its way.
LEMMA NotReplied ==
  ASSUME DataOK, ~Replied
  PROVE  \A i \in 1..Len(toHost) : toHost[i] \notin Answers
<1>1. DOMAIN toHost = 1..Len(toHost)
      BY DEF DataOK
<1> QED
    BY <1>1 DEF Replied, ToSet, Answers

\* There is one request at a time, and one answer to it.
LEMMA RequestStep ==
  ControlOK /\ DataOK /\ PlacesOK /\ LockInv /\ PhaseInv /\ RequestInv /\ [Next]_vars
  => RequestInv'
<1> SUFFICES ASSUME ControlOK, DataOK, PlacesOK, LockInv, PhaseInv, RequestInv, [Next]_vars PROVE
                    RequestInv'
    OBVIOUS
<1> USE PortAssumption DEF ControlOK, PlacesOK, ActionPlaces, Agents, Goes, RequestInv, Answers,
        Waiting, Event, coreVars, transitVars, lockVars, hostVars, vcVars
<1>1. ASSUME NEW t \in Threads, NEW b \in Buffers, BeginSend(t, b) PROVE RequestInv'
      BY <1>1 DEF BeginSend, Increment
<1>2. ASSUME NEW t \in Threads, SendPaused(t) \/ SendToVC(t) \/ SendFails(t) PROVE RequestInv'
      BY <1>2 DEF SendPaused, EndSend, SendToVC, SendFails, Decrement
<1>3. ASSUME NEW t \in Threads, Pause(t) \/ Resume(t) PROVE RequestInv'
      BY <1>3 DEF Pause, Resume
<1>4. ASSUME NEW t \in Threads, FlushLock(t) \/ FlushDisabled(t) \/ FlushAnswered(t) \/
             FlushReturns(t)
      PROVE  RequestInv'
      BY <1>4 DEF FlushLock, FlushDisabled, FlushAnswered, Answered, FlushReturns
<1>5. ASSUME NEW t \in Threads, FlushAsk(t) PROVE RequestInv'
  <2>1. request = "none" /\ reply = "none" /\ \A u \in Threads : pc[u] \notin Waiting
        BY <1>5, FreeToAsk DEF FlushAsk
  <2> QED
      BY <1>5, <2>1 DEF FlushAsk, Ask
<1>6. ASSUME NEW t \in Threads, EnableAsk(t) PROVE RequestInv'
  <2>1. request = "none" /\ reply = "none" /\ \A u \in Threads : pc[u] \notin Waiting
        BY <1>6, FreeToAsk DEF EnableAsk
  <2> QED
      BY <1>6, <2>1 DEF EnableAsk, Ask
<1>7. ASSUME NEW t \in Threads, Enabled(t) \/ EnableFails(t) PROVE RequestInv'
      BY <1>7 DEF Enabled, Answered, EnableFails
<1>8. ASSUME NEW t \in Threads, DisableLock(t) \/ Clear(t) \/ DisableAnswered(t) \/ Drained(t) \/
             Reenable(t) \/ TransitWait(t) \/ Disabled(t)
      PROVE  RequestInv'
      BY <1>8 DEF DisableLock, Clear, DisableAnswered, Answered, Drained, Reenable, TransitWait,
         Disabled
<1>9. ASSUME NEW t \in Threads, DisableAsk(t) PROVE RequestInv'
  <2>1. request = "none" /\ reply = "none" /\ \A u \in Threads : pc[u] \notin Waiting
        BY <1>9, FreeToAsk DEF DisableAsk
  <2> QED
      BY <1>9, <2>1 DEF DisableAsk, Ask
<1>10. ASSUME NEW a \in Agents, CallQueued(a) \/ CallReturns(a) PROVE RequestInv'
      BY <1>10 DEF CallQueued, Calls, CallReturns, Decrement
<1>11. ASSUME NEW t \in Threads, CallTaken(t) PROVE RequestInv'
      BY <1>11 DEF CallTaken, Calls
<1>12. CASE ActionWakes \/ ActionLocks \/ ActionDone
      BY <1>12 DEF ActionWakes, ActionLocks, ActionDone
<1>13. CASE HostBuffer
  <2>1. toHost' = Tail(toHost) /\ toHost # <<>> /\ pc' = pc
        BY <1>13 DEF HostBuffer
  <2>2. \A i \in 1..Len(toHost') : i + 1 \in 1..Len(toHost) /\ toHost'[i] = toHost[i + 1]
        BY <2>1, Leaves
  <2>3. UNCHANGED <<request, reply>>
        BY <1>13 DEF HostBuffer
  <2> QED
      BY <2>1, <2>2, <2>3
<1>14. CASE Trigger
      BY <1>14 DEF Trigger
<1>15. CASE HostReply
  <2>1. toHost' = Tail(toHost) /\ toHost # <<>> /\ pc' = pc
        BY <1>15 DEF HostReply
  <2>2. \A i \in 1..Len(toHost') : i + 1 \in 1..Len(toHost) /\ toHost'[i] = toHost[i + 1]
        BY <2>1, Leaves
  <2>3. toHost[1] \in Answers /\ 1 \in 1..Len(toHost) /\ reply' = toHost[1] /\ request' = "none"
        BY <1>15, <2>1, Leaves DEF HostReply
  <2>4. \A i \in 1..Len(toHost') : toHost'[i] \notin Answers
    <3> SUFFICES ASSUME NEW i \in 1..Len(toHost') PROVE toHost'[i] \notin Answers
        OBVIOUS
    <3>1. i + 1 \in 1..Len(toHost) /\ i + 1 # 1 /\ toHost'[i] = toHost[i + 1]
          BY <2>2
    <3> QED
        BY <2>3, <3>1
  <2>5. ~\A t \in Threads : pc[t] \notin Waiting
        BY <2>3
  <2> QED
      BY <2>1, <2>3, <2>4, <2>5
<1>16. ASSUME NEW b \in Buffers, VCReturn(b) PROVE RequestInv'
  <2>1. toHost' = Append(toHost, b) /\ UNCHANGED <<pc, request, reply>>
        BY <1>16 DEF VCReturn, VCSends
  <2>2. \A i \in 1..Len(toHost') : \/ i \in 1..Len(toHost) /\ toHost'[i] = toHost[i]
                                   \/ i = Len(toHost) + 1 /\ toHost'[i] = b
        BY <2>1, Arrives
  <2>3. b \notin Answers
        OBVIOUS
  <2> QED
      BY <2>1, <2>2, <2>3
<1>17. CASE VCEvent
  <2>1. toHost' = Append(toHost, Event) /\ UNCHANGED <<pc, request, reply>>
        BY <1>17 DEF VCEvent, VCSends
  <2>2. \A i \in 1..Len(toHost') : \/ i \in 1..Len(toHost) /\ toHost'[i] = toHost[i]
                                   \/ i = Len(toHost) + 1 /\ toHost'[i] = Event
        BY <2>1, Arrives
  <2>3. Event \notin Answers
        OBVIOUS
  <2> QED
      BY <2>1, <2>2, <2>3
<1>18. CASE VCAnswer
  <2>1. toHost' = Append(toHost, "success") /\ UNCHANGED <<pc, request, reply>>
        BY <1>18 DEF VCAnswer, VCSends
  <2>2. \A i \in 1..Len(toHost') : \/ i \in 1..Len(toHost) /\ toHost'[i] = toHost[i]
                                   \/ i = Len(toHost) + 1 /\ toHost'[i] = "success"
        BY <2>1, Arrives
  <2>3. request # "none" /\ \A i \in 1..Len(toHost) : toHost[i] \notin Answers
        BY <1>18, NotReplied DEF VCAnswer
  <2> QED
      BY <2>1, <2>2, <2>3
<1>19. CASE VCRefuses
  <2>1. toHost' = Append(toHost, "failure") /\ UNCHANGED <<pc, request, reply>>
        BY <1>19 DEF VCRefuses, VCSends
  <2>2. \A i \in 1..Len(toHost') : \/ i \in 1..Len(toHost) /\ toHost'[i] = toHost[i]
                                   \/ i = Len(toHost) + 1 /\ toHost'[i] = "failure"
        BY <2>1, Arrives
  <2>3. request # "none" /\ \A i \in 1..Len(toHost) : toHost[i] \notin Answers
        BY <1>19, NotReplied DEF VCRefuses
  <2> QED
      BY <2>1, <2>2, <2>3
<1>20. CASE UNCHANGED vars
      BY <1>20 DEF vars
<1> QED
    BY <1>1, <1>2, <1>3, <1>4, <1>5, <1>6, <1>7, <1>8, <1>9, <1>10, <1>11, <1>12, <1>13, <1>14,
       <1>15, <1>16, <1>17, <1>18, <1>19, <1>20
       DEF Next, Begins, Continues, ActionThread, Vchiq, VideoCore, Agents

-----------------------------------------------------------------------------
(* Events                                                                  *)

\* Only a granted enable turns the port on at VideoCore.
LEMMA OffKept ==
  ASSUME ~vcOn, request # "enable", [Next]_vars
  PROVE  ~vcOn'
<1> USE DEF coreVars, transitVars, lockVars, hostVars, vcVars
<1>1. ASSUME NEW u \in Threads, NEW b \in Buffers, BeginSend(u, b) PROVE ~vcOn'
      BY <1>1 DEF BeginSend, Increment
<1>2. ASSUME NEW u \in Threads, SendPaused(u) \/ SendToVC(u) \/ SendFails(u) PROVE ~vcOn'
      BY <1>2 DEF SendPaused, EndSend, SendToVC, SendFails, Decrement
<1>3. ASSUME NEW u \in Threads, Pause(u) \/ Resume(u) PROVE ~vcOn'
      BY <1>3 DEF Pause, Resume
<1>4. ASSUME NEW u \in Threads, FlushLock(u) \/ FlushDisabled(u) \/ FlushAsk(u) \/ FlushAnswered(u)
             \/ FlushReturns(u)
      PROVE  ~vcOn'
      BY <1>4 DEF FlushLock, FlushDisabled, FlushAsk, Ask, FlushAnswered, Answered, FlushReturns
<1>5. ASSUME NEW u \in Threads, EnableAsk(u) \/ Enabled(u) \/ EnableFails(u) PROVE ~vcOn'
      BY <1>5 DEF EnableAsk, Ask, Enabled, Answered, EnableFails
<1>6. ASSUME NEW u \in Threads, DisableLock(u) \/ Clear(u) \/ DisableAsk(u) \/ DisableAnswered(u)
             \/ Drained(u) \/ Reenable(u) \/ TransitWait(u) \/ Disabled(u)
      PROVE  ~vcOn'
      BY <1>6 DEF DisableLock, Clear, DisableAsk, Ask, DisableAnswered, Answered, Drained,
         Reenable, TransitWait, Disabled
<1>7. ASSUME NEW a \in Agents, CallQueued(a) \/ CallReturns(a) PROVE ~vcOn'
      BY <1>7 DEF CallQueued, Calls, CallReturns, Decrement
<1>8. ASSUME NEW u \in Threads, CallTaken(u) PROVE ~vcOn'
      BY <1>8 DEF CallTaken, Calls
<1>9. CASE ActionWakes \/ ActionLocks \/ ActionDone
      BY <1>9 DEF ActionWakes, ActionLocks, ActionDone
<1>10. CASE HostBuffer \/ Trigger \/ HostReply
      BY <1>10 DEF HostBuffer, Trigger, HostReply
<1>11. ASSUME NEW b \in Buffers, VCReturn(b) PROVE ~vcOn'
      BY <1>11 DEF VCReturn, VCSends
<1>12. CASE VCEvent \/ VCAnswer \/ VCRefuses
      BY <1>12 DEF VCEvent, VCSends, VCAnswer, VCRefuses
<1>13. CASE UNCHANGED vars
      BY <1>13 DEF vars
<1> QED
    BY <1>1, <1>2, <1>3, <1>4, <1>5, <1>6, <1>7, <1>8, <1>9, <1>10, <1>11, <1>12, <1>13
       DEF Next, Begins, Continues, ActionThread, Vchiq, VideoCore, Agents

\* A silent port stays silent as long as it is off.
LEMMA SilenceKept ==
  ASSUME DataOK, Silent, ~vcOn', [Next]_vars
  PROVE  Silent'
<1> USE PortAssumption DEF Silent, Agents, coreVars, transitVars, lockVars, hostVars, vcVars
<1>1. ASSUME NEW u \in Threads, NEW b \in Buffers, BeginSend(u, b) PROVE Silent'
  <2>1. \A a \in Agents : item'[a] \in {item[a], b}
        BY <1>1 DEF BeginSend
  <2>2. UNCHANGED <<toHost, callbackQueue>>
        BY <1>1 DEF BeginSend
  <2> QED
      BY <2>1, <2>2
<1>2. ASSUME NEW u \in Threads, SendPaused(u) \/ SendToVC(u) \/ SendFails(u) PROVE Silent'
      BY <1>2 DEF SendPaused, EndSend, DataOK, SendToVC, SendFails, Decrement
<1>3. ASSUME NEW u \in Threads, Pause(u) \/ Resume(u) PROVE Silent'
      BY <1>3 DEF Pause, Resume
<1>4. ASSUME NEW u \in Threads, FlushLock(u) \/ FlushDisabled(u) \/ FlushAsk(u) \/ FlushAnswered(u)
             \/ FlushReturns(u)
      PROVE  Silent'
      BY <1>4 DEF FlushLock, FlushDisabled, FlushAsk, Ask, FlushAnswered, Answered, FlushReturns
<1>5. ASSUME NEW u \in Threads, EnableAsk(u) \/ Enabled(u) \/ EnableFails(u) PROVE Silent'
      BY <1>5 DEF EnableAsk, Ask, Enabled, Answered, EnableFails
<1>6. ASSUME NEW u \in Threads, DisableLock(u) \/ Clear(u) \/ DisableAsk(u) \/ DisableAnswered(u)
             \/ Drained(u) \/ Reenable(u) \/ TransitWait(u) \/ Disabled(u)
      PROVE  Silent'
      BY <1>6 DEF DisableLock, Clear, DisableAsk, Ask, DisableAnswered, Answered, Drained,
         Reenable, TransitWait, Disabled
<1>7. ASSUME NEW a \in Agents, CallQueued(a) PROVE Silent'
  <2>1. callbackQueue' = Tail(callbackQueue) /\ callbackQueue # <<>> /\ toHost' = toHost
        BY <1>7 DEF CallQueued
  <2>2. /\ Head(callbackQueue) = callbackQueue[1] /\ 1 \in 1..Len(callbackQueue)
        /\ \A i \in 1..Len(callbackQueue') :
              i + 1 \in 1..Len(callbackQueue) /\ callbackQueue'[i] = callbackQueue[i + 1]
        BY <2>1, TailOf DEF DataOK
  <2>3. \A c \in Agents : item'[c] \in {item[c], Head(callbackQueue), None}
        BY <1>7 DEF CallQueued, Calls, DataOK
  <2> QED
      BY <2>1, <2>2, <2>3
<1>8. ASSUME NEW u \in Threads, CallTaken(u) PROVE Silent'
  <2>1. Head(taken[u]) \in Buffers
        BY <1>8 DEF CallTaken, DataOK
  <2>2. \A a \in Agents : item'[a] \in {item[a], Head(taken[u])}
        BY <1>8, <2>1 DEF CallTaken, Calls, DataOK
  <2>3. UNCHANGED <<toHost, callbackQueue>>
        BY <1>8 DEF CallTaken
  <2> QED
      BY <2>1, <2>2, <2>3
<1>9. ASSUME NEW a \in Agents, CallReturns(a) PROVE Silent'
      BY <1>9 DEF CallReturns, Decrement, DataOK
<1>10. CASE ActionWakes \/ ActionLocks \/ ActionDone
      BY <1>10 DEF ActionWakes, ActionLocks, ActionDone
<1>11. CASE HostBuffer
  <2>1. toHost' = Tail(toHost) /\ toHost # <<>>
        BY <1>11 DEF HostBuffer
  <2>2. \A i \in 1..Len(toHost') : i + 1 \in 1..Len(toHost) /\ toHost'[i] = toHost[i + 1]
        BY <2>1, Leaves
  <2>3. \A i \in 1..Len(toHost') : toHost'[i] # Event
        BY <2>2
  <2>4. callbackQueue' = Append(callbackQueue, toHost[1]) /\ toHost[1] # Event /\ item' = item
        BY <1>11, <2>1, Leaves DEF HostBuffer
  <2>5. \A i \in 1..Len(callbackQueue') : callbackQueue'[i] # Event
        BY <2>4, AppendOf DEF DataOK
  <2> QED
      BY <2>3, <2>4, <2>5
<1>12. CASE Trigger
      BY <1>12 DEF Trigger
<1>13. CASE HostReply
  <2>1. toHost' = Tail(toHost) /\ toHost # <<>>
        BY <1>13 DEF HostReply
  <2>2. \A i \in 1..Len(toHost') : i + 1 \in 1..Len(toHost) /\ toHost'[i] = toHost[i + 1]
        BY <2>1, Leaves
  <2>3. \A i \in 1..Len(toHost') : toHost'[i] # Event
        BY <2>2
  <2>4. UNCHANGED <<callbackQueue, item>>
        BY <1>13 DEF HostReply
  <2> QED
      BY <2>3, <2>4
<1>14. ASSUME NEW b \in Buffers, VCReturn(b) PROVE Silent'
  <2>1. \A i \in 1..Len(toHost') : \/ i \in 1..Len(toHost) /\ toHost'[i] = toHost[i]
                                   \/ i = Len(toHost) + 1 /\ toHost'[i] = b
        BY <1>14, Arrives DEF VCReturn, VCSends
  <2>2. b # Event
        BY DEF Event
  <2>3. UNCHANGED <<callbackQueue, item>>
        BY <1>14 DEF VCReturn, VCSends
  <2> QED
      BY <2>1, <2>2, <2>3
<1>15. CASE VCEvent
      BY <1>15 DEF VCEvent
<1>16. CASE VCAnswer
  <2>1. \A i \in 1..Len(toHost') : \/ i \in 1..Len(toHost) /\ toHost'[i] = toHost[i]
                                   \/ i = Len(toHost) + 1 /\ toHost'[i] = "success"
        BY <1>16, Arrives DEF VCAnswer, VCSends
  <2>2. "success" # Event
        BY DEF Event
  <2>3. UNCHANGED <<callbackQueue, item>>
        BY <1>16 DEF VCAnswer, VCSends
  <2> QED
      BY <2>1, <2>2, <2>3
<1>17. CASE VCRefuses
  <2>1. \A i \in 1..Len(toHost') : \/ i \in 1..Len(toHost) /\ toHost'[i] = toHost[i]
                                   \/ i = Len(toHost) + 1 /\ toHost'[i] = "failure"
        BY <1>17, Arrives DEF VCRefuses, VCSends
  <2>2. "failure" # Event
        BY DEF Event
  <2>3. UNCHANGED <<callbackQueue, item>>
        BY <1>17 DEF VCRefuses, VCSends
  <2> QED
      BY <2>1, <2>2, <2>3
<1>18. CASE UNCHANGED vars
      BY <1>18 DEF vars
<1> QED
    BY <1>1, <1>2, <1>3, <1>4, <1>5, <1>6, <1>7, <1>8, <1>9, <1>10, <1>11, <1>12, <1>13, <1>14,
       <1>15, <1>16, <1>17, <1>18
       DEF Next, Begins, Continues, ActionThread, Vchiq, VideoCore, Agents

\* how a step may bring a thread to where events matter
Comes(t) ==
    /\ pc'[t] = "enableWait" => pc[t] = "enableWait" \/ EnableAsk(t)
    /\ pc'[t] = "transitPost" => pc[t] = "transitPost" \/ TransitWait(t)
    /\ pc'[t] = "returnQueue" => pc[t] = "returnQueue" \/ (Drained(t) /\ pc[t] = "drain")
    /\ pc'[t] = "disableWait" => pc[t] = "disableWait" \/ DisableAsk(t)
    /\ pc'[t] = "drain" => pc[t] = "drain" \/ (DisableAnswered(t) /\ reply = "success" /\ pc[t] = "disableWait")

\* How a thread comes to where events matter.
LEMMA Comings ==
  ASSUME ControlOK, PlacesOK, NEW t \in Threads, [Next]_vars
  PROVE  Comes(t)
<1> USE PortAssumption DEF ControlOK, PlacesOK, ActionPlaces, Agents, Goes, Comes, coreVars,
        transitVars, lockVars, hostVars, vcVars
<1>1. ASSUME NEW u \in Threads, NEW b \in Buffers, BeginSend(u, b) PROVE Comes(t)
      BY <1>1 DEF BeginSend, Increment
<1>2. ASSUME NEW u \in Threads, SendPaused(u) \/ SendToVC(u) \/ SendFails(u) PROVE Comes(t)
      BY <1>2 DEF SendPaused, EndSend, SendToVC, SendFails, Decrement
<1>3. ASSUME NEW u \in Threads, Pause(u) \/ Resume(u) PROVE Comes(t)
      BY <1>3 DEF Pause, Resume
<1>4. ASSUME NEW u \in Threads, FlushLock(u) \/ FlushDisabled(u) \/ FlushAsk(u) \/ FlushAnswered(u)
             \/ FlushReturns(u)
      PROVE  Comes(t)
      BY <1>4 DEF FlushLock, FlushDisabled, FlushAsk, Ask, FlushAnswered, Answered, FlushReturns
<1>5. ASSUME NEW u \in Threads, EnableAsk(u) \/ Enabled(u) \/ EnableFails(u) PROVE Comes(t)
      BY <1>5 DEF EnableAsk, Ask, Enabled, Answered, EnableFails
<1>6. ASSUME NEW u \in Threads, DisableLock(u) \/ Clear(u) \/ DisableAsk(u) \/ DisableAnswered(u)
             \/ Drained(u) \/ Reenable(u) \/ TransitWait(u) \/ Disabled(u)
      PROVE  Comes(t)
      BY <1>6 DEF DisableLock, Clear, DisableAsk, Ask, DisableAnswered, Answered, Drained,
         Reenable, TransitWait, Disabled
<1>7. ASSUME NEW a \in Agents, CallQueued(a) \/ CallReturns(a) PROVE Comes(t)
      BY <1>7 DEF CallQueued, Calls, CallReturns, Decrement
<1>8. ASSUME NEW u \in Threads, CallTaken(u) PROVE Comes(t)
      BY <1>8 DEF CallTaken, Calls
<1>9. CASE ActionWakes \/ ActionLocks \/ ActionDone
      BY <1>9 DEF ActionWakes, ActionLocks, ActionDone
<1>10. CASE HostBuffer \/ Trigger \/ HostReply
      BY <1>10 DEF HostBuffer, Trigger, HostReply
<1>11. ASSUME NEW b \in Buffers, VCReturn(b) PROVE Comes(t)
      BY <1>11 DEF VCReturn, VCSends
<1>12. CASE VCEvent \/ VCAnswer \/ VCRefuses
      BY <1>12 DEF VCEvent, VCSends, VCAnswer, VCRefuses
<1>13. CASE UNCHANGED vars
      BY <1>13 DEF vars
<1> QED
    BY <1>1, <1>2, <1>3, <1>4, <1>5, <1>6, <1>7, <1>8, <1>9, <1>10, <1>11, <1>12, <1>13
       DEF Next, Begins, Continues, ActionThread, Vchiq, VideoCore, Agents

\* a port that is off and nobody's, before the step or by it
Freed == \/ portLock = None /\ ~isEnabled
         \/ \E t \in Threads : EnableFails(t) \/ Disabled(t)

\* How the port comes to be off and nobody's.
LEMMA Releases ==
  ASSUME ControlOK, PlacesOK, LockInv, PhaseInv, portLock' = None, ~isEnabled', [Next]_vars
  PROVE  Freed
<1> USE PortAssumption DEF ControlOK, PlacesOK, ActionPlaces, Agents, Goes, Freed, LockInv,
        PhaseInv, HoldsPort, Disabling, coreVars, transitVars, lockVars, hostVars, vcVars
<1>1. ASSUME NEW u \in Threads, NEW b \in Buffers, BeginSend(u, b) PROVE Freed
      BY <1>1 DEF BeginSend, Increment
<1>2. ASSUME NEW u \in Threads, SendPaused(u) \/ SendToVC(u) \/ SendFails(u) PROVE Freed
      BY <1>2 DEF SendPaused, EndSend, SendToVC, SendFails, Decrement
<1>3. ASSUME NEW u \in Threads, Pause(u) \/ Resume(u) PROVE Freed
      BY <1>3 DEF Pause, Resume
<1>4. ASSUME NEW u \in Threads, FlushLock(u) \/ FlushDisabled(u) \/ FlushAsk(u) \/ FlushAnswered(u)
             \/ FlushReturns(u)
      PROVE  Freed
      BY <1>4 DEF FlushLock, FlushDisabled, FlushAsk, Ask, FlushAnswered, Answered, FlushReturns
<1>5. ASSUME NEW u \in Threads, EnableAsk(u) \/ Enabled(u) \/ EnableFails(u) PROVE Freed
      BY <1>5 DEF EnableAsk, Ask, Enabled, Answered, EnableFails
<1>6. ASSUME NEW u \in Threads, DisableLock(u) \/ Clear(u) \/ DisableAsk(u) \/ DisableAnswered(u)
             \/ Drained(u) \/ Reenable(u) \/ TransitWait(u) \/ Disabled(u)
      PROVE  Freed
      BY <1>6 DEF DisableLock, Clear, DisableAsk, Ask, DisableAnswered, Answered, Drained,
         Reenable, TransitWait, Disabled
<1>7. ASSUME NEW a \in Agents, CallQueued(a) \/ CallReturns(a) PROVE Freed
      BY <1>7 DEF CallQueued, Calls, CallReturns, Decrement
<1>8. ASSUME NEW u \in Threads, CallTaken(u) PROVE Freed
      BY <1>8 DEF CallTaken, Calls
<1>9. CASE ActionWakes \/ ActionLocks \/ ActionDone
      BY <1>9 DEF ActionWakes, ActionLocks, ActionDone
<1>10. CASE HostBuffer \/ Trigger \/ HostReply
      BY <1>10 DEF HostBuffer, Trigger, HostReply
<1>11. ASSUME NEW b \in Buffers, VCReturn(b) PROVE Freed
      BY <1>11 DEF VCReturn, VCSends
<1>12. CASE VCEvent \/ VCAnswer \/ VCRefuses
      BY <1>12 DEF VCEvent, VCSends, VCAnswer, VCRefuses
<1>13. CASE UNCHANGED vars
      BY <1>13 DEF vars
<1> QED
    BY <1>1, <1>2, <1>3, <1>4, <1>5, <1>6, <1>7, <1>8, <1>9, <1>10, <1>11, <1>12, <1>13
       DEF Next, Begins, Continues, ActionThread, Vchiq, VideoCore, Agents

\* Who enables or disables is the only one who may wait for an answer.
LEMMA WhoWaits ==
  ASSUME LockInv, PhaseInv, RequestInv, NEW t \in Threads, pc[t] \in Disabling \union {"enableWait"}
  PROVE  /\ \A u \in Threads : pc[u] \in Waiting => u = t
         /\ pc[t] \notin Waiting => request = "none" /\ reply = "none"
<1>1. ASSUME NEW u \in Threads, pc[u] \in Waiting, u # t PROVE FALSE
      BY <1>1 DEF LockInv, PhaseInv, Waiting, HoldsPort, HoldsSend, Disabling
<1> QED
    BY <1>1 DEF RequestInv

\* Nobody waits for an answer while the port is disabled and free.
LEMMA NobodyWaits ==
  ASSUME LockInv, PhaseInv, RequestInv, portLock = None, ~isEnabled
  PROVE  request = "none" /\ reply = "none"
<1>1. ASSUME NEW u \in Threads, pc[u] \in Waiting PROVE FALSE
      BY <1>1, PortAssumption DEF LockInv, PhaseInv, Waiting, HoldsPort, HoldsSend, Disabling
<1> QED
    BY <1>1 DEF RequestInv

\* A port that is disabled and free is silent.
LEMMA FreeSilent ==
  ASSUME ControlOK, DataOK, PlacesOK, LockInv, PhaseInv, RequestInv, ItemInv, EventInv,
         [Next]_vars, portLock' = None, ~isEnabled'
  PROVE  Silent'
<1>1. CASE portLock = None /\ ~isEnabled
  <2>1. Silent /\ request = "none"
        BY <1>1, NobodyWaits DEF EventInv
  <2>2. ~vcOn'
        BY <2>1, OffKept DEF Silent
  <2> QED
      BY <2>1, <2>2, SilenceKept
<1>2. ASSUME NEW u \in Threads, EnableFails(u) PROVE Silent'
  <2>1. pc[u] = "enableWait" /\ reply = "failure" /\ vcOn' = vcOn
        BY <1>2 DEF EnableFails, Goes, Answered
  <2>2. ~Granted
        BY <2>1 DEF Granted, RequestInv, Answers
  <2>3. Silent
        BY <2>1, <2>2 DEF EventInv
  <2> QED
      BY <2>1, <2>3, SilenceKept DEF Silent
<1>3. ASSUME NEW u \in Threads, Disabled(u) PROVE Silent'
  <2>1. Silent /\ vcOn' = vcOn
        BY <1>3 DEF Disabled, Goes, EventInv, vcVars
  <2> QED
      BY <2>1, SilenceKept DEF Silent
<1> QED
    BY <1>1, <1>2, <1>3, Releases DEF Freed

\* A port whose queues are drained stays silent until it is disabled.
LEMMA DrainedSilent ==
  ASSUME ControlOK, DataOK, PlacesOK, LockInv, PhaseInv, RequestInv, ItemInv, EventInv,
         [Next]_vars, NEW t \in Threads, pc'[t] \in {"returnQueue", "transitPost"}
  PROVE  Silent'
<1>1. CASE pc[t] \in {"returnQueue", "transitPost"}
  <2>1. Silent /\ request = "none"
        BY <1>1, WhoWaits DEF EventInv, Disabling, Waiting
  <2>2. ~vcOn'
        BY <2>1, OffKept DEF Silent
  <2> QED
      BY <2>1, <2>2, SilenceKept
<1>2. CASE Drained(t) /\ pc[t] = "drain"
  <2>1. ~vcOn /\ toHost = <<>> /\ callbackQueue = <<>>
        BY <1>2 DEF EventInv, Drained
  <2>2. ASSUME NEW a \in Agents, item[a] = Event PROVE FALSE
    <3>1. pc[a] \in HoldsAction /\ pc[t] \in HoldsAction /\ t \in Agents
          BY <1>2, <2>2 DEF ItemInv, HoldsAction, Agents
    <3>2. a = t
          BY <3>1 DEF LockInv
    <3> QED
        BY <1>2, <2>2, <3>2, PortAssumption DEF Drained
  <2>3. Silent
        BY <2>1, <2>2 DEF Silent
  <2>4. vcOn' = vcOn
        BY <1>2 DEF Drained, vcVars
  <2> QED
      BY <2>1, <2>3, <2>4, SilenceKept
<1> QED
    BY <1>1, <1>2, Comings DEF Comes, TransitWait, Goes

\* Only an answer turns the port on at VideoCore.
LEMMA TurnedOn ==
  ASSUME ~vcOn, vcOn', [Next]_vars
  PROVE  VCAnswer
<1> USE DEF coreVars, transitVars, lockVars, hostVars, vcVars
<1>1. ASSUME NEW u \in Threads, NEW b \in Buffers, BeginSend(u, b) PROVE VCAnswer
      BY <1>1 DEF BeginSend, Increment
<1>2. ASSUME NEW u \in Threads, SendPaused(u) \/ SendToVC(u) \/ SendFails(u) PROVE VCAnswer
      BY <1>2 DEF SendPaused, EndSend, SendToVC, SendFails, Decrement
<1>3. ASSUME NEW u \in Threads, Pause(u) \/ Resume(u) PROVE VCAnswer
      BY <1>3 DEF Pause, Resume
<1>4. ASSUME NEW u \in Threads, FlushLock(u) \/ FlushDisabled(u) \/ FlushAsk(u) \/ FlushAnswered(u)
             \/ FlushReturns(u)
      PROVE  VCAnswer
      BY <1>4 DEF FlushLock, FlushDisabled, FlushAsk, Ask, FlushAnswered, Answered, FlushReturns
<1>5. ASSUME NEW u \in Threads, EnableAsk(u) \/ Enabled(u) \/ EnableFails(u) PROVE VCAnswer
      BY <1>5 DEF EnableAsk, Ask, Enabled, Answered, EnableFails
<1>6. ASSUME NEW u \in Threads, DisableLock(u) \/ Clear(u) \/ DisableAsk(u) \/ DisableAnswered(u)
             \/ Drained(u) \/ Reenable(u) \/ TransitWait(u) \/ Disabled(u)
      PROVE  VCAnswer
      BY <1>6 DEF DisableLock, Clear, DisableAsk, Ask, DisableAnswered, Answered, Drained,
         Reenable, TransitWait, Disabled
<1>7. ASSUME NEW a \in Agents, CallQueued(a) \/ CallReturns(a) PROVE VCAnswer
      BY <1>7 DEF CallQueued, Calls, CallReturns, Decrement
<1>8. ASSUME NEW u \in Threads, CallTaken(u) PROVE VCAnswer
      BY <1>8 DEF CallTaken, Calls
<1>9. CASE ActionWakes \/ ActionLocks \/ ActionDone
      BY <1>9 DEF ActionWakes, ActionLocks, ActionDone
<1>10. CASE HostBuffer \/ Trigger \/ HostReply
      BY <1>10 DEF HostBuffer, Trigger, HostReply
<1>11. ASSUME NEW b \in Buffers, VCReturn(b) PROVE VCAnswer
      BY <1>11 DEF VCReturn, VCSends
<1>12. CASE VCEvent \/ VCAnswer \/ VCRefuses
      BY <1>12 DEF VCEvent, VCSends, vcVars, VCAnswer, VCRefuses
<1>13. CASE UNCHANGED vars
      BY <1>13 DEF vars
<1> QED
    BY <1>1, <1>2, <1>3, <1>4, <1>5, <1>6, <1>7, <1>8, <1>9, <1>10, <1>11, <1>12, <1>13
       DEF Next, Begins, Continues, ActionThread, Vchiq, VideoCore, Agents

\* While a thread enables or disables no other one asks, is asked for or sends.
LEMMA OthersWait ==
  ASSUME LockInv, PhaseInv, RequestInv, NEW t \in Threads, NEW u \in Threads,
         pc[t] \in Disabling \union {"enableWait"}, u # t
  PROVE  /\ ~FlushAsk(u) /\ ~EnableAsk(u) /\ ~DisableAsk(u)
         /\ ~FlushAnswered(u) /\ ~Enabled(u) /\ ~EnableFails(u) /\ ~DisableAnswered(u)
         /\ ~SendToVC(u)
<1>1. ~isEnabled /\ portLock = t /\ pc[u] \notin HoldsPort
      BY DEF LockInv, PhaseInv, HoldsPort, Disabling
<1>2. pc[u] \notin HoldsSend
      BY <1>1 DEF PhaseInv
<1>3. pc[u] \notin {"disableLock", "enableWait", "disableWait", "flushWait", "sending"}
      BY <1>1, <1>2 DEF HoldsPort, HoldsSend, Disabling
<1> QED
    BY <1>1, <1>3, PortAssumption DEF FlushAsk, EnableAsk, DisableAsk, FlushAnswered, Enabled,
       EnableFails, DisableAnswered, SendToVC, EndSend, Goes

\* A grant stays until the caller takes it.
LEMMA GrantKept ==
  ASSUME ControlOK, DataOK, PlacesOK, LockInv, PhaseInv, RequestInv, NEW t \in Threads, Granted,
         pc[t] = "enableWait", pc'[t] = "enableWait", [Next]_vars
  PROVE  Granted'
<1> USE PortAssumption DEF Granted, coreVars, transitVars, lockVars, hostVars, vcVars
<1>1. ASSUME NEW u \in Threads, NEW b \in Buffers, BeginSend(u, b) PROVE Granted'
      BY <1>1 DEF BeginSend, Increment
<1>2. ASSUME NEW u \in Threads, SendPaused(u) \/ SendToVC(u) \/ SendFails(u) PROVE Granted'
      BY <1>2 DEF SendPaused, EndSend, SendToVC, SendFails, Decrement
<1>3. ASSUME NEW u \in Threads, Pause(u) \/ Resume(u) PROVE Granted'
      BY <1>3 DEF Pause, Resume
<1>4. ASSUME NEW u \in Threads, FlushLock(u) \/ FlushDisabled(u) \/ FlushReturns(u) PROVE Granted'
      BY <1>4 DEF FlushLock, FlushDisabled, FlushReturns
<1>5. ASSUME NEW u \in Threads, FlushAsk(u) PROVE Granted'
      BY <1>5, OthersWait DEF FlushAsk, Goes, Disabling, ControlOK, Agents
<1>6. ASSUME NEW u \in Threads, FlushAnswered(u) PROVE Granted'
      BY <1>6, OthersWait DEF FlushAnswered, Goes, Disabling, ControlOK, Agents
<1>7. ASSUME NEW u \in Threads, EnableAsk(u) PROVE Granted'
      BY <1>7, OthersWait DEF EnableAsk, Goes, Disabling, ControlOK, Agents
<1>8. ASSUME NEW u \in Threads, Enabled(u) PROVE Granted'
      BY <1>8, OthersWait DEF Enabled, Goes, Disabling, ControlOK, Agents
<1>9. ASSUME NEW u \in Threads, EnableFails(u) PROVE Granted'
      BY <1>9, OthersWait DEF EnableFails, Goes, Disabling, ControlOK, Agents
<1>10. ASSUME NEW u \in Threads, DisableLock(u) \/ Clear(u) \/ Drained(u) \/ Reenable(u) \/
              TransitWait(u) \/ Disabled(u)
       PROVE  Granted'
      BY <1>10 DEF DisableLock, Clear, Drained, Reenable, TransitWait, Disabled
<1>11. ASSUME NEW u \in Threads, DisableAsk(u) PROVE Granted'
      BY <1>11, OthersWait DEF DisableAsk, Goes, Disabling, ControlOK, Agents
<1>12. ASSUME NEW u \in Threads, DisableAnswered(u) PROVE Granted'
      BY <1>12, OthersWait DEF DisableAnswered, Goes, Disabling, ControlOK, Agents
<1>13. ASSUME NEW a \in Agents, CallQueued(a) \/ CallReturns(a) PROVE Granted'
      BY <1>13 DEF CallQueued, Calls, CallReturns, Decrement
<1>14. ASSUME NEW u \in Threads, CallTaken(u) PROVE Granted'
      BY <1>14 DEF CallTaken, Calls
<1>15. CASE ActionWakes \/ ActionLocks \/ ActionDone
      BY <1>15 DEF ActionWakes, ActionLocks, ActionDone
<1>16. CASE HostBuffer
  <2>1. toHost' = Tail(toHost) /\ toHost # <<>> /\ vcOn' = vcOn
        BY <1>16 DEF HostBuffer
  <2>2. \A i \in 1..Len(toHost) : i = 1 \/ (i - 1 \in 1..Len(toHost') /\ toHost'[i - 1] = toHost[i])
        BY <2>1, Leaves
  <2>3. toHost[1] # "success" /\ reply' = reply
        BY <1>16, <2>1, Leaves DEF HostBuffer, Event
  <2> QED
      BY <2>1, <2>2, <2>3
<1>17. CASE Trigger
      BY <1>17 DEF Trigger
<1>18. CASE HostReply
  <2>1. toHost' = Tail(toHost) /\ toHost # <<>> /\ vcOn' = vcOn
        BY <1>18 DEF HostReply
  <2>2. \A i \in 1..Len(toHost) : i = 1 \/ (i - 1 \in 1..Len(toHost') /\ toHost'[i - 1] = toHost[i])
        BY <2>1, Leaves
  <2>3. toHost[1] \in Answers /\ reply' = toHost[1] /\ request # "none" /\ 1 \in 1..Len(toHost)
        BY <1>18, <2>1, Leaves DEF HostReply, RequestInv, Answers
  <2>4. PICK i \in 1..Len(toHost) : toHost[i] = "success"
        BY <2>3 DEF RequestInv
  <2>5. i = 1
        BY <2>3, <2>4 DEF RequestInv, Answers
  <2> QED
      BY <2>1, <2>3, <2>4, <2>5
<1>19. ASSUME NEW b \in Buffers, VCReturn(b) PROVE Granted'
  <2>1. \A i \in 1..Len(toHost) : i \in 1..Len(toHost') /\ toHost'[i] = toHost[i]
        BY <1>19, Arrives DEF VCReturn, VCSends
  <2>2. UNCHANGED <<vcOn, reply>>
        BY <1>19 DEF VCReturn, VCSends
  <2> QED
      BY <2>1, <2>2
<1>20. CASE VCEvent
  <2>1. \A i \in 1..Len(toHost) : i \in 1..Len(toHost') /\ toHost'[i] = toHost[i]
        BY <1>20, Arrives DEF VCEvent, VCSends
  <2>2. UNCHANGED <<vcOn, reply>>
        BY <1>20 DEF VCEvent, VCSends
  <2> QED
      BY <2>1, <2>2
<1>21. CASE VCAnswer
      BY <1>21, NotReplied DEF VCAnswer, RequestInv, Answers
<1>22. CASE VCRefuses
      BY <1>22, NotReplied DEF VCRefuses, RequestInv, Answers
<1>23. CASE UNCHANGED vars
      BY <1>23 DEF vars
<1> QED
    BY <1>1, <1>2, <1>3, <1>4, <1>5, <1>6, <1>7, <1>8, <1>9, <1>10, <1>11, <1>12, <1>13, <1>14,
       <1>15, <1>16, <1>17, <1>18, <1>19, <1>20, <1>21, <1>22, <1>23
       DEF Next, Begins, Continues, ActionThread, Vchiq, VideoCore, Agents

\* Who enables the port has it granted, or it is silent.
LEMMA EnablingSilent ==
  ASSUME ControlOK, DataOK, PlacesOK, LockInv, PhaseInv, RequestInv, ItemInv, EventInv,
         [Next]_vars, NEW t \in Threads, pc'[t] = "enableWait"
  PROVE  Granted' \/ Silent'
<1>1. CASE EnableAsk(t)
  <2>1. Silent /\ vcOn' = vcOn
        BY <1>1 DEF EnableAsk, Ask, EventInv
  <2> QED
      BY <2>1, SilenceKept DEF Silent
<1>2. CASE pc[t] = "enableWait"
  <2>1. CASE Granted
        BY <1>2, <2>1, GrantKept
  <2>2. CASE Silent /\ ~vcOn'
        BY <2>2, SilenceKept
  <2>3. CASE Silent /\ vcOn'
    <3>1. VCAnswer
          BY <2>3, TurnedOn DEF Silent
    <3>2. toHost' = Append(toHost, "success")
          BY <3>1 DEF VCAnswer, VCSends
    <3>3. Len(toHost') \in 1..Len(toHost') /\ toHost'[Len(toHost')] = "success"
          BY <3>2, Arrives
    <3> QED
        BY <2>3, <3>3 DEF Granted
  <2> QED
      BY <1>2, <2>1, <2>2, <2>3 DEF EventInv
<1> QED
    BY <1>1, <1>2, Comings DEF Comes

\* Nothing comes from a port that is off, empty and asked for nothing.
LEMMA EmptyKept ==
  ASSUME PhaseInv, ~isEnabled, ~vcOn, atVC = {}, toHost = <<>>, request = "none", [Next]_vars
  PROVE  ~vcOn' /\ atVC' = {} /\ toHost' = <<>>
<1> USE DEF coreVars, transitVars, lockVars, hostVars, vcVars
<1>1. ASSUME NEW u \in Threads, NEW b \in Buffers, BeginSend(u, b)
      PROVE  ~vcOn' /\ atVC' = {} /\ toHost' = <<>>
      BY <1>1 DEF BeginSend, Increment
<1>2. ASSUME NEW u \in Threads, SendPaused(u) \/ SendToVC(u) \/ SendFails(u)
      PROVE  ~vcOn' /\ atVC' = {} /\ toHost' = <<>>
      BY <1>2 DEF SendPaused, EndSend, SendToVC, PhaseInv, HoldsSend, Goes, SendFails, Decrement
<1>3. ASSUME NEW u \in Threads, Pause(u) PROVE ~vcOn' /\ atVC' = {} /\ toHost' = <<>>
      BY <1>3 DEF Pause
<1>4. ASSUME NEW u \in Threads, Resume(u) PROVE ~vcOn' /\ atVC' = {} /\ toHost' = <<>>
  <2>1. atVC' = atVC \union ToSet(SubSeq(queue, 1, 0))
        BY <1>4 DEF Resume
  <2>2. SubSeq(queue, 1, 0) = <<>>
        BY SubSeqEmpty
  <2>3. ToSet(<<>>) = {}
        BY DEF ToSet
  <2>4. UNCHANGED <<vcOn, toHost>>
        BY <1>4 DEF Resume
  <2> QED
      BY <2>1, <2>2, <2>3, <2>4
<1>5. ASSUME NEW u \in Threads, FlushLock(u) \/ FlushDisabled(u) \/ FlushAsk(u) \/ FlushAnswered(u)
             \/ FlushReturns(u)
      PROVE  ~vcOn' /\ atVC' = {} /\ toHost' = <<>>
      BY <1>5 DEF FlushLock, FlushDisabled, FlushAsk, Ask, vcVars, FlushAnswered, Answered,
         FlushReturns
<1>6. ASSUME NEW u \in Threads, EnableAsk(u) \/ Enabled(u) \/ EnableFails(u)
      PROVE  ~vcOn' /\ atVC' = {} /\ toHost' = <<>>
      BY <1>6 DEF EnableAsk, Ask, Enabled, Answered, EnableFails
<1>7. ASSUME NEW u \in Threads, DisableLock(u) \/ Clear(u) \/ DisableAsk(u) \/ DisableAnswered(u)
             \/ Drained(u) \/ Reenable(u) \/ TransitWait(u) \/ Disabled(u)
      PROVE  ~vcOn' /\ atVC' = {} /\ toHost' = <<>>
      BY <1>7 DEF DisableLock, Clear, DisableAsk, Ask, DisableAnswered, Answered, Drained,
         Reenable, TransitWait, Disabled
<1>8. ASSUME NEW a \in Agents, CallQueued(a) \/ CallReturns(a)
      PROVE  ~vcOn' /\ atVC' = {} /\ toHost' = <<>>
      BY <1>8 DEF CallQueued, Calls, CallReturns, Decrement
<1>9. ASSUME NEW u \in Threads, CallTaken(u) PROVE ~vcOn' /\ atVC' = {} /\ toHost' = <<>>
      BY <1>9 DEF CallTaken, Calls
<1>10. CASE ActionWakes \/ ActionLocks \/ ActionDone
      BY <1>10 DEF ActionWakes, ActionLocks, ActionDone
<1>11. CASE HostBuffer
      BY <1>11 DEF HostBuffer
<1>12. CASE Trigger
      BY <1>12 DEF Trigger
<1>13. CASE HostReply
      BY <1>13 DEF HostReply
<1>14. ASSUME NEW b \in Buffers, VCReturn(b) PROVE ~vcOn' /\ atVC' = {} /\ toHost' = <<>>
      BY <1>14 DEF VCReturn
<1>15. CASE VCEvent
      BY <1>15 DEF VCEvent
<1>16. CASE VCAnswer \/ VCRefuses
      BY <1>16 DEF VCAnswer, VCSends, vcVars, VCRefuses
<1>17. CASE UNCHANGED vars
      BY <1>17 DEF vars
<1> QED
    BY <1>1, <1>2, <1>3, <1>4, <1>5, <1>6, <1>7, <1>8, <1>9, <1>10, <1>11, <1>12, <1>13, <1>14,
       <1>15, <1>16, <1>17
       DEF Next, Begins, Continues, ActionThread, Vchiq, VideoCore, Agents

\* VideoCore's answer to a disable is the last it sends.
LastWord ==
    /\ (\E i \in 1..Len(toHost) : toHost[i] = "success") =>
          ~vcOn /\ atVC = {} /\ toHost[Len(toHost)] = "success"
    /\ reply = "success" => ~vcOn /\ atVC = {} /\ toHost = <<>>

\* Until the caller takes the answer, it stays the last.
LEMMA LastKept ==
  ASSUME ControlOK, DataOK, PlacesOK, LockInv, PhaseInv, RequestInv, NEW t \in Threads, LastWord,
         pc[t] = "disableWait", pc'[t] = "disableWait", [Next]_vars
  PROVE  LastWord'
<1> USE PortAssumption DEF LastWord, coreVars, transitVars, lockVars, hostVars, vcVars
<1>1. ASSUME NEW u \in Threads, NEW b \in Buffers, BeginSend(u, b) PROVE LastWord'
      BY <1>1 DEF BeginSend, Increment
<1>2. ASSUME NEW u \in Threads, SendPaused(u) \/ SendFails(u) PROVE LastWord'
      BY <1>2 DEF SendPaused, EndSend, SendFails, Decrement
<1>3. ASSUME NEW u \in Threads, SendToVC(u) PROVE LastWord'
      BY <1>3, OthersWait DEF SendToVC, Goes, Disabling, ControlOK, Agents, EndSend
<1>4. ASSUME NEW u \in Threads, Pause(u) PROVE LastWord'
      BY <1>4 DEF Pause
<1>5. ASSUME NEW u \in Threads, Resume(u) PROVE LastWord'
  <2>1. atVC' = atVC \union ToSet(SubSeq(queue, 1, 0)) /\ UNCHANGED <<vcOn, toHost, reply>>
        BY <1>5 DEF Resume, PhaseInv, Disabling
  <2>2. SubSeq(queue, 1, 0) = <<>>
        BY SubSeqEmpty
  <2>3. ToSet(<<>>) = {}
        BY DEF ToSet
  <2> QED
      BY <2>1, <2>2, <2>3
<1>6. ASSUME NEW u \in Threads, FlushLock(u) \/ FlushDisabled(u) \/ FlushReturns(u) PROVE LastWord'
      BY <1>6 DEF FlushLock, FlushDisabled, FlushReturns
<1>7. ASSUME NEW u \in Threads, FlushAsk(u) PROVE LastWord'
      BY <1>7, OthersWait DEF FlushAsk, Goes, Disabling, ControlOK, Agents, EndSend
<1>8. ASSUME NEW u \in Threads, FlushAnswered(u) PROVE LastWord'
      BY <1>8, OthersWait DEF FlushAnswered, Goes, Disabling, ControlOK, Agents, EndSend
<1>9. ASSUME NEW u \in Threads, EnableAsk(u) PROVE LastWord'
      BY <1>9, OthersWait DEF EnableAsk, Goes, Disabling, ControlOK, Agents, EndSend
<1>10. ASSUME NEW u \in Threads, Enabled(u) PROVE LastWord'
      BY <1>10, OthersWait DEF Enabled, Goes, Disabling, ControlOK, Agents, EndSend
<1>11. ASSUME NEW u \in Threads, EnableFails(u) PROVE LastWord'
      BY <1>11, OthersWait DEF EnableFails, Goes, Disabling, ControlOK, Agents, EndSend
<1>12. ASSUME NEW u \in Threads, DisableLock(u) \/ Clear(u) \/ Drained(u) \/ Reenable(u) \/
              TransitWait(u) \/ Disabled(u)
       PROVE  LastWord'
      BY <1>12 DEF DisableLock, Clear, Drained, Reenable, TransitWait, Disabled
<1>13. ASSUME NEW u \in Threads, DisableAsk(u) PROVE LastWord'
      BY <1>13, OthersWait DEF DisableAsk, Goes, Disabling, ControlOK, Agents, EndSend
<1>14. ASSUME NEW u \in Threads, DisableAnswered(u) PROVE LastWord'
      BY <1>14, OthersWait DEF DisableAnswered, Goes, Disabling, ControlOK, Agents, EndSend
<1>15. ASSUME NEW a \in Agents, CallQueued(a) \/ CallReturns(a) PROVE LastWord'
      BY <1>15 DEF CallQueued, Calls, CallReturns, Decrement
<1>16. ASSUME NEW u \in Threads, CallTaken(u) PROVE LastWord'
      BY <1>16 DEF CallTaken, Calls
<1>17. CASE ActionWakes \/ ActionLocks \/ ActionDone
      BY <1>17 DEF ActionWakes, ActionLocks, ActionDone
<1>18. CASE HostBuffer
  <2>1. toHost' = Tail(toHost) /\ toHost # <<>> /\ toHost[1] # "success" /\ UNCHANGED <<vcOn, atVC, reply>>
        BY <1>18, Leaves DEF HostBuffer, Event
  <2>2. /\ \A i \in 1..Len(toHost') : i + 1 \in 1..Len(toHost) /\ toHost'[i] = toHost[i + 1]
        /\ Len(toHost) \in Nat /\ Len(toHost') = Len(toHost) - 1
        BY <2>1, Leaves
  <2>3. ASSUME NEW i \in 1..Len(toHost'), toHost'[i] = "success"
        PROVE  ~vcOn' /\ atVC' = {} /\ toHost'[Len(toHost')] = "success"
    <3>1. toHost[i + 1] = "success" /\ i + 1 \in 1..Len(toHost)
          BY <2>2, <2>3
    <3>2. ~vcOn /\ atVC = {} /\ toHost[Len(toHost)] = "success"
          BY <3>1
    <3>3. Len(toHost') \in 1..Len(toHost')
          BY <2>2
    <3> QED
        BY <2>1, <2>2, <3>2, <3>3
  <2> QED
      BY <2>1, <2>3
<1>19. CASE Trigger
      BY <1>19 DEF Trigger
<1>20. CASE HostReply
  <2>1. toHost' = Tail(toHost) /\ toHost # <<>> /\ toHost[1] \in Answers /\ reply' = toHost[1]
        /\ UNCHANGED <<vcOn, atVC>>
        BY <1>20, Leaves DEF HostReply, Answers
  <2>2. /\ \A i \in 1..Len(toHost') : i + 1 \in 1..Len(toHost) /\ toHost'[i] = toHost[i + 1]
        /\ Len(toHost) \in Nat /\ Len(toHost') = Len(toHost) - 1 /\ 1 \in 1..Len(toHost)
        BY <2>1, Leaves
  <2>3. \A i \in 1..Len(toHost) : toHost[i] \in Answers => i = 1
        BY <2>1, <2>2 DEF RequestInv
  <2>4. ASSUME NEW i \in 1..Len(toHost') PROVE toHost'[i] # "success"
    <3>1. i + 1 \in 1..Len(toHost) /\ i + 1 # 1 /\ toHost'[i] = toHost[i + 1]
          BY <2>2
    <3> QED
        BY <2>3, <3>1 DEF Answers
  <2>5. ASSUME reply' = "success" PROVE ~vcOn' /\ atVC' = {} /\ toHost' = <<>>
    <3>1. toHost[1] = "success" /\ 1 \in 1..Len(toHost)
          BY <2>1, <2>2, <2>5
    <3>2. ~vcOn /\ atVC = {} /\ toHost[Len(toHost)] = "success"
          BY <3>1
    <3>3. Len(toHost) \in 1..Len(toHost)
          BY <2>2
    <3>4. Len(toHost) = 1
          BY <2>3, <3>2, <3>3 DEF Answers
    <3>5. toHost \in Seq(Items \union {"success", "failure"})
          BY DEF DataOK
    <3>6. Tail(toHost) \in Seq(Items \union {"success", "failure"}) /\ Len(Tail(toHost)) = 0
          BY <2>1, <2>2, <3>4, <3>5, TailOf
    <3> QED
        BY <2>1, <3>2, <3>6, EmptySeq
  <2> QED
      BY <2>4, <2>5
<1>21. ASSUME NEW b \in Buffers, VCReturn(b) PROVE LastWord'
  <2>1. b \in atVC /\ toHost' = Append(toHost, b) /\ vcOn' = vcOn /\ reply' = reply
        BY <1>21 DEF VCReturn, VCSends
  <2>2. \A i \in 1..Len(toHost') : \/ i \in 1..Len(toHost) /\ toHost'[i] = toHost[i]
                                   \/ i = Len(toHost) + 1 /\ toHost'[i] = b
        BY <2>1, Arrives
  <2>3. b # "success"
        OBVIOUS
  <2> QED
      BY <2>1, <2>2, <2>3
<1>22. CASE VCEvent
  <2>1. vcOn /\ toHost' = Append(toHost, Event) /\ reply' = reply
        BY <1>22 DEF VCEvent, VCSends
  <2>2. \A i \in 1..Len(toHost') : \/ i \in 1..Len(toHost) /\ toHost'[i] = toHost[i]
                                   \/ i = Len(toHost) + 1 /\ toHost'[i] = Event
        BY <2>1, Arrives
  <2>3. Event # "success"
        BY DEF Event
  <2> QED
      BY <2>1, <2>2, <2>3
<1>23. CASE VCAnswer
  <2>1. request = "disable" /\ reply = "none" /\ ~vcOn' /\ reply' = reply
        BY <1>23 DEF VCAnswer, VCSends, RequestInv, ControlOK
  <2>2. atVC' = {}
        BY <1>23, <2>1 DEF VCAnswer
  <2>3. toHost'[Len(toHost')] = "success"
        BY <1>23, Arrives DEF VCAnswer, VCSends
  <2> QED
      BY <2>1, <2>2, <2>3
<1>24. CASE VCRefuses
  <2>1. request # "none" /\ reply = "none" /\ reply' = reply
        BY <1>24 DEF VCRefuses, VCSends, RequestInv, ControlOK
  <2>2. \A i \in 1..Len(toHost) : toHost[i] # "success"
        BY <1>24, NotReplied DEF VCRefuses, Answers
  <2>3. \A i \in 1..Len(toHost') : \/ i \in 1..Len(toHost) /\ toHost'[i] = toHost[i]
                                   \/ i = Len(toHost) + 1 /\ toHost'[i] = "failure"
        BY <1>24, Arrives DEF VCRefuses, VCSends
  <2> QED
      BY <2>1, <2>2, <2>3
<1>25. CASE UNCHANGED vars
      BY <1>25 DEF vars
<1> QED
    BY <1>1, <1>2, <1>3, <1>4, <1>5, <1>6, <1>7, <1>8, <1>9, <1>10, <1>11, <1>12, <1>13, <1>14,
       <1>15, <1>16, <1>17, <1>18, <1>19, <1>20, <1>21, <1>22, <1>23, <1>24, <1>25
       DEF Next, Begins, Continues, ActionThread, Vchiq, VideoCore, Agents

\* Who disables the port finds it empty when VideoCore has agreed.
LEMMA DisablingEmpty ==
  ASSUME ControlOK, DataOK, PlacesOK, LockInv, PhaseInv, RequestInv, ItemInv, EventInv,
         [Next]_vars, NEW t \in Threads
  PROVE  /\ pc'[t] = "disableWait" => LastWord'
         /\ pc'[t] = "drain" => ~vcOn' /\ atVC' = {} /\ toHost' = <<>>
<1>1. CASE DisableAsk(t)
  <2>1. request = "none" /\ reply = "none"
        BY <1>1, FreeToAsk DEF DisableAsk, Goes
  <2>2. \A i \in 1..Len(toHost) : toHost[i] # "success"
        BY <2>1 DEF RequestInv, Answers
  <2>3. toHost' = toHost /\ reply' # "success" /\ pc'[t] = "disableWait"
        BY <1>1, <2>1 DEF DisableAsk, Ask, Goes, ControlOK, Agents
  <2> QED
      BY <2>2, <2>3 DEF LastWord
<1>2. CASE pc[t] = "disableWait" /\ pc'[t] = "disableWait"
  <2>1. LastWord
        BY <1>2 DEF EventInv, LastWord
  <2> QED
      BY <1>2, <2>1, LastKept
<1>3. CASE DisableAnswered(t) /\ reply = "success" /\ pc[t] = "disableWait"
  <2>1. ~vcOn /\ atVC = {} /\ toHost = <<>>
        BY <1>3 DEF EventInv
  <2>2. UNCHANGED <<vcOn, atVC, toHost>> /\ pc'[t] # "disableWait"
        BY <1>3 DEF DisableAnswered, Answered, Goes, ControlOK, Agents
  <2> QED
      BY <2>1, <2>2
<1>4. CASE pc[t] = "drain" /\ pc'[t] = "drain"
  <2>1. request = "none" /\ ~isEnabled
        BY <1>4, WhoWaits DEF Disabling, Waiting, PhaseInv
  <2> QED
      BY <1>4, <2>1, EmptyKept DEF EventInv
<1> QED
    BY <1>1, <1>2, <1>3, <1>4, Comings DEF Comes

\* Every step keeps what is known of events.
LEMMA EventStep ==
  ControlOK /\ DataOK /\ PlacesOK /\ LockInv /\ PhaseInv /\ RequestInv /\ ItemInv /\ EventInv
  /\ [Next]_vars
  => EventInv'
<1> SUFFICES ASSUME ControlOK, DataOK, PlacesOK, LockInv, PhaseInv, RequestInv, ItemInv, EventInv,
                    [Next]_vars PROVE EventInv'
    OBVIOUS
<1>1. portLock' = None /\ ~isEnabled' => Silent'
      BY FreeSilent
<1>2. ASSUME NEW t \in Threads
      PROVE  /\ pc'[t] \in {"returnQueue", "transitPost"} => Silent'
             /\ pc'[t] = "enableWait" => Granted' \/ Silent'
      BY DrainedSilent, EnablingSilent
<1>3. ASSUME NEW t \in Threads
      PROVE  /\ pc'[t] = "disableWait" => LastWord'
             /\ pc'[t] = "drain" => ~vcOn' /\ atVC' = {} /\ toHost' = <<>>
      BY DisablingEmpty
<1> QED
    BY <1>1, <1>2, <1>3 DEF EventInv, LastWord

-----------------------------------------------------------------------------
(* Places of the buffers                                                   *)

\* What the queues hold.
LEMMA Held ==
  ASSUME DataOK
  PROVE  /\ Len(queue) \in Nat /\ \A i \in 1..Len(queue) : queue[i] \in Buffers
         /\ \A t \in Threads : Len(taken[t]) \in Nat /\ \A i \in 1..Len(taken[t]) : taken[t][i] \in Buffers
         /\ Len(toHost) \in Nat /\ Len(callbackQueue) \in Nat
  BY DEF DataOK

\* A thread that sends has a buffer in its hand, and no other thread sends.
LEMMA OneSends ==
  ASSUME DataOK, LockInv, ItemInv, NEW t \in Threads, pc[t] = "sending"
  PROVE  item[t] \in Buffers /\ \A u \in Threads : pc[u] = "sending" => u = t
<1>1. t \in Agents /\ sendLock = t /\ \A u \in Threads : pc[u] = "sending" => sendLock = u
      BY DEF LockInv, HoldsSend, Agents
<1> QED
    BY <1>1 DEF ItemInv

\* A map with one more change is a map.
LEMMA Moved ==
  ASSUME NEW w \in [Buffers -> Kinds], NEW b \in Buffers, NEW k \in Kinds
  PROVE  \E v \in [Buffers -> Kinds] : v[b] = k /\ \A c \in Buffers : c # b => v[c] = w[c]
<1>1. [w EXCEPT ![b] = k] \in [Buffers -> Kinds]
      OBVIOUS
<1> QED
    BY <1>1

\* Buffers that do not move are where they were.
LEMMA NothingMoves ==
  ASSUME PlaceInv, UNCHANGED <<withClient, queue, taken, atVC, toHost, callbackQueue>>,
         \A t \in Threads : pc'[t] = "sending" => pc[t] = "sending" /\ item'[t] = item[t]
  PROVE  PlaceInv'
<1>1. PICK w \in [Buffers -> Kinds] : Located(w)
      BY DEF PlaceInv
<1>2. Located(w)'
      BY <1>1 DEF Located
<1>3. OnceInv'
      BY DEF PlaceInv, OnceInv
<1> QED
    BY <1>2, <1>3 DEF PlaceInv

\* A buffer goes from the program to a sender.
LEMMA MovesBeginSend ==
  ASSUME DataOK, ControlOK, PlacesOK, LockInv, ItemInv, PlaceInv,
         NEW t \in Threads, NEW b \in Buffers, BeginSend(t, b)
  PROVE  PlaceInv'
<1>1. PICK w \in [Buffers -> Kinds] : Located(w)
      BY DEF PlaceInv
<1>2. b \in withClient /\ w[b] = "client"
      BY <1>1 DEF BeginSend, Located
<1>3. \A u \in Threads : pc'[u] = "sending" => u = t /\ item'[u] = b
  <2>1. sendLock = None /\ pc' = [pc EXCEPT ![t] = "sending"] /\ item' = [item EXCEPT ![t] = b]
        BY DEF BeginSend, Goes
  <2>2. \A u \in Threads : pc[u] # "sending"
        BY <2>1, PortAssumption DEF LockInv, HoldsSend
  <2>3. t \in Agents
        BY DEF Agents
  <2> QED
      BY <2>1, <2>2, <2>3 DEF ControlOK, DataOK, Agents
<1>4. withClient' = withClient \ {b} /\ UNCHANGED <<queue, taken, atVC, toHost, callbackQueue>>
      BY DEF BeginSend, coreVars, hostVars, vcVars
<1>5. PICK v \in [Buffers -> Kinds] : v[b] = "sending" /\ \A c \in Buffers : c # b => v[c] = w[c]
      BY Moved, ZenonT(60) DEF Kinds
<1>6. withClient \subseteq Buffers /\ atVC \subseteq Buffers
      BY DEF DataOK
<1>7. \A c \in Buffers : w[c] # "client" => v[c] = w[c]
      BY <1>2, <1>5
<1>8. Located(v)'
  <2>1. \A c \in withClient' : v[c] = "client"
        BY <1>1, <1>4, <1>5, <1>6 DEF Located
  <2>2. \A u \in Threads : pc'[u] = "sending" => v[item'[u]] = "sending"
        BY <1>3, <1>5
  <2>3. /\ \A i \in 1..Len(queue) : v[queue[i]] = "queue"
        /\ \A u \in Threads : \A i \in 1..Len(taken[u]) : v[taken[u][i]] = "taken"
        /\ \A c \in atVC : v[c] = "vc"
        /\ \A i \in 1..Len(toHost) : toHost[i] \in Buffers => v[toHost[i]] = "host"
        /\ \A i \in 1..Len(callbackQueue) : callbackQueue[i] \in Buffers => v[callbackQueue[i]] = "callbacks"
        BY <1>1, <1>6, <1>7, Held DEF Located
  <2> QED
      BY <1>4, <2>1, <2>2, <2>3 DEF Located
<1>9. OnceInv'
      BY <1>4 DEF PlaceInv, OnceInv
<1> QED
    BY <1>8, <1>9 DEF PlaceInv

\* A buffer goes from a sender to the internal queue.
LEMMA MovesSendPaused ==
  ASSUME DataOK, ControlOK, PlacesOK, LockInv, ItemInv, PlaceInv,
         NEW t \in Threads, SendPaused(t)
  PROVE  PlaceInv'
<1>1. PICK w \in [Buffers -> Kinds] : Located(w)
      BY DEF PlaceInv
<1>2. item[t] \in Buffers /\ pc[t] = "sending" /\ w[item[t]] = "sending"
      /\ \A u \in Threads : pc[u] = "sending" => u = t
      BY <1>1, OneSends DEF SendPaused, EndSend, Goes, Located
<1>3. \A u \in Threads : pc'[u] # "sending"
      BY <1>2 DEF SendPaused, EndSend, Goes, ControlOK, Agents
<1>4. /\ queue' = Append(queue, item[t])
      /\ UNCHANGED <<withClient, taken, atVC, toHost, callbackQueue>>
      BY DEF SendPaused, EndSend, hostVars
<1>5. PICK v \in [Buffers -> Kinds] : v[item[t]] = "queue" /\ \A c \in Buffers : c # item[t] => v[c] = w[c]
      BY <1>2, Moved, ZenonT(60) DEF Kinds
<1>6. withClient \subseteq Buffers /\ atVC \subseteq Buffers
      BY DEF DataOK
<1>7. \A i \in 1..Len(queue') : \/ i \in 1..Len(queue) /\ queue'[i] = queue[i]
                                \/ i = Len(queue) + 1 /\ queue'[i] = item[t]
      BY <1>4, AppendOf DEF DataOK
<1>8. Located(v)'
      BY <1>1, <1>2, <1>3, <1>4, <1>5, <1>6, <1>7, Held DEF Located
<1>9. OnceInv'
  <2>1. \A i \in 1..Len(queue) : queue[i] # item[t]
        BY <1>1, <1>2 DEF Located
  <2>2. \A i, j \in 1..Len(queue') : queue'[i] = queue'[j] => i = j
        BY <1>7, <2>1 DEF PlaceInv, OnceInv
  <2>3. OnceInv /\ UNCHANGED <<taken, toHost, callbackQueue>>
        BY <1>4 DEF PlaceInv
  <2> QED
      BY <2>2, <2>3 DEF OnceInv
<1> QED
    BY <1>8, <1>9 DEF PlaceInv

\* A buffer goes from a sender to VideoCore.
LEMMA MovesSendToVC ==
  ASSUME DataOK, ControlOK, PlacesOK, LockInv, ItemInv, PlaceInv,
         NEW t \in Threads, SendToVC(t)
  PROVE  PlaceInv'
<1>1. PICK w \in [Buffers -> Kinds] : Located(w)
      BY DEF PlaceInv
<1>2. item[t] \in Buffers /\ pc[t] = "sending" /\ w[item[t]] = "sending"
      /\ \A u \in Threads : pc[u] = "sending" => u = t
      BY <1>1, OneSends DEF SendToVC, EndSend, Goes, Located
<1>3. \A u \in Threads : pc'[u] # "sending"
      BY <1>2 DEF SendToVC, EndSend, Goes, ControlOK, Agents
<1>4. /\ atVC' = atVC \union {item[t]}
      /\ UNCHANGED <<withClient, taken, queue, toHost, callbackQueue>>
      BY DEF SendToVC, EndSend, hostVars
<1>5. PICK v \in [Buffers -> Kinds] : v[item[t]] = "vc" /\ \A c \in Buffers : c # item[t] => v[c] = w[c]
      BY <1>2, Moved, ZenonT(60) DEF Kinds
<1>6. withClient \subseteq Buffers /\ atVC \subseteq Buffers
      BY DEF DataOK
<1>7. Located(v)'
      BY <1>1, <1>2, <1>3, <1>4, <1>5, <1>6, Held DEF Located
<1>8. OnceInv'
      BY <1>4 DEF PlaceInv, OnceInv
<1> QED
    BY <1>7, <1>8 DEF PlaceInv

\* A buffer goes from a sender back to the program.
LEMMA MovesSendFails ==
  ASSUME DataOK, ControlOK, PlacesOK, LockInv, ItemInv, PlaceInv,
         NEW t \in Threads, SendFails(t)
  PROVE  PlaceInv'
<1>1. PICK w \in [Buffers -> Kinds] : Located(w)
      BY DEF PlaceInv
<1>2. item[t] \in Buffers /\ pc[t] = "sending" /\ w[item[t]] = "sending"
      /\ \A u \in Threads : pc[u] = "sending" => u = t
      BY <1>1, OneSends DEF SendFails, EndSend, Goes, Located
<1>3. \A u \in Threads : pc'[u] # "sending"
      BY <1>2 DEF SendFails, EndSend, Goes, ControlOK, Agents
<1>4. /\ withClient' = withClient \union {item[t]}
      /\ UNCHANGED <<atVC, taken, queue, toHost, callbackQueue>>
      BY DEF SendFails, EndSend, hostVars
<1>5. PICK v \in [Buffers -> Kinds] : v[item[t]] = "client" /\ \A c \in Buffers : c # item[t] => v[c] = w[c]
      BY <1>2, Moved, ZenonT(60) DEF Kinds
<1>6. withClient \subseteq Buffers /\ atVC \subseteq Buffers
      BY DEF DataOK
<1>7. Located(v)'
      BY <1>1, <1>2, <1>3, <1>4, <1>5, <1>6, Held DEF Located
<1>8. OnceInv'
      BY <1>4 DEF PlaceInv, OnceInv
<1> QED
    BY <1>7, <1>8 DEF PlaceInv

\* Buffers go from the internal queue to VideoCore, in order.
LEMMA MovesResume ==
  ASSUME DataOK, ControlOK, PlacesOK, LockInv, ItemInv, PlaceInv,
         NEW t \in Threads, Resume(t)
  PROVE  PlaceInv'
<1>1. PICK w \in [Buffers -> Kinds] : Located(w)
      BY DEF PlaceInv
<1>2. PICK n \in 0..Len(queue) : /\ atVC' = atVC \union ToSet(SubSeq(queue, 1, n))
                                /\ queue' = SubSeq(queue, n + 1, Len(queue))
      BY Held DEF Resume
<1>3. /\ UNCHANGED <<withClient, taken, toHost, callbackQueue, item>>
      /\ \A u \in Threads : pc'[u] = "sending" => pc[u] = "sending"
      BY DEF Resume, Goes, hostVars, ControlOK, Agents
<1>4. /\ \A b \in atVC' : b \in atVC \/ \E i \in 1..n : b = queue[i]
      /\ Len(queue') = Len(queue) - n /\ \A i \in 1..Len(queue') : queue'[i] = queue[n + i]
  <2>1. queue \in Seq(Buffers)
        BY DEF DataOK
  <2>2. SubSeq(queue, 1, n) \in Seq(Buffers) /\ Len(SubSeq(queue, 1, n)) = n
        /\ \A i \in 1..n : SubSeq(queue, 1, n)[i] = queue[i]
        BY <2>1, Cut
  <2>3. \A b \in ToSet(SubSeq(queue, 1, n)) : \E i \in 1..n : b = queue[i]
        BY <2>2 DEF ToSet
  <2>4. Len(SubSeq(queue, n + 1, Len(queue))) = Len(queue) - n
        /\ \A i \in 1..Len(queue) - n : SubSeq(queue, n + 1, Len(queue))[i] = queue[n + i]
        BY <2>1, Cut
  <2> QED
      BY <1>2, <2>3, <2>4
<1>5. \A i, j \in 1..Len(queue) : queue[i] = queue[j] => i = j
      BY DEF PlaceInv, OnceInv
<1>6. PICK v \in [Buffers -> Kinds] :
         \A b \in Buffers : v[b] = IF \E i \in 1..n : b = queue[i] THEN "vc" ELSE w[b]
  <2>1. [b \in Buffers |-> IF \E i \in 1..n : b = queue[i] THEN "vc" ELSE w[b]] \in [Buffers -> Kinds]
        BY DEF Kinds
  <2> QED
      BY <2>1
<1>7. \A b \in Buffers : w[b] # "queue" => v[b] = w[b]
      BY <1>1, <1>6, Held DEF Located
<1>8. Located(v)'
  <2>1. withClient \subseteq Buffers /\ atVC \subseteq Buffers
        BY DEF DataOK
  <2>2. \A b \in atVC' : v[b] = "vc"
        BY <1>1, <1>4, <1>6, <2>1, Held DEF Located
  <2>3. ASSUME NEW i \in 1..Len(queue') PROVE v[queue'[i]] = "queue"
    <3>1. n + i \in 1..Len(queue) /\ queue'[i] = queue[n + i]
          BY <1>4, Held
    <3>2. ~\E j \in 1..n : queue[n + i] = queue[j]
      <4> SUFFICES ASSUME NEW j \in 1..n, queue[n + i] = queue[j] PROVE FALSE
          OBVIOUS
      <4>1. j \in 1..Len(queue) /\ j # n + i
            BY Held
      <4> QED
          BY <1>5, <3>1, <4>1
    <3> QED
        BY <1>1, <1>6, <3>1, <3>2, Held DEF Located
  <2>4. \A u \in Threads : pc[u] = "sending" => item[u] \in Buffers
        BY OneSends
  <2>5. /\ \A b \in withClient : v[b] = "client"
        /\ \A u \in Threads : pc[u] = "sending" => v[item[u]] = "sending"
        /\ \A u \in Threads : \A i \in 1..Len(taken[u]) : v[taken[u][i]] = "taken"
        /\ \A i \in 1..Len(toHost) : toHost[i] \in Buffers => v[toHost[i]] = "host"
        /\ \A i \in 1..Len(callbackQueue) : callbackQueue[i] \in Buffers => v[callbackQueue[i]] = "callbacks"
        BY <1>1, <1>7, <2>1, <2>4, Held DEF Located
  <2> QED
      BY <1>3, <2>2, <2>3, <2>5 DEF Located
<1>9. OnceInv'
  <2>1. ASSUME NEW i \in 1..Len(queue'), NEW j \in 1..Len(queue'), queue'[i] = queue'[j] PROVE i = j
    <3>1. n + i \in 1..Len(queue) /\ n + j \in 1..Len(queue)
          BY <1>4, Held
    <3>2. n + i = n + j
          BY <1>4, <1>5, <2>1, <3>1
    <3> QED
        BY <3>2
  <2> QED
      BY <1>3, <2>1 DEF PlaceInv, OnceInv
<1> QED
    BY <1>8, <1>9 DEF PlaceInv

\* The buffers of the internal queue go to the thread that returns them.
LEMMA MovesQueue ==
  ASSUME DataOK, ControlOK, PlacesOK, LockInv, ItemInv, PlaceInv,
         NEW t \in Threads, queue' = <<>>, taken' = [taken EXCEPT ![t] = queue],
         UNCHANGED <<withClient, atVC, toHost, callbackQueue, item>>,
         \A u \in Threads : pc'[u] = "sending" => pc[u] = "sending"
  PROVE  PlaceInv'
<1>1. PICK w \in [Buffers -> Kinds] : Located(w)
      BY DEF PlaceInv
<1>2. taken'[t] = queue /\ \A u \in Threads : u # t => taken'[u] = taken[u]
      BY DEF DataOK
<1>3. Len(queue') = 0 /\ withClient \subseteq Buffers /\ atVC \subseteq Buffers
      BY DEF DataOK
<1>4. PICK v \in [Buffers -> Kinds] :
         \A b \in Buffers : v[b] = IF w[b] = "queue" THEN "taken" ELSE w[b]
  <2>1. [b \in Buffers |-> IF w[b] = "queue" THEN "taken" ELSE w[b]] \in [Buffers -> Kinds]
        BY DEF Kinds
  <2> QED
      BY <2>1
<1>5. \A u \in Threads : pc[u] = "sending" => item[u] \in Buffers
      BY OneSends
<1>6. \A u \in Threads : \A i \in 1..Len(taken'[u]) : v[taken'[u][i]] = "taken"
      BY <1>1, <1>2, <1>4, Held DEF Located
<1>7. Located(v)'
      BY <1>1, <1>3, <1>4, <1>5, <1>6, Held DEF Located
<1>8. OnceInv'
  <2>1. ASSUME NEW u \in Threads, NEW x \in Threads, NEW i \in 1..Len(taken'[u]),
               NEW j \in 1..Len(taken'[x]),
               taken'[u][i] = taken'[x][j]
        PROVE  u = x /\ i = j
    <3>1. CASE u = t /\ x = t
          BY <1>2, <2>1, <3>1 DEF PlaceInv, OnceInv
    <3>2. CASE u # t /\ x # t
          BY <1>2, <2>1, <3>2 DEF PlaceInv, OnceInv
    <3>3. CASE u = t /\ x # t
          BY <1>1, <1>2, <2>1, <3>3 DEF Located
    <3>4. CASE u # t /\ x = t
          BY <1>1, <1>2, <2>1, <3>4 DEF Located
    <3> QED
        BY <3>1, <3>2, <3>3, <3>4
  <2> QED
      BY <1>3, <2>1 DEF PlaceInv, OnceInv
<1> QED
    BY <1>7, <1>8 DEF PlaceInv

\* A buffer goes from the callback queue to the program; an event goes nowhere.
LEMMA MovesCallQueued ==
  ASSUME DataOK, ControlOK, PlacesOK, LockInv, ItemInv, PlaceInv,
         NEW a \in Agents, CallQueued(a)
  PROVE  PlaceInv'
<1>1. PICK w \in [Buffers -> Kinds] : Located(w)
      BY DEF PlaceInv
<1> DEFINE x == callbackQueue[1]
<1>2. /\ callbackQueue' = Tail(callbackQueue) /\ callbackQueue # <<>>
      /\ UNCHANGED <<pc, atVC, taken, queue, toHost>> /\ pc[a] \in {"loop", "drain", "drainFailed"}
      BY DEF CallQueued, coreVars, vcVars
<1>3. /\ Head(callbackQueue) = x /\ 1 \in 1..Len(callbackQueue) /\ x \in Items
      /\ \A i \in 1..Len(callbackQueue') :
            i + 1 \in 1..Len(callbackQueue) /\ callbackQueue'[i] = callbackQueue[i + 1]
      BY <1>2, TailOf DEF DataOK
<1>4. withClient' = withClient \union ({x} \ {Event}) /\ \A c \in Agents : c # a => item'[c] = item[c]
      BY <1>3 DEF CallQueued, Calls, DataOK
<1>5. /\ x \in Buffers => w[x] = "callbacks"
      /\ x \in Buffers => \A i \in 1..Len(callbackQueue') : callbackQueue'[i] # x
  <2>1. x \in Buffers => \A i \in 1..Len(callbackQueue) : callbackQueue[i] = x => i = 1
        BY <1>3 DEF PlaceInv, OnceInv
  <2>2. \A i \in 1..Len(callbackQueue') : i + 1 # 1
        BY <1>2
  <2> QED
      BY <1>1, <1>3, <2>1, <2>2 DEF Located
<1>6. PICK v \in [Buffers -> Kinds] : \A b \in Buffers : v[b] = IF b = x THEN "client" ELSE w[b]
  <2>1. [b \in Buffers |-> IF b = x THEN "client" ELSE w[b]] \in [Buffers -> Kinds]
        BY DEF Kinds
  <2> QED
      BY <2>1
<1>7. \A b \in Buffers : w[b] # "callbacks" => v[b] = w[b]
      BY <1>5, <1>6
<1>8. Located(v)'
  <2>1. withClient \subseteq Buffers /\ atVC \subseteq Buffers /\ Threads \subseteq Agents
        BY DEF DataOK, Agents
  <2>2. \A u \in Threads : pc[u] = "sending" => item[u] \in Buffers /\ item'[u] = item[u]
        BY <1>2, <1>4, <2>1, OneSends
  <2>3. \A c \in withClient' : v[c] = "client"
        BY <1>1, <1>3, <1>4, <1>6, <1>7, <2>1 DEF Located, Items
  <2>4. \A i \in 1..Len(callbackQueue') : callbackQueue'[i] \in Buffers => v[callbackQueue'[i]] = "callbacks"
    <3> SUFFICES ASSUME NEW i \in 1..Len(callbackQueue'), callbackQueue'[i] \in Buffers
                 PROVE  v[callbackQueue'[i]] = "callbacks"
        OBVIOUS
    <3>1. w[callbackQueue'[i]] = "callbacks"
          BY <1>1, <1>3 DEF Located
    <3>2. callbackQueue'[i] # x
          BY <1>5
    <3> QED
        BY <1>6, <3>1, <3>2
  <2>5. /\ \A u \in Threads : pc[u] = "sending" => v[item'[u]] = "sending"
        /\ \A i \in 1..Len(queue) : v[queue[i]] = "queue"
        /\ \A u \in Threads : \A i \in 1..Len(taken[u]) : v[taken[u][i]] = "taken"
        /\ \A b \in atVC : v[b] = "vc"
        /\ \A i \in 1..Len(toHost) : toHost[i] \in Buffers => v[toHost[i]] = "host"
        BY <1>1, <1>7, <2>1, <2>2, Held DEF Located
  <2> QED
      BY <1>2, <2>3, <2>4, <2>5 DEF Located
<1>9. OnceInv'
  <2>1. ASSUME NEW i \in 1..Len(callbackQueue'), NEW j \in 1..Len(callbackQueue'),
               callbackQueue'[i] = callbackQueue'[j], callbackQueue'[i] \in Buffers
        PROVE  i = j
    <3>1. i + 1 = j + 1
          BY <1>3, <2>1, SMTT(30) DEF PlaceInv, OnceInv
    <3> QED
        BY <3>1
  <2> QED
      BY <1>2, <2>1 DEF PlaceInv, OnceInv
<1> QED
    BY <1>8, <1>9 DEF PlaceInv

\* A buffer goes from the thread that returns it to the program.
LEMMA MovesCallTaken ==
  ASSUME DataOK, ControlOK, PlacesOK, LockInv, ItemInv, PlaceInv,
         NEW t \in Threads, CallTaken(t)
  PROVE  PlaceInv'
<1>1. PICK w \in [Buffers -> Kinds] : Located(w)
      BY DEF PlaceInv
<1> DEFINE x == taken[t][1]
<1>2. /\ taken' = [taken EXCEPT ![t] = Tail(taken[t])] /\ taken[t] # <<>>
      /\ UNCHANGED <<pc, atVC, callbackQueue, queue, toHost>> /\ pc[t] \in {"returning", "returnQueue"}
      BY DEF CallTaken, coreVars, vcVars, hostVars
<1>3. /\ Head(taken[t]) = x /\ 1 \in 1..Len(taken[t]) /\ x \in Buffers /\ taken'[t] = Tail(taken[t])
      /\ \A i \in 1..Len(taken'[t]) : i + 1 \in 1..Len(taken[t]) /\ taken'[t][i] = taken[t][i + 1]
      /\ \A u \in Threads : u # t => taken'[u] = taken[u]
  <2>1. taken[t] \in Seq(Buffers) /\ taken'[t] = Tail(taken[t]) /\ \A u \in Threads : u # t => taken'[u] = taken[u]
        BY <1>2 DEF DataOK
  <2>2. /\ 1 \in 1..Len(taken[t]) /\ Head(taken[t]) = taken[t][1]
        /\ \A i \in 1..Len(Tail(taken[t])) :
              i + 1 \in 1..Len(taken[t]) /\ Tail(taken[t])[i] = taken[t][i + 1]
        BY <1>2, <2>1, TailOf
  <2>3. taken[t][1] \in Buffers
        BY <2>2, Held
  <2> QED
      BY <2>1, <2>2, <2>3
<1>4. withClient' = withClient \union {x} /\ \A c \in Agents : c # t => item'[c] = item[c]
      BY <1>3, PortAssumption DEF CallTaken, Calls, DataOK, Event
<1>5. /\ w[x] = "taken"
      /\ \A u \in Threads : \A i \in 1..Len(taken'[u]) : taken'[u][i] # x
  <2>1. \A u \in Threads : \A i \in 1..Len(taken[u]) : taken[u][i] = x => u = t /\ i = 1
        BY <1>3 DEF PlaceInv, OnceInv
  <2>2. \A i \in 1..Len(taken'[t]) : taken'[t][i] # x
    <3> SUFFICES ASSUME NEW i \in 1..Len(taken'[t]) PROVE taken'[t][i] # x
        OBVIOUS
    <3>1. i + 1 \in 1..Len(taken[t]) /\ i + 1 # 1 /\ taken'[t][i] = taken[t][i + 1]
          BY <1>3
    <3> QED
        BY <2>1, <3>1
  <2>3. \A u \in Threads : u # t => \A i \in 1..Len(taken'[u]) : taken'[u][i] # x
        BY <1>3, <2>1
  <2>4. w[x] = "taken"
        BY <1>1, <1>3 DEF Located
  <2> QED
      BY <2>2, <2>3, <2>4
<1>6. PICK v \in [Buffers -> Kinds] : \A b \in Buffers : v[b] = IF b = x THEN "client" ELSE w[b]
  <2>1. [b \in Buffers |-> IF b = x THEN "client" ELSE w[b]] \in [Buffers -> Kinds]
        BY DEF Kinds
  <2> QED
      BY <2>1
<1>7. \A b \in Buffers : w[b] # "taken" => v[b] = w[b]
      BY <1>5, <1>6
<1>8. Located(v)'
  <2>1. withClient \subseteq Buffers /\ atVC \subseteq Buffers /\ Threads \subseteq Agents
        BY DEF DataOK, Agents
  <2>2. \A u \in Threads : pc[u] = "sending" => item[u] \in Buffers /\ item'[u] = item[u]
        BY <1>2, <1>4, <2>1, OneSends
  <2>3. \A c \in withClient : w[c] = "client" /\ v[c] = "client"
        BY <1>1, <1>7, <2>1 DEF Located
  <2>4. x \in Buffers
        BY <1>3
  <2>5. \A c \in withClient' : v[c] = "client"
        BY <1>4, <1>6, <2>3, <2>4
  <2>6. ASSUME NEW u \in Threads, NEW i \in 1..Len(taken'[u]) PROVE v[taken'[u][i]] = "taken"
    <3>1. \E j \in 1..Len(taken[u]) : taken'[u][i] = taken[u][j]
      <4>1. CASE u = t
            BY <1>3, <4>1
      <4>2. CASE u # t
            BY <1>3, <4>2
      <4> QED
          BY <4>1, <4>2
    <3>2. taken'[u][i] \in Buffers /\ w[taken'[u][i]] = "taken"
          BY <1>1, <3>1, Held DEF Located
    <3>3. taken'[u][i] # x
          BY <1>5
    <3> QED
        BY <1>6, <3>3, <3>2
  <2>7. /\ \A u \in Threads : pc[u] = "sending" => v[item'[u]] = "sending"
        /\ \A i \in 1..Len(queue) : v[queue[i]] = "queue"
        /\ \A b \in atVC : v[b] = "vc"
        /\ \A i \in 1..Len(toHost) : toHost[i] \in Buffers => v[toHost[i]] = "host"
        /\ \A i \in 1..Len(callbackQueue) : callbackQueue[i] \in Buffers => v[callbackQueue[i]] = "callbacks"
        BY <1>1, <1>7, <2>1, <2>2, Held DEF Located
  <2> QED
      BY <1>2, <2>5, <2>6, <2>7 DEF Located
<1>9. OnceInv'
  <2>1. ASSUME NEW u \in Threads, NEW y \in Threads, NEW i \in 1..Len(taken'[u]),
               NEW j \in 1..Len(taken'[y]),
               taken'[u][i] = taken'[y][j]
        PROVE  u = y /\ i = j
    <3> DEFINE at(z, k) == IF z = t THEN k + 1 ELSE k
    <3>1. \A z \in Threads : \A k \in 1..Len(taken'[z]) :
             at(z, k) \in 1..Len(taken[z]) /\ taken'[z][k] = taken[z][at(z, k)]
          BY <1>3
    <3>2. u = y /\ at(u, i) = at(y, j)
      <4>1. at(u, i) \in 1..Len(taken[u]) /\ at(y, j) \in 1..Len(taken[y])
            /\ taken[u][at(u, i)] = taken[y][at(y, j)]
            BY <2>1, <3>1
      <4> HIDE DEF at
      <4> QED
          BY <4>1 DEF PlaceInv, OnceInv
    <3> QED
        BY <3>2
  <2> QED
      BY <1>2, <2>1 DEF PlaceInv, OnceInv
<1> QED
    BY <1>8, <1>9 DEF PlaceInv

\* VCHIQ moves a buffer to the callback queue; an event stays an event.
LEMMA MovesHostBuffer ==
  ASSUME DataOK, ControlOK, PlacesOK, LockInv, ItemInv, PlaceInv,
         HostBuffer
  PROVE  PlaceInv'
<1>1. PICK w \in [Buffers -> Kinds] : Located(w)
      BY DEF PlaceInv
<1> DEFINE x == toHost[1]
<1>2. /\ toHost' = Tail(toHost) /\ toHost # <<>> /\ callbackQueue' = Append(callbackQueue, Head(toHost))
      /\ UNCHANGED <<pc, item, atVC, taken, queue, withClient>>
      BY DEF HostBuffer, coreVars
<1>3. /\ Head(toHost) = x /\ 1 \in 1..Len(toHost)
      /\ \A i \in 1..Len(toHost') : i + 1 \in 1..Len(toHost) /\ toHost'[i] = toHost[i + 1]
      BY <1>2, Leaves
<1>4. \A i \in 1..Len(callbackQueue') :
         \/ i \in 1..Len(callbackQueue) /\ callbackQueue'[i] = callbackQueue[i]
         \/ i = Len(callbackQueue) + 1 /\ callbackQueue'[i] = x
      BY <1>2, <1>3, AppendOf DEF DataOK
<1>5. /\ x \in Buffers => w[x] = "host"
      /\ x \in Buffers => \A i \in 1..Len(toHost') : toHost'[i] # x
  <2>1. x \in Buffers => \A i \in 1..Len(toHost) : toHost[i] = x => i = 1
        BY <1>3 DEF PlaceInv, OnceInv
  <2>2. \A i \in 1..Len(toHost') : i + 1 # 1
        BY <1>2
  <2> QED
      BY <1>1, <1>3, <2>1, <2>2 DEF Located
<1>6. PICK v \in [Buffers -> Kinds] : \A b \in Buffers : v[b] = IF b = x THEN "callbacks" ELSE w[b]
  <2>1. [b \in Buffers |-> IF b = x THEN "callbacks" ELSE w[b]] \in [Buffers -> Kinds]
        BY DEF Kinds
  <2> QED
      BY <2>1
<1>7. \A b \in Buffers : w[b] # "host" => v[b] = w[b]
      BY <1>5, <1>6
<1>8. Located(v)'
  <2>1. withClient \subseteq Buffers /\ atVC \subseteq Buffers
        BY DEF DataOK
  <2>2. \A u \in Threads : pc[u] = "sending" => item[u] \in Buffers
        BY OneSends
  <2>3. ASSUME NEW i \in 1..Len(toHost'), toHost'[i] \in Buffers PROVE v[toHost'[i]] = "host"
    <3>1. w[toHost'[i]] = "host" /\ toHost'[i] # x
          BY <1>1, <1>3, <1>5, <2>3 DEF Located
    <3> QED
        BY <1>6, <2>3, <3>1
  <2>4. ASSUME NEW i \in 1..Len(callbackQueue'), callbackQueue'[i] \in Buffers
        PROVE  v[callbackQueue'[i]] = "callbacks"
    <3>1. CASE i \in 1..Len(callbackQueue) /\ callbackQueue'[i] = callbackQueue[i]
          BY <1>1, <1>6, <2>4, <3>1 DEF Located
    <3>2. CASE callbackQueue'[i] = x
          BY <1>6, <2>4, <3>2
    <3> QED
        BY <1>4, <3>1, <3>2
  <2>5. /\ \A b \in withClient : v[b] = "client"
        /\ \A u \in Threads : pc[u] = "sending" => v[item[u]] = "sending"
        /\ \A i \in 1..Len(queue) : v[queue[i]] = "queue"
        /\ \A u \in Threads : \A i \in 1..Len(taken[u]) : v[taken[u][i]] = "taken"
        /\ \A b \in atVC : v[b] = "vc"
        BY <1>1, <1>7, <2>1, <2>2, Held DEF Located
  <2> QED
      BY <1>2, <2>3, <2>4, <2>5 DEF Located
<1>9. OnceInv'
  <2>1. ASSUME NEW i \in 1..Len(toHost'), NEW j \in 1..Len(toHost'),
               toHost'[i] = toHost'[j], toHost'[i] \in Buffers
        PROVE  i = j
    <3>1. i + 1 = j + 1
          BY <1>3, <2>1, SMTT(30) DEF PlaceInv, OnceInv
    <3> QED
        BY <3>1
  <2>2. x \in Buffers => \A i \in 1..Len(callbackQueue) : callbackQueue[i] # x
        BY <1>1, <1>5 DEF Located
  <2>3. \A i, j \in 1..Len(callbackQueue') :
           callbackQueue'[i] = callbackQueue'[j] /\ callbackQueue'[i] \in Buffers => i = j
        BY <1>4, <2>2 DEF PlaceInv, OnceInv
  <2> QED
      BY <1>2, <2>1, <2>3 DEF PlaceInv, OnceInv
<1> QED
    BY <1>8, <1>9 DEF PlaceInv

\* A buffer goes from VideoCore on its way to the host.
LEMMA MovesVCReturn ==
  ASSUME DataOK, ControlOK, PlacesOK, LockInv, ItemInv, PlaceInv,
         NEW b \in Buffers, VCReturn(b)
  PROVE  PlaceInv'
<1>1. PICK w \in [Buffers -> Kinds] : Located(w)
      BY DEF PlaceInv
<1>2. /\ b \in atVC /\ atVC' = atVC \ {b} /\ toHost' = Append(toHost, b)
      /\ UNCHANGED <<pc, item, taken, queue, callbackQueue, withClient>>
      BY DEF VCReturn, VCSends, coreVars, hostVars
<1>3. \A i \in 1..Len(toHost') : \/ i \in 1..Len(toHost) /\ toHost'[i] = toHost[i]
                                 \/ i = Len(toHost) + 1 /\ toHost'[i] = b
      BY <1>2, Arrives
<1>4. w[b] = "vc"
      BY <1>1, <1>2 DEF Located
<1>5. PICK v \in [Buffers -> Kinds] : v[b] = "host" /\ \A c \in Buffers : c # b => v[c] = w[c]
      BY Moved, ZenonT(60) DEF Kinds
<1>6. withClient \subseteq Buffers /\ atVC \subseteq Buffers
      BY DEF DataOK
<1>7. \A u \in Threads : pc[u] = "sending" => item[u] \in Buffers
      BY OneSends
<1>8. Located(v)'
  <2>1. \A c \in Buffers : w[c] # "vc" => v[c] = w[c]
        BY <1>4, <1>5
  <2>2. \A i \in 1..Len(toHost') : toHost'[i] \in Buffers => v[toHost'[i]] = "host"
        BY <1>1, <1>3, <1>5 DEF Located
  <2>3. \A c \in atVC' : v[c] = "vc"
        BY <1>1, <1>2, <1>5, <1>6 DEF Located
  <2>4. /\ \A c \in withClient : v[c] = "client"
        /\ \A u \in Threads : pc[u] = "sending" => v[item[u]] = "sending"
        /\ \A i \in 1..Len(queue) : v[queue[i]] = "queue"
        /\ \A u \in Threads : \A i \in 1..Len(taken[u]) : v[taken[u][i]] = "taken"
        /\ \A i \in 1..Len(callbackQueue) : callbackQueue[i] \in Buffers => v[callbackQueue[i]] = "callbacks"
        BY <1>1, <1>6, <1>7, <2>1, Held DEF Located
  <2> QED
      BY <1>2, <2>2, <2>3, <2>4 DEF Located
<1>9. OnceInv'
  <2>1. \A i \in 1..Len(toHost) : toHost[i] # b
        BY <1>1, <1>4 DEF Located
  <2>2. \A i, j \in 1..Len(toHost') : toHost'[i] = toHost'[j] /\ toHost'[i] \in Buffers => i = j
        BY <1>3, <2>1 DEF PlaceInv, OnceInv
  <2>3. OnceInv /\ UNCHANGED <<queue, taken, callbackQueue>>
        BY <1>2 DEF PlaceInv
  <2> QED
      BY <2>2, <2>3 DEF OnceInv
<1> QED
    BY <1>8, <1>9 DEF PlaceInv

\* Messages that are not buffers come and go.
LEMMA MessageMoves ==
  ASSUME DataOK, PlaceInv, UNCHANGED <<pc, item, withClient, queue, taken, atVC, callbackQueue>>,
         \/ \E x \in {Event, "success", "failure"} : toHost' = Append(toHost, x)
         \/ toHost # <<>> /\ toHost' = Tail(toHost)
  PROVE  PlaceInv'
<1>1. PICK w \in [Buffers -> Kinds] : Located(w)
      BY DEF PlaceInv
<1>2. CASE \E x \in {Event, "success", "failure"} : toHost' = Append(toHost, x)
  <2>1. PICK x \in {Event, "success", "failure"} : toHost' = Append(toHost, x)
        BY <1>2
  <2>2. x \notin Buffers
        BY PortAssumption DEF Event
  <2>3. \A i \in 1..Len(toHost') : toHost'[i] \in Buffers => i \in 1..Len(toHost) /\ toHost'[i] = toHost[i]
        BY <2>1, <2>2, Arrives
  <2>4. Located(w)'
        BY <1>1, <2>3 DEF Located
  <2>5. OnceInv'
        BY <2>3 DEF PlaceInv, OnceInv
  <2> QED
      BY <2>4, <2>5 DEF PlaceInv
<1>3. CASE toHost # <<>> /\ toHost' = Tail(toHost)
  <2>1. \A i \in 1..Len(toHost') : i + 1 \in 1..Len(toHost) /\ toHost'[i] = toHost[i + 1]
        BY <1>3, Leaves
  <2>2. Located(w)'
        BY <1>1, <2>1 DEF Located
  <2>3. ASSUME NEW i \in 1..Len(toHost'), NEW j \in 1..Len(toHost'),
               toHost'[i] = toHost'[j], toHost'[i] \in Buffers
        PROVE  i = j
    <3>1. i + 1 = j + 1
          BY <2>1, <2>3 DEF PlaceInv, OnceInv
    <3> QED
        BY <3>1
  <2>4. OnceInv'
        BY <2>3 DEF PlaceInv, OnceInv
  <2> QED
      BY <2>2, <2>4 DEF PlaceInv
<1> QED
    BY <1>2, <1>3

\* Every step leaves every buffer in one place.
LEMMA PlaceStep ==
  DataOK /\ ControlOK /\ PlacesOK /\ LockInv /\ ItemInv /\ PlaceInv /\ [Next]_vars
  => PlaceInv'
<1> SUFFICES ASSUME DataOK, ControlOK, PlacesOK, LockInv, ItemInv, PlaceInv, [Next]_vars PROVE
                    PlaceInv'
    OBVIOUS
<1> USE DEF Goes, coreVars, transitVars, lockVars, hostVars, vcVars
<1>1. ASSUME NEW t \in Threads, NEW b \in Buffers, BeginSend(t, b) PROVE PlaceInv'
      BY <1>1, MovesBeginSend
<1>2. ASSUME NEW t \in Threads, SendPaused(t) PROVE PlaceInv'
      BY <1>2, MovesSendPaused
<1>3. ASSUME NEW t \in Threads, SendToVC(t) PROVE PlaceInv'
      BY <1>3, MovesSendToVC
<1>4. ASSUME NEW t \in Threads, SendFails(t) PROVE PlaceInv'
      BY <1>4, MovesSendFails
<1>5. ASSUME NEW t \in Threads, Pause(t) PROVE PlaceInv'
      BY <1>5, NothingMoves DEF Pause, ControlOK, Agents
<1>6. ASSUME NEW t \in Threads, Resume(t) PROVE PlaceInv'
      BY <1>6, MovesResume
<1>7. ASSUME NEW t \in Threads, FlushLock(t) \/ FlushDisabled(t) \/ FlushAsk(t) \/ FlushReturns(t)
      PROVE  PlaceInv'
      BY <1>7, NothingMoves DEF FlushLock, ControlOK, Agents, FlushDisabled, FlushAsk, Ask,
         FlushReturns
<1>8. ASSUME NEW t \in Threads, FlushAnswered(t) PROVE PlaceInv'
  <2>1. pc' = [pc EXCEPT ![t] = "returning"] /\ UNCHANGED <<withClient, atVC, toHost, callbackQueue, item>>
        BY <1>8 DEF FlushAnswered, Answered
  <2>2. \A u \in Threads : pc'[u] = "sending" => pc[u] = "sending"
        BY <2>1 DEF ControlOK, Agents
  <2>3. CASE taken' = [taken EXCEPT ![t] = queue] /\ queue' = <<>>
        BY <2>1, <2>2, <2>3, MovesQueue
  <2>4. CASE UNCHANGED <<taken, queue>>
        BY <2>1, <2>2, <2>4, NothingMoves DEF Agents
  <2> QED
      BY <1>8, <2>3, <2>4 DEF FlushAnswered
<1>9. ASSUME NEW t \in Threads, EnableAsk(t) \/ Enabled(t) \/ EnableFails(t) PROVE PlaceInv'
      BY <1>9, NothingMoves DEF EnableAsk, Ask, ControlOK, Agents, Enabled, Answered, EnableFails
<1>10. ASSUME NEW t \in Threads, DisableLock(t) \/ Clear(t) \/ DisableAsk(t) \/ DisableAnswered(t)
              \/ Reenable(t) \/ TransitWait(t) \/ Disabled(t)
       PROVE  PlaceInv'
      BY <1>10, NothingMoves DEF DisableLock, ControlOK, Agents, Clear, DisableAsk, Ask,
         DisableAnswered, Answered, Reenable, TransitWait, Disabled
<1>11. ASSUME NEW t \in Threads, Drained(t) PROVE PlaceInv'
  <2>1. \E p \in {"returnQueue", "reenable"} : pc' = [pc EXCEPT ![t] = p]
        BY <1>11 DEF Drained
  <2>2. \A u \in Threads : pc'[u] = "sending" => pc[u] = "sending"
        BY <2>1 DEF ControlOK, Agents
  <2>3. UNCHANGED <<withClient, atVC, toHost, callbackQueue, item>>
        BY <1>11 DEF Drained
  <2>4. CASE taken' = [taken EXCEPT ![t] = queue] /\ queue' = <<>>
        BY <2>2, <2>3, <2>4, MovesQueue
  <2>5. CASE UNCHANGED <<taken, queue>>
        BY <2>2, <2>3, <2>5, NothingMoves
  <2> QED
      BY <1>11, <2>4, <2>5 DEF Drained
<1>12. ASSUME NEW a \in Agents, CallQueued(a) PROVE PlaceInv'
      BY <1>12, MovesCallQueued
<1>13. ASSUME NEW t \in Threads, CallTaken(t) PROVE PlaceInv'
      BY <1>13, MovesCallTaken
<1>14. ASSUME NEW a \in Agents, CallReturns(a) PROVE PlaceInv'
  <2>1. item' = [item EXCEPT ![a] = None] /\ pc' = pc /\ pc[a] # "sending"
        BY <1>14 DEF CallReturns, Calling
  <2>2. \A u \in Threads : pc'[u] = "sending" => pc[u] = "sending" /\ item'[u] = item[u]
        BY <2>1 DEF DataOK, Agents
  <2> QED
      BY <1>14, <2>2, NothingMoves DEF CallReturns
<1>15. CASE ActionWakes \/ ActionLocks \/ ActionDone
      BY <1>15, NothingMoves DEF ActionWakes, ControlOK, Agents, ActionLocks, ActionDone
<1>16. CASE HostBuffer
      BY <1>16, MovesHostBuffer
<1>17. CASE Trigger
      BY <1>17, NothingMoves DEF Trigger, ControlOK, Agents
<1>18. CASE HostReply
      BY <1>18, MessageMoves DEF HostReply
<1>19. ASSUME NEW b \in Buffers, VCReturn(b) PROVE PlaceInv'
      BY <1>19, MovesVCReturn
<1>20. CASE VCEvent
      BY <1>20, MessageMoves DEF VCEvent, VCSends
<1>21. CASE VCAnswer
      BY <1>21, MessageMoves DEF VCAnswer, VCSends
<1>22. CASE VCRefuses
      BY <1>22, MessageMoves DEF VCRefuses, VCSends
<1>23. CASE UNCHANGED vars
      BY <1>23, NothingMoves DEF vars
<1> QED
    BY <1>1, <1>2, <1>3, <1>4, <1>5, <1>6, <1>7, <1>8, <1>9, <1>10, <1>11, <1>12, <1>13, <1>14,
       <1>15, <1>16, <1>17, <1>18, <1>19, <1>20, <1>21, <1>22, <1>23
       DEF Next, Begins, Continues, ActionThread, Vchiq, VideoCore, Agents

-----------------------------------------------------------------------------
(* The counter                                                             *)

\* buffers the program does not have, agents that call back with a buffer, threads at the semaphore
Out == Buffers \ withClient
Back == {a \in Calling : item[a] \in Buffers}
Posting == {t \in Threads : pc[t] = "transitPost"}

\* What is counted is finite.
LEMMA Counted ==
  ASSUME CountInv
  PROVE  /\ IsFiniteSet(Out) /\ IsFiniteSet(Back) /\ IsFiniteSet(Calling)
         /\ Cardinality(Out) \in Nat /\ Cardinality(Back) \in Nat
         /\ transit = Cardinality(Out) + Cardinality(Back) /\ transit \in Nat
         /\ sema = IF transit = 0 /\ Posting = {} THEN 1 ELSE 0
<1>1. IsFiniteSet(Out)
      BY PortAssumption, FS_Subset DEF Out
<1>2. IsFiniteSet(Back) /\ IsFiniteSet(Calling)
      BY FS_Subset DEF CountInv, Back
<1>3. Cardinality(Out) \in Nat /\ Cardinality(Back) \in Nat
      BY <1>1, <1>2, FS_CardinalityType
<1>4. transit = Cardinality(Out) + Cardinality(Back)
      BY DEF CountInv, TransitExact, Out, Back
<1>5. sema = IF transit = 0 /\ Posting = {} THEN 1 ELSE 0
      BY DEF CountInv, TransitExact, Posting
<1> QED
    BY <1>1, <1>2, <1>3, <1>4, <1>5

\* The count is exact after a step that keeps it up.
LEMMA Recounted ==
  ASSUME IsFiniteSet(Calling'), transit' = Cardinality(Out') + Cardinality(Back'),
         sema' = IF transit' = 0 /\ Posting' = {} THEN 1 ELSE 0
  PROVE  CountInv'
  BY DEF CountInv, TransitExact, Out, Back, Posting

\* A step at which nothing is sent or called back does not count.
LEMMA NothingCounts ==
  ASSUME CountInv, UNCHANGED <<withClient, transit, sema>>, Posting' = Posting,
         Calling' = Calling, \A a \in Calling : item'[a] = item[a]
  PROVE  CountInv'
<1>1. Out' = Out /\ Back' = Back
      BY DEF Out, Back
<1> QED
    BY <1>1, Counted, Recounted

\* A send takes a buffer from the program, and calls nobody back.
LEMMA SendBegins ==
  ASSUME ControlOK, DataOK, ItemInv, NEW t \in Threads, NEW b \in Buffers, BeginSend(t, b)
  PROVE  /\ Out' = Out \union {b} /\ b \notin Out /\ b \in Buffers
         /\ Calling' = Calling /\ Back' = Back /\ Posting' = Posting
<1>1. /\ pc' = [pc EXCEPT ![t] = "sending"] /\ item' = [item EXCEPT ![t] = b] /\ t \in Agents /\ pc[t] = "idle"
      /\ b \in withClient /\ withClient' = withClient \ {b}
      BY DEF BeginSend, Goes, Agents
<1>2. item[t] = None
      BY <1>1 DEF ItemInv
<1>3. \A a \in Agents : /\ a = t => pc'[a] = "sending"
                        /\ a # t => pc'[a] = pc[a] /\ item'[a] = item[a]
      BY <1>1 DEF ControlOK, DataOK
<1>4. Calling' = Calling
      BY <1>2, <1>3 DEF Calling
<1>5. Back' = Back
      BY <1>2, <1>3, <1>4 DEF Back, Calling
<1>6. Out' = Out \union {b} /\ b \notin Out
      BY <1>1 DEF Out
<1>7. Posting' = Posting
      BY <1>1 DEF Posting, ControlOK
<1> QED
    BY <1>4, <1>5, <1>6, <1>7

\* A send that fails gives its buffer back.
LEMMA SendEndsInFailure ==
  ASSUME ControlOK, DataOK, LockInv, ItemInv, PlaceInv, NEW t \in Threads, SendFails(t)
  PROVE  /\ Out' = Out \ {item[t]} /\ item[t] \in Out
         /\ Calling' = Calling /\ Back' = Back /\ Posting' = Posting
<1>1. /\ pc' = [pc EXCEPT ![t] = "idle"] /\ item' = [item EXCEPT ![t] = None] /\ t \in Agents /\ pc[t] = "sending"
      /\ withClient' = withClient \union {item[t]}
      BY DEF SendFails, EndSend, Goes, Agents
<1>2. \A a \in Agents : /\ a = t => item'[a] = None
                        /\ a # t => pc'[a] = pc[a] /\ item'[a] = item[a]
      BY <1>1 DEF ControlOK, DataOK
<1>3. Calling' = Calling
      BY <1>1, <1>2 DEF Calling
<1>4. Back' = Back
      BY <1>1, <1>2, <1>3 DEF Back, Calling
<1>5. Out' = Out \ {item[t]} /\ item[t] \in Out
  <2>1. item[t] \in Buffers
        BY <1>1, OneSends
  <2>2. PICK w \in [Buffers -> Kinds] : Located(w)
        BY DEF PlaceInv
  <2>3. item[t] \notin withClient
        BY <1>1, <2>2 DEF Located
  <2> QED
      BY <1>1, <2>1, <2>3 DEF Out
<1>6. Posting' = Posting
      BY <1>1 DEF Posting, ControlOK
<1> QED
    BY <1>3, <1>4, <1>5, <1>6

\* A callback begins on agent a with x: with a buffer of the port, with an
\* event, or not at all when there is nobody to call.
CallsWith(a, x) ==
    /\ a \in Agents /\ a \notin Calling
    /\ \/ x = Event /\ UNCHANGED <<Calling, Out, Back>>
       \/ x = Event /\ Calling' = Calling \union {a} /\ UNCHANGED <<Out, Back>>
       \/ /\ x \in Out /\ Out' = Out \ {x}
          /\ Calling' = Calling \union {a} /\ Back' = Back \union {a}

\* What a callback begins with is not the program's yet, and is then.
LEMMA CallBegins ==
  ASSUME DataOK, NEW a \in Agents, pc[a] # "sending",
         NEW x \in Items, x \notin withClient, Calls(a, x), pc' = pc
  PROVE  CallsWith(a, x)
<1>1. item[a] = None /\ withClient' = withClient \union ({x} \ {Event})
      BY DEF Calls
<1>2. /\ item'[a] = IF x = Event /\ ~callback THEN None ELSE x
      /\ \A c \in Agents : c # a => item'[c] = item[c]
      BY DEF Calls, DataOK
<1>3. a \notin Calling /\ a \notin Back /\ None # Event /\ Event \notin Buffers /\ None \notin Buffers
      BY <1>1, PortAssumption DEF Calling, Back
<1>4. CASE x = Event /\ ~callback
  <2>1. Calling' = Calling
        BY <1>1, <1>2, <1>4 DEF Calling
  <2>2. Back' = Back /\ Out' = Out
        BY <1>1, <1>2, <1>3, <1>4, <2>1 DEF Back, Out, Calling
  <2> QED
      BY <1>3, <1>4, <2>1, <2>2 DEF CallsWith
<1>5. CASE x = Event /\ callback
  <2>1. Calling' = Calling \union {a} /\ Back' = Back
        BY <1>2, <1>3, <1>5 DEF Calling, Back
  <2>2. Out' = Out
        BY <1>1, <1>5 DEF Out
  <2> QED
      BY <1>3, <1>5, <2>1, <2>2 DEF CallsWith
<1>6. CASE x # Event
  <2>1. x \in Buffers /\ x \in Out
        BY <1>6 DEF Items, Out
  <2>2. Calling' = Calling \union {a} /\ Back' = Back \union {a}
        BY <1>2, <1>3, <1>6, <2>1 DEF Calling, Back
  <2>3. Out' = Out \ {x}
        BY <1>1, <1>6 DEF Out
  <2> QED
      BY <1>3, <2>1, <2>2, <2>3 DEF CallsWith
<1> QED
    BY <1>4, <1>5, <1>6

\* A callback from the callback queue.
LEMMA QueuedCallBegins ==
  ASSUME DataOK, PlaceInv, NEW a \in Agents, CallQueued(a)
  PROVE  CallsWith(a, Head(callbackQueue)) /\ callbackQueue # <<>> /\ Posting' = Posting
<1>1. /\ callbackQueue # <<>> /\ Calls(a, Head(callbackQueue)) /\ pc[a] # "sending"
      /\ pc' = pc
      BY DEF CallQueued
<1>2. Head(callbackQueue) = callbackQueue[1] /\ 1 \in 1..Len(callbackQueue) /\ Head(callbackQueue) \in Items
      BY <1>1, TailOf DEF DataOK
<1>3. PICK w \in [Buffers -> Kinds] : Located(w)
      BY DEF PlaceInv
<1>4. Head(callbackQueue) \notin withClient
      BY <1>2, <1>3 DEF Located, DataOK
<1>5. CallsWith(a, Head(callbackQueue))
      BY <1>1, <1>2, <1>4, CallBegins
<1> QED
    BY <1>1, <1>5 DEF Posting

\* A callback with a buffer of the internal queue.
LEMMA TakenCallBegins ==
  ASSUME DataOK, PlaceInv, NEW t \in Threads, CallTaken(t)
  PROVE  CallsWith(t, Head(taken[t])) /\ Head(taken[t]) # Event /\ Posting' = Posting
<1>1. /\ taken[t] # <<>> /\ Calls(t, Head(taken[t])) /\ pc[t] # "sending" /\ t \in Agents
      /\ pc' = pc
      BY DEF CallTaken, Agents
<1>2. taken[t] \in Seq(Buffers)
      BY DEF DataOK
<1>3. Head(taken[t]) = taken[t][1] /\ 1 \in 1..Len(taken[t])
      BY <1>1, <1>2, TailOf
<1>4. Head(taken[t]) \in Items /\ Head(taken[t]) # Event
      BY <1>3, Held, PortAssumption DEF Items
<1>5. PICK w \in [Buffers -> Kinds] : Located(w)
      BY DEF PlaceInv
<1>6. Head(taken[t]) \notin withClient
      BY <1>3, <1>5 DEF Located
<1>7. CallsWith(t, Head(taken[t]))
      BY <1>1, <1>4, <1>6, CallBegins
<1> QED
    BY <1>1, <1>4, <1>7 DEF Posting

\* A callback returns.
LEMMA CallEnds ==
  ASSUME DataOK, NEW a \in Agents, CallReturns(a)
  PROVE  /\ a \in Calling /\ Calling' = Calling \ {a} /\ UNCHANGED <<Out, Posting>>
         /\ \/ item[a] = Event /\ UNCHANGED <<Back, transit, sema>>
            \/ a \in Back /\ Back' = Back \ {a} /\ Decrement
<1>1. /\ a \in Calling /\ item' = [item EXCEPT ![a] = None] /\ UNCHANGED <<pc, withClient>>
      /\ IF item[a] = Event THEN UNCHANGED <<transit, sema>> ELSE Decrement
      BY DEF CallReturns, transitVars
<1>2. \A c \in Agents : item'[c] = IF c = a THEN None ELSE item[c]
      BY <1>1 DEF DataOK
<1>3. Calling' = Calling \ {a}
      BY <1>1, <1>2 DEF Calling
<1>4. Out' = Out /\ Posting' = Posting
      BY <1>1 DEF Out, Posting
<1>5. Back' = Back \ {a}
      BY <1>2, <1>3, PortAssumption DEF Back, Calling
<1>6. CASE item[a] = Event
  <2>1. a \notin Back
        BY <1>6, PortAssumption DEF Back
  <2> QED
      BY <1>1, <1>3, <1>4, <1>5, <1>6, <2>1
<1>7. CASE item[a] # Event
  <2>1. a \in Back
        BY <1>1, <1>7 DEF Back, Calling, DataOK, Items
  <2> QED
      BY <1>1, <1>3, <1>4, <1>5, <1>7, <2>1
<1> QED
    BY <1>6, <1>7

\* The steps that count, and the others.
Counting == \/ \E t \in Threads : \/ \E b \in Buffers : BeginSend(t, b)
                                  \/ SendFails(t) \/ CallTaken(t) \/ TransitWait(t) \/ Disabled(t)
            \/ \E a \in Agents : CallQueued(a) \/ CallReturns(a)
NotCounting == UNCHANGED <<transit, sema, Out, Calling, Back, Posting>>

\* Only these steps count.
LEMMA WhatCounts ==
  ASSUME ControlOK, DataOK, [Next]_vars
  PROVE  Counting \/ NotCounting
<1> USE DEF Goes, Agents, coreVars, transitVars, lockVars, hostVars, vcVars
<1>1. ASSUME NEW u \in Threads, NEW b \in Buffers, BeginSend(u, b) PROVE Counting \/ NotCounting
      BY <1>1 DEF Counting
<1>2. ASSUME NEW u \in Threads, SendPaused(u) PROVE Counting \/ NotCounting
  <2>1. /\ pc' = [pc EXCEPT ![u] = "idle"] /\ item' = [item EXCEPT ![u] = None] /\ pc[u] = "sending"
        /\ UNCHANGED <<withClient, transit, sema>> /\ u \in Agents
        BY <1>2 DEF SendPaused, EndSend
  <2>2. \A a \in Agents : /\ a = u => item'[a] = None
                          /\ a # u => pc'[a] = pc[a] /\ item'[a] = item[a]
        BY <2>1 DEF ControlOK, DataOK
  <2>3. Calling' = Calling /\ \A a \in Calling : item'[a] = item[a]
        BY <2>1, <2>2 DEF Calling
  <2>4. Posting' = Posting
        BY <2>1, <2>2 DEF Posting
  <2> QED
      BY <2>1, <2>3, <2>4 DEF NotCounting, Out, Back
<1>3. ASSUME NEW u \in Threads, SendToVC(u) PROVE Counting \/ NotCounting
  <2>1. /\ pc' = [pc EXCEPT ![u] = "idle"] /\ item' = [item EXCEPT ![u] = None] /\ pc[u] = "sending"
        /\ UNCHANGED <<withClient, transit, sema>> /\ u \in Agents
        BY <1>3 DEF SendToVC, EndSend
  <2>2. \A a \in Agents : /\ a = u => item'[a] = None
                          /\ a # u => pc'[a] = pc[a] /\ item'[a] = item[a]
        BY <2>1 DEF ControlOK, DataOK
  <2>3. Calling' = Calling /\ \A a \in Calling : item'[a] = item[a]
        BY <2>1, <2>2 DEF Calling
  <2>4. Posting' = Posting
        BY <2>1, <2>2 DEF Posting
  <2> QED
      BY <2>1, <2>3, <2>4 DEF NotCounting, Out, Back
<1>4. ASSUME NEW u \in Threads, SendFails(u) PROVE Counting \/ NotCounting
      BY <1>4 DEF Counting
<1>5. ASSUME NEW u \in Threads, Pause(u) \/ Resume(u) PROVE Counting \/ NotCounting
      BY <1>5 DEF Pause, NotCounting, Out, Back, Calling, Posting, ControlOK, Resume
<1>6. ASSUME NEW u \in Threads, FlushLock(u) \/ FlushDisabled(u) \/ FlushAsk(u) \/ FlushAnswered(u)
             \/ FlushReturns(u)
      PROVE  Counting \/ NotCounting
      BY <1>6 DEF FlushLock, NotCounting, Out, Back, Calling, Posting, ControlOK, FlushDisabled,
         FlushAsk, Ask, FlushAnswered, Answered, FlushReturns
<1>7. ASSUME NEW u \in Threads, EnableAsk(u) \/ Enabled(u) \/ EnableFails(u)
      PROVE  Counting \/ NotCounting
      BY <1>7 DEF EnableAsk, Ask, NotCounting, Out, Back, Calling, Posting, ControlOK, Enabled,
         Answered, EnableFails
<1>8. ASSUME NEW u \in Threads, DisableLock(u) \/ Clear(u) \/ DisableAsk(u) \/ DisableAnswered(u)
             \/ Drained(u) \/ Reenable(u)
      PROVE  Counting \/ NotCounting
      BY <1>8 DEF DisableLock, NotCounting, Out, Back, Calling, Posting, ControlOK, Clear,
         DisableAsk, Ask, DisableAnswered, Answered, Drained, Reenable
<1>9. ASSUME NEW u \in Threads, TransitWait(u) PROVE Counting \/ NotCounting
      BY <1>9 DEF Counting
<1>10. ASSUME NEW u \in Threads, Disabled(u) PROVE Counting \/ NotCounting
      BY <1>10 DEF Counting
<1>11. ASSUME NEW a \in Agents, CallQueued(a) PROVE Counting \/ NotCounting
      BY <1>11 DEF Counting
<1>12. ASSUME NEW u \in Threads, CallTaken(u) PROVE Counting \/ NotCounting
      BY <1>12 DEF Counting
<1>13. ASSUME NEW a \in Agents, CallReturns(a) PROVE Counting \/ NotCounting
      BY <1>13 DEF Counting
<1>14. CASE ActionWakes \/ ActionLocks \/ ActionDone
      BY <1>14 DEF ActionWakes, NotCounting, Out, Back, Calling, Posting, ControlOK, ActionLocks,
         ActionDone
<1>15. CASE HostBuffer \/ Trigger \/ HostReply
      BY <1>15 DEF HostBuffer, NotCounting, Out, Back, Calling, Posting, ControlOK, Trigger,
         HostReply
<1>16. ASSUME NEW b \in Buffers, VCReturn(b) PROVE Counting \/ NotCounting
      BY <1>16 DEF VCReturn, VCSends, NotCounting, Out, Back, Calling, Posting, ControlOK
<1>17. CASE VCEvent \/ VCAnswer \/ VCRefuses
      BY <1>17 DEF VCEvent, VCSends, NotCounting, Out, Back, Calling, Posting, ControlOK, VCAnswer,
         VCRefuses
<1>18. CASE UNCHANGED vars
      BY <1>18 DEF vars, NotCounting, Out, Back, Calling, Posting, ControlOK
<1> QED
    BY <1>1, <1>2, <1>3, <1>4, <1>5, <1>6, <1>7, <1>8, <1>9, <1>10, <1>11, <1>12, <1>13, <1>14,
       <1>15, <1>16, <1>17, <1>18
       DEF Next, Begins, Continues, ActionThread, Vchiq, VideoCore, Agents

\* The counter stays exact.
LEMMA CountStep ==
  ControlOK /\ DataOK /\ PlacesOK /\ LockInv /\ PhaseInv /\ ItemInv /\ PlaceInv /\ RestInv
  /\ CountInv /\ [Next]_vars
  => CountInv'
<1> SUFFICES ASSUME ControlOK, DataOK, PlacesOK, LockInv, PhaseInv, ItemInv, PlaceInv, RestInv,
                    CountInv, [Next]_vars PROVE CountInv'
    OBVIOUS
<1> USE Counted, Recounted
<1>1. ASSUME NEW t \in Threads, NEW b \in Buffers, BeginSend(t, b) PROVE CountInv'
  <2>1. /\ Out' = Out \union {b} /\ b \notin Out /\ Calling' = Calling /\ Back' = Back /\ Posting' = Posting
        BY <1>1, SendBegins
  <2>2. Cardinality(Out') = Cardinality(Out) + 1
        BY <2>1, FS_AddElement
  <2> QED
      BY <1>1, <2>1, <2>2 DEF BeginSend, Increment
<1>2. ASSUME NEW t \in Threads, SendFails(t) PROVE CountInv'
  <2>1. /\ Out' = Out \ {item[t]} /\ item[t] \in Out /\ Calling' = Calling /\ Back' = Back /\ Posting' = Posting
        BY <1>2, SendEndsInFailure
  <2>2. Cardinality(Out') = Cardinality(Out) - 1 /\ Cardinality(Out) # 0
        BY <2>1, FS_RemoveElement, FS_EmptySet
  <2>3. Posting = {}
        BY <1>2 DEF SendFails, EndSend, Goes, Posting, PhaseInv, HoldsSend, Disabling
  <2> QED
      BY <1>2, <2>1, <2>2, <2>3 DEF SendFails, Decrement
<1>3. ASSUME NEW a, NEW x, CallsWith(a, x), UNCHANGED <<transit, sema, Posting>> PROVE CountInv'
  <2>1. CASE x = Event /\ Out' = Out /\ Back' = Back
    <3>1. IsFiniteSet(Calling')
          BY <1>3, FS_AddElement DEF CallsWith
    <3> QED
        BY <1>3, <2>1, <3>1
  <2>2. CASE /\ x \in Out /\ Out' = Out \ {x}
             /\ Calling' = Calling \union {a} /\ Back' = Back \union {a}
    <3>1. IsFiniteSet(Calling') /\ Cardinality(Out') = Cardinality(Out) - 1
          BY <2>2, FS_AddElement, FS_RemoveElement
    <3>2. Cardinality(Back') = Cardinality(Back) + 1
          BY <1>3, <2>2, FS_AddElement DEF CallsWith, Back
    <3> QED
        BY <1>3, <3>1, <3>2
  <2> QED
      BY <1>3, <2>1, <2>2 DEF CallsWith
<1>4. ASSUME NEW a \in Agents, CallQueued(a) PROVE CountInv'
      BY <1>3, <1>4, QueuedCallBegins DEF CallQueued, transitVars
<1>5. ASSUME NEW t \in Threads, CallTaken(t) PROVE CountInv'
      BY <1>3, <1>5, TakenCallBegins DEF CallTaken, transitVars
<1>6. ASSUME NEW a \in Agents, CallReturns(a) PROVE CountInv'
  <2>1. /\ a \in Calling /\ Calling' = Calling \ {a} /\ UNCHANGED <<Out, Posting>>
        /\ \/ item[a] = Event /\ UNCHANGED <<Back, transit, sema>>
           \/ a \in Back /\ Back' = Back \ {a} /\ Decrement
        BY <1>6, CallEnds
  <2>2. IsFiniteSet(Calling')
        BY <2>1, FS_RemoveElement
  <2>3. CASE UNCHANGED <<Back, transit, sema>>
        BY <2>1, <2>2, <2>3
  <2>4. CASE a \in Back /\ Back' = Back \ {a} /\ Decrement
    <3>1. Cardinality(Back') = Cardinality(Back) - 1 /\ Cardinality(Back) # 0
          BY <2>4, FS_RemoveElement, FS_EmptySet
    <3>2. transit # 0
          BY <3>1
    <3>3. Posting = {}
          BY <3>2 DEF RestInv, Posting
    <3> QED
        BY <2>1, <2>2, <2>4, <3>1, <3>3 DEF Decrement
  <2> QED
      BY <2>1, <2>3, <2>4
<1>7. ASSUME NEW t \in Threads, TransitWait(t) PROVE CountInv'
  <2>1. /\ pc' = [pc EXCEPT ![t] = "transitPost"] /\ sema > 0 /\ sema' = sema - 1
        /\ UNCHANGED <<item, withClient, transit>> /\ pc[t] = "returnQueue" /\ t \in Agents
        BY <1>7 DEF TransitWait, Goes, Agents
  <2>2. Out' = Out /\ Calling' = Calling /\ t \in Posting'
        BY <2>1 DEF Out, Calling, Posting, ControlOK, Agents
  <2>3. Back' = Back
        BY <2>1, <2>2 DEF Back
  <2>4. Posting' # {}
        BY <2>2
  <2> QED
      BY <2>1, <2>2, <2>3, <2>4
<1>8. ASSUME NEW t \in Threads, Disabled(t) PROVE CountInv'
  <2>1. /\ pc' = [pc EXCEPT ![t] = "idle"] /\ sema' = sema + 1
        /\ UNCHANGED <<item, withClient, transit>> /\ pc[t] = "transitPost" /\ t \in Agents
        BY <1>8 DEF Disabled, Goes, Agents
  <2>2. Out' = Out /\ Calling' = Calling
        BY <2>1 DEF Out, Calling, ControlOK, Agents
  <2>3. Back' = Back
        BY <2>1, <2>2 DEF Back
  <2>4. \A u \in Threads : pc[u] = "transitPost" => portLock = u
        BY DEF LockInv, HoldsPort, Disabling
  <2>5. Posting = {t}
        BY <2>1, <2>4 DEF Posting
  <2>6. Posting' = {}
        BY <2>1, <2>5 DEF Posting, ControlOK
  <2>7. transit = 0
        BY <2>1 DEF RestInv
  <2> QED
      BY <2>1, <2>2, <2>3, <2>5, <2>6, <2>7
<1>9. CASE NotCounting
      BY <1>9 DEF NotCounting
<1> QED
    BY <1>1, <1>2, <1>4, <1>5, <1>6, <1>7, <1>8, <1>9, WhatCounts DEF Counting

\* A port that is off or about to be has nothing in transit.
LEMMA RestStep ==
  ControlOK /\ DataOK /\ PlacesOK /\ LockInv /\ PhaseInv /\ ItemInv /\ CountInv /\ RestInv /\
  [Next]_vars
  => RestInv'
<1> SUFFICES ASSUME ControlOK, DataOK, PlacesOK, LockInv, PhaseInv, ItemInv, CountInv, RestInv,
                    [Next]_vars PROVE RestInv'
    OBVIOUS
<1> USE PortAssumption DEF ControlOK, PlacesOK, ActionPlaces, Agents, Goes, LockInv, PhaseInv,
        HoldsPort, HoldsSend, HoldsAction, Disabling, RestInv, coreVars, transitVars, lockVars,
        hostVars, vcVars
<1>1. ASSUME NEW t \in Threads, NEW b \in Buffers, BeginSend(t, b) PROVE RestInv'
      BY <1>1 DEF BeginSend, Increment
<1>2. ASSUME NEW t \in Threads, SendPaused(t) \/ SendToVC(t) \/ SendFails(t) PROVE RestInv'
      BY <1>2 DEF SendPaused, EndSend, SendToVC, SendFails, Decrement
<1>3. ASSUME NEW t \in Threads, Pause(t) \/ Resume(t) PROVE RestInv'
      BY <1>3 DEF Pause, Resume
<1>4. ASSUME NEW t \in Threads, FlushLock(t) \/ FlushDisabled(t) \/ FlushAsk(t) \/ FlushAnswered(t)
             \/ FlushReturns(t)
      PROVE  RestInv'
      BY <1>4 DEF FlushLock, FlushDisabled, FlushAsk, Ask, FlushAnswered, Answered, FlushReturns
<1>5. ASSUME NEW t \in Threads, EnableAsk(t) \/ Enabled(t) \/ EnableFails(t) PROVE RestInv'
      BY <1>5 DEF EnableAsk, Ask, Enabled, Answered, EnableFails
<1>6. ASSUME NEW t \in Threads, DisableLock(t) \/ Clear(t) \/ DisableAsk(t) \/ DisableAnswered(t)
             \/ Drained(t) \/ Reenable(t) \/ Disabled(t)
      PROVE  RestInv'
      BY <1>6 DEF DisableLock, Clear, DisableAsk, Ask, DisableAnswered, Answered, Drained,
         Reenable, Disabled
<1>7. ASSUME NEW t \in Threads, TransitWait(t) PROVE RestInv'
  <2>1. transit = 0
        BY <1>7, Counted DEF TransitWait
  <2> QED
      BY <1>7, <2>1 DEF TransitWait
<1>8. ASSUME NEW a \in Agents, CallQueued(a) PROVE RestInv'
      BY <1>8 DEF CallQueued, Calls
<1>9. ASSUME NEW t \in Threads, CallTaken(t) PROVE RestInv'
      BY <1>9 DEF CallTaken, Calls
<1>10. ASSUME NEW a \in Agents, CallReturns(a) PROVE RestInv'
  <2>1. a \in Calling /\ pc' = pc /\ UNCHANGED <<isEnabled, portLock>>
        BY <1>10 DEF CallReturns
  <2>2. CASE item[a] = Event
        BY <1>10, <2>1, <2>2 DEF CallReturns
  <2>3. CASE item[a] # Event
    <3>1. a \in Back
          BY <2>1, <2>3 DEF Back, Calling, DataOK, Items
    <3>2. transit # 0
          BY <3>1, Counted, FS_EmptySet
    <3> QED
        BY <2>1, <3>2
  <2> QED
      BY <2>2, <2>3
<1>11. CASE ActionWakes \/ ActionLocks \/ ActionDone
      BY <1>11 DEF ActionWakes, ActionLocks, ActionDone
<1>12. CASE HostBuffer \/ Trigger \/ HostReply
      BY <1>12 DEF HostBuffer, Trigger, HostReply
<1>13. ASSUME NEW b \in Buffers, VCReturn(b) PROVE RestInv'
      BY <1>13 DEF VCReturn, VCSends
<1>14. CASE VCEvent \/ VCAnswer \/ VCRefuses
      BY <1>14 DEF VCEvent, VCSends, VCAnswer, VCRefuses
<1>15. CASE UNCHANGED vars
      BY <1>15 DEF vars
<1> QED
    BY <1>1, <1>2, <1>3, <1>4, <1>5, <1>6, <1>7, <1>8, <1>9, <1>10, <1>11, <1>12, <1>13, <1>14,
       <1>15
       DEF Next, Begins, Continues, ActionThread, Vchiq, VideoCore, Agents

-----------------------------------------------------------------------------
(* The invariant                                                           *)

\* The parts of the type invariant.
LEMMA TypeParts == TypeOK => BoolOK /\ ControlOK /\ DataOK
<1> SUFFICES ASSUME TypeOK PROVE BoolOK /\ ControlOK /\ DataOK
    OBVIOUS
<1>1. BoolOK
      BY DEF TypeOK, BoolOK
<1>2. pc \in [Agents -> AllPlaces]
      BY DEF TypeOK, AllPlaces, ActionPlaces
<1>3. ControlOK
      BY <1>2 DEF TypeOK, ControlOK
<1>4. DataOK
      BY DEF TypeOK, DataOK
<1> QED
    BY <1>1, <1>3, <1>4

\* With an exact counter the parts are all of it.
LEMMA TypeWhole == BoolOK /\ ControlOK /\ DataOK /\ CountInv => TypeOK
<1> SUFFICES ASSUME BoolOK, ControlOK, DataOK, CountInv PROVE TypeOK
    OBVIOUS
<1>1. transit \in Nat /\ sema \in 0..1
      BY Counted
<1>2. pc \in [Agents -> {"idle", "sending", "flushLock", "flushWait", "returning", "enableWait",
                          "clear", "disableLock", "disableWait", "drain", "drainFailed", "reenable",
                          "returnQueue", "transitPost", "waitEvent", "lockAction", "loop"}]
      BY DEF ControlOK, AllPlaces, ActionPlaces
<1> QED
    BY <1>1, <1>2 DEF TypeOK, BoolOK, ControlOK, DataOK

\* And so after a step.
LEMMA TypeAfter == BoolOK' /\ ControlOK' /\ DataOK' /\ CountInv' => TypeOK'
  BY TypeWhole, PTL

\* The program has every buffer when it starts.
LEMMA InitPlaces == Init => DataOK /\ PlaceInv /\ EventInv /\ RequestInv
<1> SUFFICES ASSUME Init PROVE DataOK /\ PlaceInv /\ EventInv /\ RequestInv
    OBVIOUS
<1>1. /\ taken = [t \in Threads |-> <<>>] /\ queue = <<>> /\ toHost = <<>> /\ callbackQueue = <<>>
      /\ item = [a \in Agents |-> None] /\ pc = [a \in Agents |-> IF a = Action THEN "waitEvent" ELSE "idle"]
      /\ atVC = {} /\ stale = {} /\ withClient = Buffers /\ vcOn = FALSE /\ request = "none" /\ reply = "none"
      BY DEF Init
<1>2. \A t \in Threads : t \in Agents /\ pc[t] = "idle"
      BY <1>1, PortAssumption DEF Agents
<1>3. DataOK
  <2>1. taken \in [Threads -> Seq(Buffers)]
        BY <1>1, EmptySeq, Zenon
  <2>2. queue \in Seq(Buffers) /\ toHost \in Seq(Items \union {"success", "failure"}) /\ callbackQueue \in Seq(Items)
        BY <1>1, EmptySeq, Zenon
  <2> QED
      BY <1>1, <2>1, <2>2 DEF DataOK
<1>4. Len(queue) = 0 /\ Len(toHost) = 0 /\ Len(callbackQueue) = 0 /\ \A t \in Threads : Len(taken[t]) = 0
      BY <1>1
<1>5. PlaceInv
  <2>1. PICK w \in [Buffers -> Kinds] : w = [b \in Buffers |-> "client"]
        BY DEF Kinds
  <2>2. Located(w)
        BY <1>1, <1>2, <1>4, <2>1 DEF Located
  <2>3. OnceInv
        BY <1>4 DEF OnceInv
  <2> QED
      BY <2>2, <2>3 DEF PlaceInv
<1>6. EventInv
  <2>1. Silent
        BY <1>1, <1>4, PortAssumption DEF Silent
  <2> QED
      BY <1>2, <2>1 DEF EventInv
<1>7. RequestInv
      BY <1>1, <1>2, <1>4 DEF RequestInv
<1> QED
    BY <1>3, <1>5, <1>6, <1>7

\* It holds when the program starts.
LEMMA InitInv == Init => PortInv
<1> SUFFICES ASSUME Init PROVE PortInv
    OBVIOUS
<1>1. DataOK /\ PlaceInv /\ EventInv /\ RequestInv
      BY InitPlaces
<1>2. \A t \in Threads : t \in Agents /\ t # Action /\ pc[t] = "idle"
      BY PortAssumption DEF Agents, Init
<1>3. pc[Action] = "waitEvent" /\ Action \in Agents /\ \A a \in Agents : item[a] = None /\ pc[a] \in {"waitEvent", "idle"}
      BY DEF Init, Agents
<1>4. BoolOK
      BY DEF Init, BoolOK
<1>5. ControlOK
      BY <1>3, PortAssumption DEF Init, ControlOK, AllPlaces, ActionPlaces
<1>6. PlacesOK
      BY <1>2, <1>3 DEF PlacesOK, ActionPlaces
<1>7. LockInv
  <2>1. portLock = None /\ sendLock = None /\ actionLock = None /\ None \notin Threads /\ None \notin Agents
        BY PortAssumption DEF Init, Agents
  <2>2. \A a \in Agents : pc[a] \notin HoldsAction
        BY <1>3 DEF HoldsAction
  <2> QED
      BY <1>2, <2>1, <2>2 DEF LockInv, HoldsPort, HoldsSend, Disabling
<1>8. PhaseInv
      BY <1>2 DEF Init, PhaseInv, HoldsSend, Disabling
<1>9. ItemInv
      BY <1>3, PortAssumption DEF ItemInv
<1>10. Calling = {} /\ Out = {} /\ Back = {} /\ Posting = {}
      BY <1>2, <1>3 DEF Init, Calling, Out, Back, Posting
<1>11. CountInv
  <2>1. transit = 0 /\ sema = 1
        BY DEF Init
  <2>2. IsFiniteSet({}) /\ Cardinality({}) = 0
        BY FS_EmptySet
  <2>3. transit = Cardinality(Out) + Cardinality(Back)
        BY <1>10, <2>1, <2>2
  <2> QED
      BY <1>10, <2>1, <2>2, <2>3 DEF CountInv, TransitExact, Out, Back, Posting
<1>12. RestInv
      BY DEF Init, RestInv
<1> QED
    BY <1>1, <1>4, <1>5, <1>6, <1>7, <1>8, <1>9, <1>11, <1>12, TypeWhole DEF PortInv

\* Every step keeps it.
LEMMA StepInv == PortInv /\ [Next]_vars => PortInv'
<1> SUFFICES ASSUME PortInv, [Next]_vars PROVE PortInv'
    OBVIOUS
<1>1. /\ BoolOK /\ ControlOK /\ DataOK /\ PlacesOK /\ LockInv /\ PhaseInv /\ RequestInv /\ ItemInv
      /\ PlaceInv /\ CountInv /\ RestInv /\ EventInv
      BY TypeParts DEF PortInv
<1>2. BoolOK' /\ ControlOK' /\ DataOK' /\ PlacesOK'
      BY <1>1, BoolStep, ControlStep, DataStep, PlacesStep
<1>3. LockInv' /\ PhaseInv' /\ ItemInv' /\ RequestInv'
      BY <1>1, LockStep, PhaseStep, ItemStep, RequestStep
<1>4. PlaceInv' /\ CountInv' /\ RestInv' /\ EventInv'
      BY <1>1, PlaceStep, CountStep, RestStep, EventStep
<1> QED
    BY <1>2, <1>3, <1>4, TypeAfter DEF PortInv

\* A port is always as the invariant says.
LEMMA Invariant == Spec => []PortInv
<1>1. Init => PortInv
      BY InitInv
<1>2. PortInv /\ [Next]_vars => PortInv'
      BY StepInv
<1> QED
    BY <1>1, <1>2, PTL DEF Spec

-----------------------------------------------------------------------------
(* What a port promises                                                    *)

(* Every variable stays in its range; transit_buffer_headers is never      *)
(* negative, and the semaphore is a mutex.                                 *)
THEOREM TypeCorrect == Spec => []TypeOK
<1>1. PortInv => TypeOK
      BY DEF PortInv
<1> QED
    BY <1>1, Invariant, PTL

(* IN_TRANSIT_INCREMENT and IN_TRANSIT_DECREMENT count what they should,   *)
(* whichever threads send, flush, disable and call back.                   *)
THEOREM CounterExact == Spec => []TransitExact
<1>1. PortInv => TransitExact
      BY DEF PortInv, CountInv
<1> QED
    BY <1>1, Invariant, PTL

\* With nothing in transit and no event in a hand nobody calls back.
LEMMA Resting ==
  ASSUME DataOK, CountInv, transit = 0, \A a \in Agents : item[a] # Event
  PROVE  Out = {} /\ Calling = {} /\ Cardinality(Calling) = 0
<1>1. Cardinality(Out) = 0 /\ Cardinality(Back) = 0
      BY Counted
<1>2. Out = {} /\ Back = {}
      BY <1>1, Counted, FS_EmptySet
<1>3. Calling = Back
      BY DEF Calling, Back, DataOK, Items
<1> QED
    BY <1>2, <1>3, FS_EmptySet

(* The callback is never called through when mmal_port_disable has reset   *)
(* it, nor before the port was enabled for the first time.                 *)
THEOREM CallbackSet == Spec => []NoNullCallback
<1>1. PortInv => NoNullCallback
  <2> SUFFICES ASSUME PortInv, ~callback PROVE Calling = {}
      BY DEF NoNullCallback
  <2>1. portLock = None /\ ~isEnabled
        BY DEF PortInv, PhaseInv
  <2>2. transit = 0 /\ Silent
        BY <2>1 DEF PortInv, RestInv, EventInv
  <2> QED
      BY <2>2, Resting, TypeParts DEF PortInv, Silent
<1> QED
    BY <1>1, Invariant, PTL

\* The steps that turn the port or take its pool, and the others: none of
\* them changes is_enabled, and the connection lock only when it is on.
Turning == \E t \in Threads : \/ EnableAsk(t) \/ Enabled(t) \/ EnableFails(t)
                              \/ Clear(t) \/ DisableAnswered(t) \/ Reenable(t) \/ Disabled(t)
NotTurning == /\ UNCHANGED <<isEnabled, pool>> /\ (isEnabled \/ portLock' = portLock)
              /\ \A t \in Threads : pc'[t] = "enableWait" <=> pc[t] = "enableWait"

\* Only these steps turn it.
LEMMA WhatTurns ==
  ASSUME ControlOK, [Next]_vars
  PROVE  Turning \/ NotTurning
<1> USE DEF Goes, Agents, ControlOK, NotTurning, coreVars, transitVars, lockVars, hostVars, vcVars
<1>1. ASSUME NEW u \in Threads, NEW b \in Buffers, BeginSend(u, b) PROVE Turning \/ NotTurning
      BY <1>1 DEF BeginSend, Increment
<1>2. ASSUME NEW u \in Threads, SendPaused(u) \/ SendToVC(u) \/ SendFails(u)
      PROVE  Turning \/ NotTurning
      BY <1>2 DEF SendPaused, EndSend, SendToVC, SendFails, Decrement
<1>3. ASSUME NEW u \in Threads, Pause(u) \/ Resume(u) PROVE Turning \/ NotTurning
      BY <1>3 DEF Pause, Resume
<1>4. ASSUME NEW u \in Threads, FlushLock(u) \/ FlushDisabled(u) \/ FlushAsk(u) \/ FlushAnswered(u)
             \/ FlushReturns(u)
      PROVE  Turning \/ NotTurning
      BY <1>4 DEF FlushLock, FlushDisabled, FlushAsk, Ask, FlushAnswered, Answered, FlushReturns
<1>5. ASSUME NEW u \in Threads, EnableAsk(u) PROVE Turning \/ NotTurning
      BY <1>5 DEF Turning
<1>6. ASSUME NEW u \in Threads, Enabled(u) PROVE Turning \/ NotTurning
      BY <1>6 DEF Turning
<1>7. ASSUME NEW u \in Threads, EnableFails(u) PROVE Turning \/ NotTurning
      BY <1>7 DEF Turning
<1>8. ASSUME NEW u \in Threads, DisableLock(u) \/ DisableAsk(u) \/ Drained(u) \/ TransitWait(u)
      PROVE  Turning \/ NotTurning
      BY <1>8 DEF DisableLock, DisableAsk, Ask, Drained, TransitWait
<1>9. ASSUME NEW u \in Threads, Clear(u) PROVE Turning \/ NotTurning
      BY <1>9 DEF Turning
<1>10. ASSUME NEW u \in Threads, DisableAnswered(u) PROVE Turning \/ NotTurning
      BY <1>10 DEF Turning
<1>11. ASSUME NEW u \in Threads, Reenable(u) PROVE Turning \/ NotTurning
      BY <1>11 DEF Turning
<1>12. ASSUME NEW u \in Threads, Disabled(u) PROVE Turning \/ NotTurning
      BY <1>12 DEF Turning
<1>13. ASSUME NEW a \in Agents, CallQueued(a) \/ CallReturns(a) PROVE Turning \/ NotTurning
      BY <1>13 DEF CallQueued, Calls, CallReturns, Decrement
<1>14. ASSUME NEW u \in Threads, CallTaken(u) PROVE Turning \/ NotTurning
      BY <1>14 DEF CallTaken, Calls
<1>15. CASE ActionWakes \/ ActionLocks \/ ActionDone
      BY <1>15 DEF ActionWakes, ActionLocks, ActionDone
<1>16. CASE HostBuffer \/ Trigger \/ HostReply
      BY <1>16 DEF HostBuffer, Trigger, HostReply
<1>17. ASSUME NEW b \in Buffers, VCReturn(b) PROVE Turning \/ NotTurning
      BY <1>17 DEF VCReturn, VCSends
<1>18. CASE VCEvent \/ VCAnswer \/ VCRefuses
      BY <1>18 DEF VCEvent, VCSends, VCAnswer, VCRefuses
<1>19. CASE UNCHANGED vars
      BY <1>19 DEF vars
<1> QED
    BY <1>1, <1>2, <1>3, <1>4, <1>5, <1>6, <1>7, <1>8, <1>9, <1>10, <1>11, <1>12, <1>13, <1>14,
       <1>15, <1>16, <1>17, <1>18, <1>19
       DEF Next, Begins, Continues, ActionThread, Vchiq, VideoCore, Agents

(* The assertion of mmal_vc_port_disable: when VideoCore has agreed to the *)
(* disable every buffer is back, and no client context is in use when the  *)
(* pool is deleted.                                                        *)
THEOREM PoolIdle == Spec => PoolIdleWhenDeleted
<1>1. PortInv /\ [Next]_vars
         => [pool = "live" /\ pool' # "live" /\ reply # "failure" => InFlight = {}]_vars
  <2> SUFFICES ASSUME PortInv, [Next]_vars, pool = "live", pool' # "live", reply # "failure"
               PROVE  InFlight = {}
      OBVIOUS
  <2>1. PICK t \in Threads : DisableAnswered(t) /\ reply = "success" /\ pc[t] = "disableWait"
    <3>1. Turning
          BY WhatTurns, TypeParts DEF PortInv, NotTurning
    <3> QED
        BY <3>1 DEF Turning, EnableAsk, Enabled, EnableFails, Clear, DisableAnswered, Reenable,
           Disabled,
                    Answered, Goes
  <2>2. atVC = {} /\ toHost = <<>>
        BY <2>1 DEF PortInv, EventInv
  <2>3. ToSet(toHost) = {}
        BY <2>2 DEF ToSet
  <2> QED
      BY <2>2, <2>3 DEF InFlight
<1> QED
    BY <1>1, Invariant, PTL DEF Spec, PoolIdleWhenDeleted

-----------------------------------------------------------------------------
(* The port implements PortContract                                        *)

\* the contract's state of the port
State == IF isEnabled THEN "enabled"
         ELSE IF \E t \in Threads : pc[t] = "enableWait" THEN "enabling"
         ELSE IF \E t \in Threads : pc[t] \in Disabling THEN "disabling"
         ELSE "disabled"

\* The state follows from who has the connection lock, and where he is.
StateOf == /\ isEnabled => State = "enabled"
           /\ ~isEnabled /\ portLock = None => State = "disabled"
           /\ \A t \in Threads : pc[t] = "enableWait" => State = "enabling" /\ portLock = t
           /\ \A t \in Threads : pc[t] \in Disabling => State = "disabling" /\ portLock = t

LEMMA States == ControlOK /\ LockInv /\ PhaseInv => StateOf
<1> SUFFICES ASSUME ControlOK, LockInv, PhaseInv PROVE StateOf
    OBVIOUS
<1>1. None \notin Threads
      BY PortAssumption
<1>2. \A t \in Threads : pc[t] = "enableWait" \/ pc[t] \in Disabling => portLock = t /\ ~isEnabled
      BY DEF LockInv, PhaseInv, HoldsPort
<1>3. isEnabled => State = "enabled"
      BY DEF State
<1>4. ~isEnabled /\ portLock = None => State = "disabled"
      BY <1>1, <1>2 DEF State
<1>5. \A t \in Threads : pc[t] = "enableWait" => State = "enabling" /\ portLock = t
      BY <1>2 DEF State
<1>6. \A t \in Threads : pc[t] \in Disabling => State = "disabling" /\ portLock = t
  <2> SUFFICES ASSUME NEW t \in Threads, pc[t] \in Disabling PROVE State = "disabling"
                      /\ portLock = t
      OBVIOUS
  <2>1. portLock = t /\ ~isEnabled
        BY <1>2
  <2>2. \A u \in Threads : pc[u] # "enableWait"
        BY <1>2, <2>1 DEF Disabling
  <2> QED
      BY <2>1, <2>2 DEF State
<1> QED
    BY <1>3, <1>4, <1>5, <1>6 DEF StateOf

\* And so after a step.
LEMMA StatesAfter == ControlOK' /\ LockInv' /\ PhaseInv' => StateOf'
  BY States, PTL

\* The parts of the type invariant after a step.
LEMMA TypePartsAfter == TypeOK' => BoolOK' /\ ControlOK' /\ DataOK'
  BY TypeParts, PTL

\* A step that does not turn the port leaves its state.
LEMMA StateKept ==
  ASSUME PortInv, PortInv', NotTurning
  PROVE  State' = State
<1>1. StateOf /\ StateOf'
      BY States, StatesAfter, TypeParts, TypePartsAfter DEF PortInv
<1>2. CASE isEnabled
      BY <1>1, <1>2 DEF StateOf, NotTurning
<1>3. CASE ~isEnabled /\ portLock = None
      BY <1>1, <1>3 DEF StateOf, NotTurning
<1>4. CASE ~isEnabled /\ portLock # None
  <2>1. PICK t \in Threads : portLock = t
        BY <1>4 DEF PortInv, TypeOK
  <2>2. portLock' = t /\ ~isEnabled'
        BY <1>4, <2>1 DEF NotTurning
  <2>3. pc[t] \in HoldsPort \ {"clear"} /\ pc'[t] \in HoldsPort \ {"clear"}
        BY <1>4, <2>1, <2>2 DEF PortInv, LockInv, PhaseInv
  <2>4. CASE pc[t] = "enableWait"
        BY <1>1, <2>4 DEF StateOf, NotTurning
  <2>5. CASE pc[t] # "enableWait"
    <3>1. pc[t] \in Disabling /\ pc'[t] \in Disabling
          BY <2>3, <2>5 DEF NotTurning, HoldsPort
    <3> QED
        BY <1>1, <3>1 DEF StateOf
  <2> QED
      BY <2>4, <2>5
<1> QED
    BY <1>2, <1>3, <1>4

\* A port that is off has neither buffers nor callbacks.
LEMMA OffIsIdle ==
  ASSUME PortInv, State = "disabled"
  PROVE  Out = {} /\ Calling = {} /\ Silent
<1>1. StateOf
      BY States, TypeParts DEF PortInv
<1>2. ~isEnabled /\ portLock = None
  <2>1. ~isEnabled
        BY <1>1 DEF StateOf
  <2>2. \A t \in Threads : pc[t] \notin HoldsPort \ {"clear"}
        BY <1>1 DEF StateOf, HoldsPort
  <2>3. \A t \in Threads : pc[t] # "clear"
        BY <2>1 DEF PortInv, PhaseInv
  <2> QED
      BY <2>1, <2>2, <2>3 DEF PortInv, LockInv, TypeOK
<1>3. transit = 0 /\ Silent
      BY <1>2 DEF PortInv, RestInv, EventInv
<1> QED
    BY <1>3, Resting, TypeParts DEF PortInv, Silent

\* A step that turns the port gives and takes no buffer.
LEMMA TurningKeeps == ControlOK /\ Turning => UNCHANGED <<Out, Calling>>
  BY DEF Turning, EnableAsk, Enabled, EnableFails, Clear, DisableAnswered, Reenable, Disabled, Goes,
         Out, Calling, ControlOK, Agents

\* Nor does one that waits for the semaphore.
LEMMA WaitKeeps ==
  ASSUME ControlOK, NEW t \in Threads, TransitWait(t) \/ Disabled(t)
  PROVE  UNCHANGED <<Out, Calling>>
  BY DEF TransitWait, Disabled, Goes, Out, Calling, ControlOK, Agents

\* A step that turns the port is a step of the contract.
LEMMA TurningImplements ==
  ASSUME PortInv, PortInv', Turning
  PROVE  \/ UNCHANGED <<State, Out, Calling>>
         \/ Contract!Enable \/ Contract!Disable
<1> USE DEF Goes
<1>1. StateOf /\ StateOf' /\ UNCHANGED <<Out, Calling, Cardinality(Calling)>>
      BY States, StatesAfter, TypeParts, TypePartsAfter, TurningKeeps DEF PortInv
<1>2. ControlOK /\ \A t \in Threads : t \in Agents
      BY TypeParts DEF PortInv, Agents
<1>3. ASSUME NEW t \in Threads, EnableAsk(t) PROVE State = "disabled" /\ State' = "enabling"
  <2>1. ~isEnabled /\ portLock = None /\ pc'[t] = "enableWait"
        BY <1>2, <1>3 DEF EnableAsk, ControlOK
  <2> QED
      BY <1>1, <2>1 DEF StateOf
<1>4. ASSUME NEW t \in Threads, Enabled(t) PROVE State = "enabling" /\ State' = "enabled"
      BY <1>1, <1>4 DEF Enabled, StateOf
<1>5. ASSUME NEW t \in Threads, EnableFails(t)
      PROVE  State = "enabling" /\ State' = "disabled" /\ Cardinality(Calling) = 0
  <2>1. pc[t] = "enableWait" /\ portLock' = None /\ isEnabled' = isEnabled /\ reply = "failure"
        BY <1>5 DEF EnableFails, Answered, coreVars
  <2>2. ~isEnabled /\ transit = 0 /\ (Granted \/ Silent)
        BY <2>1 DEF PortInv, PhaseInv, RestInv, EventInv
  <2>3. ~Granted
        BY <2>1 DEF Granted, PortInv, RequestInv, Answers
  <2> QED
      BY <1>1, <2>1, <2>2, <2>3, Resting, TypeParts DEF StateOf, PortInv, Silent
<1>6. ASSUME NEW t \in Threads, Clear(t) PROVE State = "enabled" /\ State' = "disabling"
  <2>1. isEnabled /\ pc'[t] \in Disabling
        BY <1>2, <1>6 DEF Clear, ControlOK, PortInv, PhaseInv, Disabling
  <2> QED
      BY <1>1, <2>1 DEF StateOf
<1>7. ASSUME NEW t \in Threads, DisableAnswered(t) PROVE State = "disabling" /\ State' = "disabling"
  <2>1. pc[t] \in Disabling /\ pc'[t] \in Disabling
        BY <1>2, <1>7 DEF DisableAnswered, ControlOK, Disabling
  <2> QED
      BY <1>1, <2>1 DEF StateOf
<1>8. ASSUME NEW t \in Threads, Reenable(t) PROVE State = "disabling" /\ State' = "enabled"
      BY <1>1, <1>8 DEF Reenable, StateOf, Disabling
<1>9. ASSUME NEW t \in Threads, Disabled(t)
      PROVE  State = "disabling" /\ State' = "disabled" /\ Out = {} /\ Cardinality(Calling) = 0
  <2>1. pc[t] = "transitPost" /\ portLock' = None /\ isEnabled' = isEnabled
        BY <1>9 DEF Disabled
  <2>2. ~isEnabled /\ transit = 0 /\ Silent
        BY <2>1 DEF PortInv, PhaseInv, RestInv, EventInv, Disabling
  <2> QED
      BY <1>1, <2>1, <2>2, Resting, TypeParts DEF StateOf, PortInv, Silent, Disabling
<1>10. \/ /\ State = "disabled" /\ State' = "enabling"
       \/ /\ State = "enabling" /\ State' = "enabled"
       \/ /\ State = "enabling" /\ State' = "disabled" /\ Cardinality(Calling) = 0
       \/ /\ State = "enabled" /\ State' = "disabling"
       \/ State' = State
       \/ /\ State = "disabling" /\ State' = "enabled"
       \/ /\ State = "disabling" /\ State' = "disabled" /\ Out = {} /\ Cardinality(Calling) = 0
      BY <1>3, <1>4, <1>5, <1>6, <1>7, <1>8, <1>9 DEF Turning
<1> QED
    BY <1>1, <1>10 DEF Contract!Enable, Contract!Disable, Contract!Moves, State, Out

\* A callback that begins is one of the contract, or nobody is called.
LEMMA CallsImplement ==
  ASSUME PortInv, NEW a, NEW x, CallsWith(a, x), State # "disabled", State' = State
  PROVE  UNCHANGED <<State, Out, Calling>> \/ Contract!BeginCallback
<1>1. CASE Calling' = Calling \union {a}
  <2>1. Cardinality(Calling') = Cardinality(Calling) + 1
        BY <1>1, FS_AddElement DEF CallsWith, PortInv, CountInv
  <2>2. Out' = Out \/ \E b \in Out : Out' = Out \ {b}
        BY DEF CallsWith
  <2> QED
      BY <2>1, <2>2 DEF Contract!BeginCallback, State, Out
<1> QED
    BY <1>1 DEF CallsWith

\* A step that does not turn it is one too.
LEMMA OthersImplement ==
  ASSUME PortInv, PortInv', [Next]_vars, NotTurning
  PROVE  \/ UNCHANGED <<State, Out, Calling>>
         \/ Contract!BeginCallback \/ Contract!EndCallback
         \/ \E b \in Buffers : Contract!Accept(b) \/ Contract!Refuse(b)
<1>1. State' = State /\ StateOf
      BY StateKept, States, TypeParts DEF PortInv
<1>2. ControlOK /\ DataOK
      BY TypeParts DEF PortInv
<1>3. ASSUME NEW t \in Threads, NEW b \in Buffers, BeginSend(t, b) PROVE Contract!Accept(b)
  <2>1. State = "enabled"
        BY <1>1, <1>3 DEF BeginSend, StateOf
  <2>2. Out' = Out \union {b} /\ b \notin Out /\ Calling' = Calling
        BY <1>2, <1>3, SendBegins DEF PortInv
  <2> QED
      BY <1>1, <2>1, <2>2 DEF Contract!Accept, State, Out
<1>4. ASSUME NEW t \in Threads, SendFails(t) PROVE Contract!Refuse(item[t]) /\ item[t] \in Buffers
  <2>1. State = "enabled"
        BY <1>1, <1>4 DEF SendFails, EndSend, Goes, StateOf, PortInv, PhaseInv, HoldsSend
  <2>2. Out' = Out \ {item[t]} /\ item[t] \in Out /\ Calling' = Calling
        BY <1>2, <1>4, SendEndsInFailure DEF PortInv
  <2> QED
      BY <1>1, <2>1, <2>2 DEF Contract!Refuse, State, Out
<1>5. ASSUME NEW a \in Agents, CallQueued(a)
      PROVE  UNCHANGED <<State, Out, Calling>> \/ Contract!BeginCallback
  <2>1. CallsWith(a, Head(callbackQueue)) /\ callbackQueue # <<>>
        BY <1>2, <1>5, QueuedCallBegins DEF PortInv
  <2>2. Head(callbackQueue) = callbackQueue[1] /\ 1 \in 1..Len(callbackQueue)
        BY <1>2, <2>1, TailOf DEF DataOK
  <2>3. State # "disabled"
        BY <2>1, <2>2, OffIsIdle DEF CallsWith, Silent
  <2> QED
      BY <1>1, <2>1, <2>3, CallsImplement
<1>6. ASSUME NEW t \in Threads, CallTaken(t)
      PROVE  UNCHANGED <<State, Out, Calling>> \/ Contract!BeginCallback
  <2>1. CallsWith(t, Head(taken[t])) /\ Head(taken[t]) # Event
        BY <1>2, <1>6, TakenCallBegins DEF PortInv
  <2>2. State # "disabled"
        BY <2>1, OffIsIdle DEF CallsWith
  <2> QED
      BY <1>1, <2>1, <2>2, CallsImplement
<1>7. ASSUME NEW a \in Agents, CallReturns(a) PROVE Contract!EndCallback
  <2>1. a \in Calling /\ Calling' = Calling \ {a} /\ Out' = Out
        BY <1>2, <1>7, CallEnds
  <2>2. IsFiniteSet(Calling)
        BY DEF PortInv, CountInv
  <2>3. /\ Cardinality(Calling') = Cardinality(Calling) - 1
        /\ Cardinality(Calling) # 0 /\ Cardinality(Calling) \in Nat
        BY <2>1, <2>2, FS_RemoveElement, FS_EmptySet, FS_CardinalityType
  <2> QED
      BY <1>1, <2>1, <2>3 DEF Contract!EndCallback, State, Out
<1>8. ASSUME NEW t \in Threads, TransitWait(t) \/ Disabled(t) PROVE UNCHANGED <<State, Out,
             Calling>>
      BY <1>1, <1>2, <1>8, WaitKeeps
<1>9. CASE NotCounting
      BY <1>1, <1>9 DEF NotCounting
<1> QED
    BY <1>2, <1>3, <1>4, <1>5, <1>6, <1>7, <1>8, <1>9, WhatCounts DEF Counting

(* The port does what PortContract says and no more, whatever fails: it    *)
(* takes buffers only while it is enabled, gives each one back by one      *)
(* callback, and holds none and calls nobody when a disable has succeeded. *)
THEOREM PortImplements == Spec => ImplementsContract
<1>1. Init => Contract!Init
  <2> SUFFICES ASSUME Init PROVE Contract!Init
      OBVIOUS
  <2>1. State = "disabled"
        BY PortAssumption DEF Init, State, Disabling, Agents
  <2>2. PortInv
        BY InitInv
  <2>3. Out = {} /\ Calling = {}
        BY <2>1, <2>2, OffIsIdle
  <2>4. Cardinality(Calling) = 0
        BY <2>3, FS_EmptySet
  <2> QED
      BY <2>1, <2>3, <2>4 DEF Contract!Init, State, Out
<1>2. PortInv /\ PortInv' /\ [Next]_vars => [Contract!Next]_(Contract!vars)
  <2> SUFFICES ASSUME PortInv, PortInv', [Next]_vars PROVE [Contract!Next]_(Contract!vars)
      OBVIOUS
  <2>1. Turning \/ NotTurning
        BY WhatTurns, TypeParts DEF PortInv
  <2>2. UNCHANGED <<State, Out, Calling>> \/ Contract!Next
        BY <2>1, TurningImplements, OthersImplement DEF Contract!Next
  <2>3. UNCHANGED <<State, Out, Calling>> => UNCHANGED Contract!vars
        BY DEF Contract!vars, State, Out
  <2> QED
      BY <2>2, <2>3
<1> QED
    BY <1>1, <1>2, Invariant, PTL DEF Spec, ImplementsContract, Contract!Spec

-----------------------------------------------------------------------------
\* Without failures no context outlives its pool.
LEMMA SoundStep ==
  ASSUME DataOK, EventInv, ~Failures, SoundInv, [Next]_vars
  PROVE  SoundInv'
<1> USE PortAssumption DEF SoundInv, coreVars, transitVars, lockVars, hostVars, vcVars
<1>1. ASSUME NEW u \in Threads, NEW b \in Buffers, BeginSend(u, b) PROVE SoundInv'
      BY <1>1 DEF BeginSend, Increment
<1>2. ASSUME NEW u \in Threads, SendPaused(u) \/ SendToVC(u) \/ SendFails(u) PROVE SoundInv'
      BY <1>2 DEF SendPaused, EndSend, SendToVC, SendFails, Decrement
<1>3. ASSUME NEW u \in Threads, Pause(u) \/ Resume(u) PROVE SoundInv'
      BY <1>3 DEF Pause, Resume
<1>4. ASSUME NEW u \in Threads, FlushLock(u) \/ FlushDisabled(u) \/ FlushAsk(u) \/ FlushAnswered(u)
             \/ FlushReturns(u)
      PROVE  SoundInv'
      BY <1>4 DEF FlushLock, FlushDisabled, FlushAsk, Ask, FlushAnswered, Answered, FlushReturns
<1>5. ASSUME NEW u \in Threads, EnableAsk(u) \/ Enabled(u) \/ EnableFails(u) PROVE SoundInv'
      BY <1>5 DEF EnableAsk, Ask, Enabled, Answered, EnableFails
<1>6. ASSUME NEW u \in Threads, DisableLock(u) \/ Clear(u) \/ DisableAsk(u) \/ Drained(u) \/
             Reenable(u) \/ TransitWait(u) \/ Disabled(u)
      PROVE  SoundInv'
      BY <1>6 DEF DisableLock, Clear, DisableAsk, Ask, Drained, Reenable, TransitWait, Disabled
<1>7. ASSUME NEW u \in Threads, DisableAnswered(u) PROVE SoundInv'
  <2>1. reply # "failure" /\ reply = "success" /\ pc[u] = "disableWait"
        BY <1>7 DEF DisableAnswered, Answered, Goes
  <2>2. atVC = {} /\ toHost = <<>>
        BY <2>1 DEF EventInv
  <2>3. ToSet(toHost) = {}
        BY <2>2 DEF ToSet
  <2>4. InFlight = {}
        BY <2>2, <2>3 DEF InFlight
  <2>5. stale' = {} /\ UNCHANGED <<toHost, aborted>> /\ reply' = "none"
        BY <1>7, <2>4 DEF DisableAnswered, Answered
  <2> QED
      BY <2>5
<1>8. ASSUME NEW a \in Agents, CallQueued(a) \/ CallReturns(a) PROVE SoundInv'
      BY <1>8 DEF CallQueued, Calls, CallReturns, Decrement
<1>9. ASSUME NEW u \in Threads, CallTaken(u) PROVE SoundInv'
      BY <1>9 DEF CallTaken, Calls
<1>10. CASE ActionWakes \/ ActionLocks \/ ActionDone
      BY <1>10 DEF ActionWakes, ActionLocks, ActionDone
<1>11. CASE HostBuffer
  <2>1. toHost' = Tail(toHost) /\ toHost # <<>>
        BY <1>11 DEF HostBuffer
  <2>2. toHost[1] # "failure" /\ Head(toHost) = toHost[1]
        /\ \A i \in 1..Len(toHost') : i + 1 \in 1..Len(toHost) /\ toHost'[i] = toHost[i + 1]
        BY <2>1, Leaves
  <2>3. \A i \in 1..Len(toHost') : toHost'[i] # "failure"
        BY <2>2
  <2>4. reply' # "failure" /\ stale' = {} /\ ~aborted'
        BY <1>11, <2>2 DEF HostBuffer
  <2> QED
      BY <2>3, <2>4
<1>12. CASE Trigger
      BY <1>12 DEF Trigger
<1>13. CASE HostReply
  <2>1. toHost' = Tail(toHost) /\ toHost # <<>>
        BY <1>13 DEF HostReply
  <2>2. toHost[1] # "failure" /\ Head(toHost) = toHost[1]
        /\ \A i \in 1..Len(toHost') : i + 1 \in 1..Len(toHost) /\ toHost'[i] = toHost[i + 1]
        BY <2>1, Leaves
  <2>3. \A i \in 1..Len(toHost') : toHost'[i] # "failure"
        BY <2>2
  <2>4. reply' # "failure" /\ stale' = {} /\ ~aborted'
        BY <1>13, <2>2 DEF HostReply
  <2> QED
      BY <2>3, <2>4
<1>14. ASSUME NEW b \in Buffers, VCReturn(b) PROVE SoundInv'
  <2>1. \A i \in 1..Len(toHost') : \/ i \in 1..Len(toHost) /\ toHost'[i] = toHost[i]
                                   \/ i = Len(toHost) + 1 /\ toHost'[i] = b
        BY <1>14, Arrives DEF VCReturn, VCSends
  <2>2. b # "failure" /\ UNCHANGED <<reply, stale, aborted>>
        BY <1>14 DEF VCReturn, VCSends, Event
  <2> QED
      BY <2>1, <2>2
<1>15. CASE VCEvent
  <2>1. \A i \in 1..Len(toHost') : \/ i \in 1..Len(toHost) /\ toHost'[i] = toHost[i]
                                   \/ i = Len(toHost) + 1 /\ toHost'[i] = Event
        BY <1>15, Arrives DEF VCEvent, VCSends
  <2>2. Event # "failure" /\ UNCHANGED <<reply, stale, aborted>>
        BY <1>15 DEF VCEvent, VCSends, Event
  <2> QED
      BY <2>1, <2>2
<1>16. CASE VCAnswer
  <2>1. \A i \in 1..Len(toHost') : \/ i \in 1..Len(toHost) /\ toHost'[i] = toHost[i]
                                   \/ i = Len(toHost) + 1 /\ toHost'[i] = "success"
        BY <1>16, Arrives DEF VCAnswer, VCSends
  <2>2. "success" # "failure" /\ UNCHANGED <<reply, stale, aborted>>
        BY <1>16 DEF VCAnswer, VCSends, Event
  <2> QED
      BY <2>1, <2>2
<1>17. CASE VCRefuses
      BY <1>17 DEF VCRefuses
<1>18. CASE UNCHANGED vars
      BY <1>18 DEF vars
<1> QED
    BY <1>1, <1>2, <1>3, <1>4, <1>5, <1>6, <1>7, <1>8, <1>9, <1>10, <1>11, <1>12, <1>13, <1>14,
       <1>15, <1>16, <1>17, <1>18
       DEF Next, Begins, Continues, ActionThread, Vchiq, VideoCore, Agents

(* A context is used after its pool is gone only when a message to         *)
(* VideoCore or an answer has failed: as long as none does, the program    *)
(* never ends in mmal_vc_port_send_callback.                               *)
THEOREM AbortsOnlyAfterFailure == Spec => [](~Failures => ~aborted /\ stale = {})
<1>1. Init => SoundInv
  <2>1. Init => Len(toHost) = 0
        BY DEF Init
  <2> QED
      BY <2>1 DEF Init, SoundInv
<1>2. PortInv /\ SoundInv /\ [Next]_vars => SoundInv'
  <2>1. CASE Failures
        BY <2>1 DEF SoundInv
  <2>2. CASE ~Failures
        BY <2>2, SoundStep, TypeParts DEF PortInv
  <2> QED
      BY <2>1, <2>2
<1>3. SoundInv => (~Failures => ~aborted /\ stale = {})
      BY DEF SoundInv
<1> QED
    BY <1>1, <1>2, <1>3, Invariant, PTL DEF Spec
=============================================================================
