--------------------------- MODULE Session_proofs ---------------------------
(***************************************************************************)
(* The safety of a call, for any pages and any sessions.                   *)
(***************************************************************************)
EXTENDS Session, SequenceTheorems, TLAPS

\* TypeOK in two parts: the server's PeerConnections, and everything else.
Sigs    == {"none", "offer", "stable", "closed"}
PeerCon == [sig : Sigs, remote : Sessions \union {None}, gathered : BOOLEAN,
            conn : {"new", "up", "down"}, stray : BOOLEAN]
PeersOK == pc \in [Sessions -> PeerCon]
RestOK  ==
    /\ signalObj \in [Pages -> Sessions \union {None}]
    /\ owner \in [Sessions -> Pages \union {None}]
    /\ sock \in [Sessions -> {"unused", "connecting", "open", "closed"}]
    /\ bpc \in [Sessions -> {"none", "new", "remote", "local", "candidates", "closed"}]
    /\ up \in [Sessions -> Seq(Messages)] /\ down \in [Sessions -> {<<>>, <<"offer">>}]
    /\ srv \in [Sessions -> {"none", "open", "deleted"}]
    /\ building \in Sessions \union {None}
    /\ client \in Sessions \union {None}
    /\ adding \in Sessions \union {None}
    /\ iter \in Sessions \union {None}
    /\ linking \in BOOLEAN
    /\ dangling \in BOOLEAN
    /\ loop \in {"idle", "copy", "body", "next"}
    /\ tasks \in Seq(Sessions) /\ onCamBuffer \in {"empty", "assigning", "set"}
    /\ crashed \in {"no", "call", "map"}
    /\ ready \subseteq Sessions /\ tracks \subseteq Sessions /\ sent \subseteq Sessions

\* an offer under way is one that gathering has made
OfferMade == \A s \in Sessions : down[s] # <<>> => pc[s].gathered

Typed == PeersOK /\ RestOK /\ OfferMade

\* The parts are the whole.
LEMMA TypedIsTypeOK == Typed => TypeOK
  BY DEF Typed, TypeOK, PeersOK, RestOK, PeerCon, Sigs

\* An assignment to one field of one PeerConnection.
Sig(c, v)   == \A t \in Sessions : pc'[t].sig = IF t = c THEN v ELSE pc[t].sig
Conn(c, v)  == \A t \in Sessions : pc'[t].conn = IF t = c THEN v ELSE pc[t].conn
Stray(c)    == \A t \in Sessions : t # c => pc'[t].stray = pc[t].stray
Gathered(c) == \A t \in Sessions : (t = c \/ pc[t].gathered) => pc'[t].gathered
Same(field) == \A t \in Sessions : pc'[t][field] = pc[t][field]

\* Setting a signaling state.
LEMMA SetSig ==
  ASSUME PeersOK, NEW c \in Sessions, NEW v \in Sigs, pc' = [pc EXCEPT ![c].sig = v]
  PROVE  PeersOK' /\ Sig(c, v) /\ Same("remote") /\ Same("gathered") /\ Same("conn") /\ Same("stray")
<1>1. \A r \in PeerCon : LET q == [r EXCEPT !.sig = v] IN
        /\ q \in PeerCon /\ q.sig = v
        /\ q.remote = r.remote /\ q.gathered = r.gathered /\ q.conn = r.conn /\ q.stray = r.stray
      BY DEF PeerCon
<1> QED
    BY <1>1 DEF PeersOK, Sig, Same

\* Setting the remote description.
LEMMA SetAnswer ==
  ASSUME PeersOK, NEW c \in Sessions, NEW s \in Sessions,
         pc' = [pc EXCEPT ![c].sig = "stable", ![c].remote = s]
  PROVE  PeersOK' /\ Sig(c, "stable") /\ Same("gathered") /\ Same("conn") /\ Same("stray")
<1>1. \A r \in PeerCon : LET q == [r EXCEPT !.sig = "stable", !.remote = s] IN
        /\ q \in PeerCon /\ q.sig = "stable"
        /\ q.gathered = r.gathered /\ q.conn = r.conn /\ q.stray = r.stray
      BY DEF PeerCon, Sigs
<1>2. pc' = [pc EXCEPT ![c] = [pc[c] EXCEPT !.sig = "stable", !.remote = s]]
      BY DEF PeersOK, PeerCon
<1> DEFINE q == [pc[c] EXCEPT !.sig = "stable", !.remote = s]
<1>3. pc' = [pc EXCEPT ![c] = q] /\ q \in PeerCon /\ q.sig = "stable"
      BY <1>1, <1>2 DEF PeersOK
<1>4. q.gathered = pc[c].gathered /\ q.conn = pc[c].conn /\ q.stray = pc[c].stray
      BY <1>1 DEF PeersOK
<1> HIDE DEF q
<1> QED
    BY <1>3, <1>4 DEF PeersOK, Sig, Same

\* Completing the gathering.
LEMMA SetGathered ==
  ASSUME PeersOK, NEW c \in Sessions, pc' = [pc EXCEPT ![c].gathered = TRUE]
  PROVE  PeersOK' /\ Same("sig") /\ Same("remote") /\ Gathered(c) /\ Same("conn") /\ Same("stray")
<1>1. \A r \in PeerCon : LET q == [r EXCEPT !.gathered = TRUE] IN
        /\ q \in PeerCon /\ q.gathered
        /\ q.sig = r.sig /\ q.remote = r.remote /\ q.conn = r.conn /\ q.stray = r.stray
      BY DEF PeerCon
<1> QED
    BY <1>1 DEF PeersOK, Gathered, Same

\* Setting the state of a connection.
LEMMA SetConn ==
  ASSUME PeersOK, NEW c \in Sessions, NEW v \in {"up", "down"}, pc' = [pc EXCEPT ![c].conn = v]
  PROVE  PeersOK' /\ Same("sig") /\ Same("remote") /\ Same("gathered") /\ Conn(c, v) /\ Same("stray")
<1>1. \A r \in PeerCon : LET q == [r EXCEPT !.conn = v] IN
        /\ q \in PeerCon /\ q.conn = v
        /\ q.sig = r.sig /\ q.remote = r.remote /\ q.gathered = r.gathered /\ q.stray = r.stray
      BY DEF PeerCon
<1> QED
    BY <1>1 DEF PeersOK, Conn, Same

\* Giving a candidate too early.
LEMMA SetStray ==
  ASSUME PeersOK, NEW c \in Sessions, pc' = [pc EXCEPT ![c].stray = TRUE]
  PROVE  PeersOK' /\ Same("sig") /\ Same("remote") /\ Same("gathered") /\ Same("conn") /\ Stray(c)
<1>1. \A r \in PeerCon : LET q == [r EXCEPT !.stray = TRUE] IN
        /\ q \in PeerCon
        /\ q.sig = r.sig /\ q.remote = r.remote /\ q.gathered = r.gathered /\ q.conn = r.conn
      BY DEF PeerCon
<1> QED
    BY <1>1 DEF PeersOK, Stray, Same

\* Everything is well typed at first.
LEMMA TypedInit == Init => Typed
<1> SUFFICES ASSUME Init PROVE Typed
    OBVIOUS
<1>1. NewPC \in PeerCon
      BY DEF NewPC, PeerCon, Sigs
<1>2. PeersOK
      BY <1>1 DEF Init, PeersOK
<1>3. up \in [Sessions -> Seq(Messages)] /\ tasks \in Seq(Sessions)
      BY DEF Init
<1> QED
    BY <1>2, <1>3 DEF Init, Typed, RestOK, OfferMade

\* MainThread and the camera touch neither the messages nor the PeerConnections.
LEMMA InnerSteps ==
  [Next]_vars => UNCHANGED <<browserVars, wireVars, serverVars>> \/ Browser \/ Seasocks \/ PeerConnections
<1>1. ASSUME MainThread \/ Camera \/ Races PROVE UNCHANGED <<browserVars, wireVars, serverVars>>
      BY <1>1 DEF MainThread, TakeTask, AddToStream, Assigned, Camera, BeginLoop, CopyEntry, CopyFreed, CollectTracks,
                  Advance, SendSamples, Races, CallRace, MapRace
<1> QED
    BY <1>1 DEF Next, vars

\* Browser, signalling and PeerConnections touch the stream in two steps only.
LEMMA OuterSteps ==
  [Next]_vars => \/ UNCHANGED streamVars
                 \/ \E s \in Sessions : OnHangup(s) \/ TrackOpen(s)
                 \/ MainThread \/ Camera \/ Races
<1>1. ASSUME Browser PROVE UNCHANGED streamVars
      BY <1>1 DEF Browser, BrowserRuns, Call, Open, Offer, Answer, Candidate, Hangup, Close
<1>2. ASSUME Emplace \/ \E s \in Sessions : OnCall(s) \/ OnAnswer(s) \/ OnCandidate(s) \/ OnDisconnect(s)
      PROVE  UNCHANGED streamVars
      BY <1>2 DEF Emplace, EmplaceRefused, EmplaceBegins, EmplaceEnds,
                  OnCall, OnAnswer, OnCandidate, OnDisconnect
<1>3. ASSUME NEW s \in Sessions, GatheringComplete(s) \/ ConnectionLost(s) PROVE UNCHANGED streamVars
      BY <1>3 DEF GatheringComplete, ConnectionLost
<1> QED
    BY <1>1, <1>2, <1>3 DEF Next, vars, Seasocks, SocketEvent, PeerConnections

\* Every step keeps the PeerConnections typed.
LEMMA PeersStep == PeersOK /\ RestOK /\ [Next]_vars => PeersOK'
<1> SUFFICES ASSUME PeersOK, RestOK, [Next]_vars PROVE PeersOK'
    OBVIOUS
<1> USE SessionAssumption DEF PeersOK, browserVars, wireVars, serverVars, cameraVars, streamVars
<1>1. ASSUME NEW p \in Pages, NEW s \in Sessions, Call(p, s) PROVE PeersOK'
      BY <1>1 DEF Call
<1>2. ASSUME NEW s \in Sessions, Open(s) PROVE PeersOK'
      BY <1>2 DEF Open
<1>3. ASSUME NEW s \in Sessions, Offer(s) PROVE PeersOK'
      BY <1>3 DEF Offer
<1>4. ASSUME NEW s \in Sessions, Answer(s) PROVE PeersOK'
      BY <1>4 DEF Answer
<1>5. ASSUME NEW s \in Sessions, Candidate(s) PROVE PeersOK'
      BY <1>5 DEF Candidate
<1>6. ASSUME NEW p \in Pages, Hangup(p) PROVE PeersOK'
      BY <1>6 DEF Hangup
<1>7. ASSUME NEW s \in Sessions, Close(s) PROVE PeersOK'
      BY <1>7 DEF Close
<1>8. ASSUME NEW s \in Sessions, OnCall(s) PROVE PeersOK'
      BY <1>8, SetSig DEF OnCall, Receives, Sigs
<1>9. CASE Emplace
      BY <1>9 DEF Emplace, EmplaceRefused, EmplaceBegins, EmplaceEnds
<1>10. ASSUME NEW s \in Sessions, OnAnswer(s) PROVE PeersOK'
  <2>1. CASE client # None /\ pc[client].sig = "offer"
        BY <1>10, <2>1, SetAnswer DEF OnAnswer, Receives, RestOK, Sigs
  <2>2. CASE ~(client # None /\ pc[client].sig = "offer")
        BY <1>10, <2>2 DEF OnAnswer, PeersOK
  <2> QED
      BY <2>1, <2>2
<1>11. ASSUME NEW s \in Sessions, OnCandidate(s) PROVE PeersOK'
  <2>1. CASE client # None /\ pc[client].sig = "offer"
        BY <1>11, <2>1, SetStray DEF OnCandidate, Receives, RestOK, Sigs
  <2>2. CASE ~(client # None /\ pc[client].sig = "offer")
        BY <1>11, <2>2 DEF OnCandidate, PeersOK
  <2> QED
      BY <2>1, <2>2
<1>12. ASSUME NEW s \in Sessions, OnHangup(s) PROVE PeersOK'
  <2>1. CASE client # None
        BY <1>12, <2>1, SetSig DEF OnHangup, Receives, RestOK, Sigs
  <2>2. CASE ~(client # None)
        BY <1>12, <2>2 DEF OnHangup, PeersOK
  <2> QED
      BY <2>1, <2>2
<1>13. ASSUME NEW s \in Sessions, OnDisconnect(s) PROVE PeersOK'
      BY <1>13 DEF OnDisconnect
<1>14. ASSUME NEW s \in Sessions, GatheringComplete(s) PROVE PeersOK'
      BY <1>14, SetGathered DEF GatheringComplete, Sigs
<1>15. ASSUME NEW s \in Sessions, TrackOpen(s) PROVE PeersOK'
      BY <1>15, SetConn DEF TrackOpen, Sigs
<1>16. ASSUME NEW s \in Sessions, ConnectionLost(s) PROVE PeersOK'
      BY <1>16, SetConn DEF ConnectionLost, Sigs
<1>25. CASE UNCHANGED <<browserVars, wireVars, serverVars>>
      BY <1>25 DEF serverVars
<1> QED
    BY <1>1, <1>2, <1>3, <1>4, <1>5, <1>6, <1>7, <1>8, <1>9, <1>10, <1>11, <1>12, <1>13, <1>14, <1>15, <1>16, <1>25, InnerSteps DEF Browser, BrowserRuns, Seasocks, SocketEvent, PeerConnections

\* Every step keeps the rest typed, and a browser is sent one offer at most.
LEMMA RestStep == Typed /\ [Next]_vars => RestOK'
<1> SUFFICES ASSUME Typed, [Next]_vars PROVE RestOK'
    OBVIOUS
<1> USE SessionAssumption DEF Typed, RestOK, Messages, browserVars, wireVars, serverVars, cameraVars, streamVars
<1>1. ASSUME NEW p \in Pages, NEW s \in Sessions, Call(p, s) PROVE RestOK'
      BY <1>1 DEF Call
<1>2. ASSUME NEW s \in Sessions, Open(s) PROVE RestOK'
      BY <1>2 DEF Open
<1>3. ASSUME NEW s \in Sessions, Offer(s) PROVE RestOK'
      BY <1>3, Tail(<<"offer">>) = <<>> DEF Offer
<1>4. ASSUME NEW s \in Sessions, Answer(s) PROVE RestOK'
      BY <1>4 DEF Answer
<1>5. ASSUME NEW s \in Sessions, Candidate(s) PROVE RestOK'
      BY <1>5 DEF Candidate
<1>6. ASSUME NEW p \in Pages, Hangup(p) PROVE RestOK'
      BY <1>6 DEF Hangup
<1>7. ASSUME NEW s \in Sessions, Close(s) PROVE RestOK'
      BY <1>7 DEF Close
<1>8. ASSUME NEW s \in Sessions, OnCall(s) PROVE RestOK'
      BY <1>8 DEF OnCall, Receives
<1>9. CASE Emplace
      BY <1>9 DEF Emplace, EmplaceRefused, EmplaceBegins, EmplaceEnds
<1>10. ASSUME NEW s \in Sessions, OnAnswer(s) PROVE RestOK'
      BY <1>10 DEF OnAnswer, Receives
<1>11. ASSUME NEW s \in Sessions, OnCandidate(s) PROVE RestOK'
      BY <1>11 DEF OnCandidate, Receives
<1>12. ASSUME NEW s \in Sessions, OnHangup(s) PROVE RestOK'
  <2>1. dangling' \in BOOLEAN
    <3>1. dangling' = (dangling \/ iter = client) \/ dangling' = dangling
          BY <1>12 DEF OnHangup
    <3>2. dangling \in BOOLEAN
          OBVIOUS
    <3> QED
        BY <3>1, <3>2, Zenon
  <2>2. UNCHANGED <<signalObj, owner, sock, bpc, down, srv, building, linking, tasks, adding, ready,
                    onCamBuffer, iter, loop, tracks, sent, crashed>>
        BY <1>12 DEF OnHangup
  <2>3. client' \in Sessions \union {None} /\ up' \in [Sessions -> Seq(Messages)]
        BY <1>12 DEF OnHangup, Receives
  <2> QED
      BY <2>1, <2>2, <2>3
<1>13. ASSUME NEW s \in Sessions, OnDisconnect(s) PROVE RestOK'
      BY <1>13 DEF OnDisconnect
<1>14. ASSUME NEW s \in Sessions, GatheringComplete(s) PROVE RestOK'
      BY <1>14, Append(<<>>, "offer") = <<"offer">> DEF GatheringComplete, OfferMade
<1>15. ASSUME NEW s \in Sessions, TrackOpen(s) PROVE RestOK'
      BY <1>15 DEF TrackOpen
<1>16. ASSUME NEW s \in Sessions, ConnectionLost(s) PROVE RestOK'
      BY <1>16 DEF ConnectionLost
<1>17. CASE TakeTask
      BY <1>17 DEF TakeTask
<1>18. CASE AddToStream
      BY <1>18 DEF AddToStream
<1>19. CASE Assigned
      BY <1>19 DEF Assigned
<1>20. CASE CallRace
      BY <1>20 DEF CallRace
<1>21. CASE BeginLoop
      BY <1>21 DEF BeginLoop
<1>21a. CASE CopyEntry
      BY <1>21a DEF CopyEntry
<1>21b. CASE CopyFreed
      BY <1>21b DEF CopyFreed
<1>22. CASE CollectTracks
      BY <1>22 DEF CollectTracks
<1>22a. CASE Advance
      BY <1>22a DEF Advance
<1>23. CASE MapRace
      BY <1>23 DEF MapRace
<1>24. CASE SendSamples
      BY <1>24 DEF SendSamples
<1>25. CASE UNCHANGED vars
      BY <1>25 DEF vars, serverVars, streamVars
<1> QED
    BY <1>1, <1>2, <1>3, <1>4, <1>5, <1>6, <1>7, <1>8, <1>9, <1>10, <1>11, <1>12, <1>13, <1>14, <1>15, <1>16, <1>17, <1>18, <1>19, <1>20, <1>21, <1>21a, <1>21b, <1>22, <1>22a, <1>23, <1>24, <1>25 DEF Next, Browser, BrowserRuns, Seasocks, SocketEvent, PeerConnections, MainThread, Camera, Races

(* How a step changes a PeerConnection: its connection is never new again, *)
(* and leaves "new" only when its signaling is stable; its signaling state *)
(* changes with a call, an answer or a hang-up only.                       *)
Opens == \A t \in Sessions :
            /\ pc[t].conn # "new" => pc'[t].conn # "new"
            /\ pc'[t].conn # "new" => pc[t].conn # "new" \/ (pc[t].sig = "stable" /\ pc'[t].sig = "stable")
Signals == \A t \in Sessions :
            \/ pc'[t].sig = pc[t].sig
            \/ building = None /\ building' = t /\ pc'[t].sig = "offer" /\ up[t] # <<>> /\ Head(up[t]) = "call"
            \/ t = client /\ client' = client /\ pc[t].sig = "offer" /\ pc'[t].sig = "stable"
            \/ t = client /\ client' = None /\ pc'[t].sig = "closed"

\* No connection becomes new again.
LEMMA OpensStep == Typed /\ [Next]_vars => Opens
<1> SUFFICES ASSUME Typed, [Next]_vars PROVE Opens
    OBVIOUS
<1> USE SessionAssumption DEF Typed, Opens, browserVars, wireVars, serverVars, cameraVars, streamVars
<1>1. ASSUME NEW p \in Pages, NEW s \in Sessions, Call(p, s) PROVE Opens
      BY <1>1 DEF Call
<1>2. ASSUME NEW s \in Sessions, Open(s) PROVE Opens
      BY <1>2 DEF Open
<1>3. ASSUME NEW s \in Sessions, Offer(s) PROVE Opens
      BY <1>3 DEF Offer
<1>4. ASSUME NEW s \in Sessions, Answer(s) PROVE Opens
      BY <1>4 DEF Answer
<1>5. ASSUME NEW s \in Sessions, Candidate(s) PROVE Opens
      BY <1>5 DEF Candidate
<1>6. ASSUME NEW p \in Pages, Hangup(p) PROVE Opens
      BY <1>6 DEF Hangup
<1>7. ASSUME NEW s \in Sessions, Close(s) PROVE Opens
      BY <1>7 DEF Close
<1>8. ASSUME NEW s \in Sessions, OnCall(s) PROVE Opens
      BY <1>8, SetSig DEF OnCall, Receives, Sigs, Same, Conn
<1>9. CASE Emplace
      BY <1>9 DEF Emplace, EmplaceRefused, EmplaceBegins, EmplaceEnds
<1>10. ASSUME NEW s \in Sessions, OnAnswer(s) PROVE Opens
  <2>1. CASE client # None /\ pc[client].sig = "offer"
        BY <1>10, <2>1, SetAnswer DEF OnAnswer, Receives, RestOK, Sigs, Same, Conn
  <2>2. CASE ~(client # None /\ pc[client].sig = "offer")
        BY <1>10, <2>2 DEF OnAnswer, Receives, Same, Conn
  <2> QED
      BY <2>1, <2>2
<1>11. ASSUME NEW s \in Sessions, OnCandidate(s) PROVE Opens
  <2>1. CASE client # None /\ pc[client].sig = "offer"
        BY <1>11, <2>1, SetStray DEF OnCandidate, Receives, RestOK, Sigs, Same, Conn
  <2>2. CASE ~(client # None /\ pc[client].sig = "offer")
        BY <1>11, <2>2 DEF OnCandidate, Receives, Same, Conn
  <2> QED
      BY <2>1, <2>2
<1>12. ASSUME NEW s \in Sessions, OnHangup(s) PROVE Opens
  <2>1. CASE client # None
        BY <1>12, <2>1, SetSig DEF OnHangup, Receives, RestOK, Sigs, Same, Conn
  <2>2. CASE ~(client # None)
        BY <1>12, <2>2 DEF OnHangup, Receives, Same, Conn
  <2> QED
      BY <2>1, <2>2
<1>13. ASSUME NEW s \in Sessions, OnDisconnect(s) PROVE Opens
      BY <1>13 DEF OnDisconnect
<1>14. ASSUME NEW s \in Sessions, GatheringComplete(s) PROVE Opens
      BY <1>14, SetGathered DEF GatheringComplete, Sigs, Same, Conn
<1>15. ASSUME NEW s \in Sessions, TrackOpen(s) PROVE Opens
      BY <1>15, SetConn DEF TrackOpen, Sigs, Same, Conn
<1>16. ASSUME NEW s \in Sessions, ConnectionLost(s) PROVE Opens
      BY <1>16, SetConn DEF ConnectionLost, Sigs, Same, Conn
<1>25. CASE UNCHANGED <<browserVars, wireVars, serverVars>>
      BY <1>25 DEF serverVars
<1> QED
    BY <1>1, <1>2, <1>3, <1>4, <1>5, <1>6, <1>7, <1>8, <1>9, <1>10, <1>11, <1>12, <1>13, <1>14, <1>15, <1>16, <1>25, InnerSteps DEF Browser, BrowserRuns, Seasocks, SocketEvent, PeerConnections

\* Only these steps change a signaling state.
LEMMA SignalsStep == Typed /\ [Next]_vars => Signals
<1> SUFFICES ASSUME Typed, [Next]_vars PROVE Signals
    OBVIOUS
<1> USE SessionAssumption DEF Typed, Signals, browserVars, wireVars, serverVars, cameraVars, streamVars
<1>1. ASSUME NEW p \in Pages, NEW s \in Sessions, Call(p, s) PROVE Signals
      BY <1>1 DEF Call
<1>2. ASSUME NEW s \in Sessions, Open(s) PROVE Signals
      BY <1>2 DEF Open
<1>3. ASSUME NEW s \in Sessions, Offer(s) PROVE Signals
      BY <1>3 DEF Offer
<1>4. ASSUME NEW s \in Sessions, Answer(s) PROVE Signals
      BY <1>4 DEF Answer
<1>5. ASSUME NEW s \in Sessions, Candidate(s) PROVE Signals
      BY <1>5 DEF Candidate
<1>6. ASSUME NEW p \in Pages, Hangup(p) PROVE Signals
      BY <1>6 DEF Hangup
<1>7. ASSUME NEW s \in Sessions, Close(s) PROVE Signals
      BY <1>7 DEF Close
<1>8. ASSUME NEW s \in Sessions, OnCall(s) PROVE Signals
  <2>1. Sig(s, "offer")
        BY <1>8, SetSig DEF OnCall, Sigs
  <2>2. building = None /\ building' = s /\ up[s] # <<>> /\ Head(up[s]) = "call"
        BY <1>8 DEF OnCall, Receives
  <2> QED
      BY <2>1, <2>2 DEF Sig
<1>9. CASE Emplace
      BY <1>9 DEF Emplace, EmplaceRefused, EmplaceBegins, EmplaceEnds
<1>10. ASSUME NEW s \in Sessions, OnAnswer(s) PROVE Signals
  <2>1. CASE client # None /\ pc[client].sig = "offer"
        BY <1>10, <2>1, SetAnswer, ZenonT(60) DEF OnAnswer, Receives, RestOK, Sigs, Same, Sig
  <2>2. CASE ~(client # None /\ pc[client].sig = "offer")
        BY <1>10, <2>2 DEF OnAnswer, Receives, Same, Sig
  <2> QED
      BY <2>1, <2>2
<1>11. ASSUME NEW s \in Sessions, OnCandidate(s) PROVE Signals
  <2>1. CASE client # None /\ pc[client].sig = "offer"
        BY <1>11, <2>1, SetStray DEF OnCandidate, Receives, RestOK, Sigs, Same, Sig
  <2>2. CASE ~(client # None /\ pc[client].sig = "offer")
        BY <1>11, <2>2 DEF OnCandidate, Receives, Same, Sig
  <2> QED
      BY <2>1, <2>2
<1>12. ASSUME NEW s \in Sessions, OnHangup(s) PROVE Signals
  <2>1. CASE client # None
    <3>1. Sig(client, "closed") /\ client' = None
          BY <1>12, <2>1, SetSig DEF OnHangup, RestOK, Sigs
    <3> QED
        BY <3>1 DEF Sig
  <2>2. CASE client = None
        BY <1>12, <2>2 DEF OnHangup
  <2> QED
      BY <2>1, <2>2
<1>13. ASSUME NEW s \in Sessions, OnDisconnect(s) PROVE Signals
      BY <1>13 DEF OnDisconnect
<1>14. ASSUME NEW s \in Sessions, GatheringComplete(s) PROVE Signals
      BY <1>14, SetGathered DEF GatheringComplete, Sigs, Same, Sig
<1>15. ASSUME NEW s \in Sessions, TrackOpen(s) PROVE Signals
      BY <1>15, SetConn DEF TrackOpen, Sigs, Same, Sig
<1>16. ASSUME NEW s \in Sessions, ConnectionLost(s) PROVE Signals
      BY <1>16, SetConn DEF ConnectionLost, Sigs, Same, Sig
<1>25. CASE UNCHANGED <<browserVars, wireVars, serverVars>>
      BY <1>25 DEF serverVars
<1> QED
    BY <1>1, <1>2, <1>3, <1>4, <1>5, <1>6, <1>7, <1>8, <1>9, <1>10, <1>11, <1>12, <1>13, <1>14, <1>15, <1>16, <1>25, InnerSteps DEF Browser, BrowserRuns, Seasocks, SocketEvent, PeerConnections

\* Every step makes an offer of a gathering that is complete.
LEMMA OfferStep == Typed /\ [Next]_vars => OfferMade'
<1> SUFFICES ASSUME Typed, [Next]_vars PROVE OfferMade'
    OBVIOUS
<1> USE SessionAssumption DEF Typed, OfferMade, browserVars, wireVars, serverVars, cameraVars, streamVars
<1>1. ASSUME NEW p \in Pages, NEW s \in Sessions, Call(p, s) PROVE OfferMade'
      BY <1>1 DEF Call
<1>2. ASSUME NEW s \in Sessions, Open(s) PROVE OfferMade'
      BY <1>2 DEF Open
<1>3. ASSUME NEW s \in Sessions, Offer(s) PROVE OfferMade'
      BY <1>3 DEF Offer
<1>4. ASSUME NEW s \in Sessions, Answer(s) PROVE OfferMade'
      BY <1>4 DEF Answer
<1>5. ASSUME NEW s \in Sessions, Candidate(s) PROVE OfferMade'
      BY <1>5 DEF Candidate
<1>6. ASSUME NEW p \in Pages, Hangup(p) PROVE OfferMade'
      BY <1>6 DEF Hangup
<1>7. ASSUME NEW s \in Sessions, Close(s) PROVE OfferMade'
      BY <1>7 DEF Close
<1>8. ASSUME NEW s \in Sessions, OnCall(s) PROVE OfferMade'
      BY <1>8, SetSig DEF OnCall, Receives, Sigs, Same, Gathered
<1>9. CASE Emplace
      BY <1>9 DEF Emplace, EmplaceRefused, EmplaceBegins, EmplaceEnds
<1>10. ASSUME NEW s \in Sessions, OnAnswer(s) PROVE OfferMade'
  <2>1. CASE client # None /\ pc[client].sig = "offer"
        BY <1>10, <2>1, SetAnswer DEF OnAnswer, Receives, RestOK, Sigs, Same, Gathered
  <2>2. CASE ~(client # None /\ pc[client].sig = "offer")
        BY <1>10, <2>2 DEF OnAnswer, Receives, Same, Gathered
  <2> QED
      BY <2>1, <2>2
<1>11. ASSUME NEW s \in Sessions, OnCandidate(s) PROVE OfferMade'
  <2>1. CASE client # None /\ pc[client].sig = "offer"
        BY <1>11, <2>1, SetStray DEF OnCandidate, Receives, RestOK, Sigs, Same, Gathered
  <2>2. CASE ~(client # None /\ pc[client].sig = "offer")
        BY <1>11, <2>2 DEF OnCandidate, Receives, Same, Gathered
  <2> QED
      BY <2>1, <2>2
<1>12. ASSUME NEW s \in Sessions, OnHangup(s) PROVE OfferMade'
  <2>1. CASE client # None
        BY <1>12, <2>1, SetSig DEF OnHangup, Receives, RestOK, Sigs, Same, Gathered
  <2>2. CASE ~(client # None)
        BY <1>12, <2>2 DEF OnHangup, Receives, Same, Gathered
  <2> QED
      BY <2>1, <2>2
<1>13. ASSUME NEW s \in Sessions, OnDisconnect(s) PROVE OfferMade'
      BY <1>13 DEF OnDisconnect
<1>14. ASSUME NEW s \in Sessions, GatheringComplete(s) PROVE OfferMade'
  <2>1. Gathered(s)
        BY <1>14, SetGathered DEF GatheringComplete
  <2>2. \A t \in Sessions : down'[t] # <<>> => t = s \/ down[t] # <<>>
        BY <1>14 DEF GatheringComplete, RestOK
  <2> QED
      BY <2>1, <2>2 DEF Gathered
<1>15. ASSUME NEW s \in Sessions, TrackOpen(s) PROVE OfferMade'
      BY <1>15, SetConn DEF TrackOpen, Sigs, Same, Gathered
<1>16. ASSUME NEW s \in Sessions, ConnectionLost(s) PROVE OfferMade'
      BY <1>16, SetConn DEF ConnectionLost, Sigs, Same, Gathered
<1>25. CASE UNCHANGED <<browserVars, wireVars, serverVars>>
      BY <1>25 DEF serverVars
<1> QED
    BY <1>1, <1>2, <1>3, <1>4, <1>5, <1>6, <1>7, <1>8, <1>9, <1>10, <1>11, <1>12, <1>13, <1>14, <1>15, <1>16, <1>25, InnerSteps DEF Browser, BrowserRuns, Seasocks, SocketEvent, PeerConnections

\* The session is well typed.
THEOREM TypeCorrect == Spec => []TypeOK
<1>1. Typed /\ [Next]_vars => Typed'
      BY PeersStep, RestStep, OfferStep DEF Typed
<1> QED
    BY <1>1, TypedInit, TypedIsTypeOK, PTL DEF Spec

-----------------------------------------------------------------------------
(* Samples only on open tracks                                             *)

(* Inductive: whoever is on the way from the onOpen event to the samples   *)
(* has a connection that was up.                                           *)
StreamInv == /\ StreamOnlyOpenTracks
             /\ \A i \in 1..Len(tasks) : pc[tasks[i]].conn # "new"
             /\ adding # None => pc[adding].conn # "new"

\* Every step keeps the way closed to the others.
LEMMA StreamStep == Typed /\ StreamInv /\ [Next]_vars => StreamInv'
<1> SUFFICES ASSUME Typed, StreamInv, [Next]_vars PROVE StreamInv'
    OBVIOUS
<1>o. Opens
      BY OpensStep
<1> USE SessionAssumption DEF Typed, RestOK, Opens, StreamInv, StreamOnlyOpenTracks, browserVars, wireVars, serverVars, cameraVars, streamVars
<1>12. ASSUME NEW s \in Sessions, OnHangup(s) PROVE StreamInv'
      BY <1>12, <1>o DEF OnHangup, Receives
<1>15. ASSUME NEW s \in Sessions, TrackOpen(s) PROVE StreamInv'
  <2>0. pc' = [pc EXCEPT ![s].conn = "up"]
        BY <1>15 DEF TrackOpen
  <2>9. Conn(s, "up")
        BY <2>0, SetConn
  <2>1. tasks' = Append(tasks, s) /\ pc'[s].conn = "up"
        BY <1>15, <2>9 DEF TrackOpen, Conn
  <2>2. \A i \in 1..Len(tasks') : (i \in 1..Len(tasks) /\ tasks'[i] = tasks[i]) \/ tasks'[i] = s
        BY <2>1
  <2>3. \A i \in 1..Len(tasks) : tasks[i] \in Sessions
        OBVIOUS
  <2>4. \A i \in 1..Len(tasks') : pc'[tasks'[i]].conn # "new"
        BY <1>o, <2>1, <2>2, <2>3
  <2>5. UNCHANGED <<adding, ready, tracks, sent>>
        BY <1>15 DEF TrackOpen
  <2> QED
      BY <1>o, <2>4, <2>5
<1>17. CASE TakeTask
  <2>1. Len(tasks) \in Nat /\ tasks # <<>> /\ Head(tasks) = tasks[1] /\ 1 \in 1..Len(tasks)
        BY <1>17 DEF TakeTask
  <2>2. \A i \in 1..Len(tasks') : i + 1 \in 1..Len(tasks) /\ tasks'[i] = tasks[i + 1]
        BY <1>17, <2>1 DEF TakeTask
  <2>3. \A i \in 1..Len(tasks) : tasks[i] \in Sessions /\ pc'[tasks[i]].conn # "new"
        BY <1>o, SMTT(60)
  <2>4. \A i \in 1..Len(tasks') : pc'[tasks'[i]].conn # "new"
    <3> SUFFICES ASSUME NEW i \in 1..Len(tasks') PROVE pc'[tasks'[i]].conn # "new"
        OBVIOUS
    <3>1. i + 1 \in 1..Len(tasks) /\ tasks'[i] = tasks[i + 1]
          BY <2>2
    <3>2. pc'[tasks[i + 1]].conn # "new"
          BY <2>3, <3>1, ZenonT(30)
    <3> QED
        BY <3>1, <3>2, ZenonT(30)
  <2>5. adding' # None => pc'[adding'].conn # "new"
        BY <1>17, <2>1, <2>3 DEF TakeTask
  <2>6. UNCHANGED <<pc, ready, tracks, sent>>
        BY <1>17 DEF TakeTask
  <2> QED
      BY <2>4, <2>5, <2>6
<1>18. CASE AddToStream
      BY <1>18, <1>o DEF AddToStream
<1>19. CASE Assigned
      BY <1>19, <1>o DEF Assigned
<1>20. CASE CallRace
      BY <1>20, <1>o DEF CallRace
<1>21. CASE BeginLoop
      BY <1>21, <1>o DEF BeginLoop
<1>21a. CASE CopyEntry
      BY <1>21a, <1>o DEF CopyEntry
<1>21b. CASE CopyFreed
      BY <1>21b, <1>o DEF CopyFreed
<1>22. CASE CollectTracks
      BY <1>22, <1>o DEF CollectTracks
<1>22a. CASE Advance
      BY <1>22a, <1>o DEF Advance
<1>23. CASE MapRace
      BY <1>23, <1>o DEF MapRace
<1>24. CASE SendSamples
      BY <1>24, <1>o DEF SendSamples
<1>25. CASE UNCHANGED streamVars
  <2>1. UNCHANGED <<tasks, adding, ready, tracks, sent>>
        BY <1>25 DEF streamVars
  <2>2. \A i \in 1..Len(tasks) : tasks[i] \in Sessions
        OBVIOUS
  <2> QED
      BY <1>o, <2>1, <2>2
<1> QED
    BY <1>12, <1>15, <1>17, <1>18, <1>19, <1>20, <1>21, <1>21a, <1>21b, <1>22, <1>22a, <1>23, <1>24, <1>25, OuterSteps DEF MainThread, Camera, Races

\* Samples are only ever sent on tracks that have opened.
THEOREM SamplesOnOpenTracks == Spec => []StreamOnlyOpenTracks
<1>1. Typed /\ StreamInv /\ [Next]_vars => Typed' /\ StreamInv'
      BY PeersStep, RestStep, OfferStep, StreamStep DEF Typed
<1>2. Init => StreamInv
      BY DEF Init, StreamInv, StreamOnlyOpenTracks
<1>3. StreamInv => StreamOnlyOpenTracks
      BY DEF StreamInv
<1> QED
    BY <1>1, <1>2, <1>3, TypedInit, PTL DEF Spec

-----------------------------------------------------------------------------
(* Where the data races can bite                                           *)

\* a socket's call comes first, and only once
CallsFirst == \A t \in Sessions : \A i \in 1..Len(up[t]) : up[t][i] = "call" => i = 1 /\ pc[t].sig = "none"

\* Inductive: besides, whoever has a Client has called.
CallInv == /\ CallsFirst
           /\ \A s \in Sessions : sock[s] \in {"unused", "connecting"} => pc[s].sig = "none" /\ srv[s] = "none"
           /\ building # None => pc[building].sig # "none"
           /\ client # None => pc[client].sig # "none"

\* Inductive: an entry is only linked into an empty map.
LinkInv == linking => client = None /\ building # None

\* A message that is taken uncovers no second call.
LEMMA TakeMessage ==
  ASSUME RestOK, CallsFirst, NEW s \in Sessions, NEW what, Receives(s, what)
  PROVE  \A t \in Sessions : \A i \in 1..Len(up'[t]) :
             up'[t][i] = "call" => i = 1 /\ t # s /\ pc[t].sig = "none" /\ up[t] # <<>> /\ Head(up[t]) = "call"
<1>1. up[s] \in Seq(Messages) /\ up[s] # <<>> /\ up'[s] = Tail(up[s])
      BY DEF RestOK, Receives
<1>2. \A i \in 1..Len(up'[s]) : i + 1 \in 1..Len(up[s]) /\ up'[s][i] = up[s][i + 1]
      BY <1>1
<1>3. \A i \in 1..Len(up'[s]) : up'[s][i] # "call"
      BY <1>2 DEF CallsFirst
<1>4. \A t \in Sessions \ {s} : up'[t] = up[t] /\ up[t] \in Seq(Messages)
      BY DEF Receives, RestOK
<1>5. \A t \in Sessions \ {s} : \A i \in 1..Len(up[t]) : up[t][i] = "call" => up[t] # <<>> /\ Head(up[t]) = "call"
      BY <1>4 DEF CallsFirst
<1> QED
    BY <1>3, <1>4, <1>5 DEF CallsFirst

\* No step but a call ends the silence of a PeerConnection.
LEMMA SilenceKept ==
  ASSUME CallInv, Signals, building' = building
  PROVE  \A t \in Sessions : pc[t].sig = "none" => pc'[t].sig = "none"
  BY SessionAssumption DEF CallInv, Signals

\* Every step keeps calls first.
LEMMA CallStep == Typed /\ CallInv /\ [Next]_vars => CallInv'
<1> SUFFICES ASSUME Typed, CallInv, [Next]_vars PROVE CallInv'
    OBVIOUS
<1>s. Signals
      BY SignalsStep
<1> USE SessionAssumption DEF Typed, CallInv, CallsFirst, Signals, RestOK, browserVars, wireVars, serverVars, cameraVars, streamVars
<1>1. ASSUME NEW p \in Pages, NEW s \in Sessions, Call(p, s) PROVE CallInv'
      BY <1>1, <1>s DEF Call
<1>2. ASSUME NEW s \in Sessions, Open(s) PROVE CallInv'
  <2>1. sock[s] = "connecting" /\ pc' = pc /\ pc[s].sig = "none" /\ up'[s] = <<"call">>
        BY <1>2 DEF Open
  <2>2. \A t \in Sessions \ {s} : up'[t] = up[t] /\ sock'[t] = sock[t] /\ srv'[t] = srv[t]
        BY <1>2 DEF Open
  <2>a. \A i \in 1..Len(up'[s]) : i = 1
        BY <2>1
  <2>b. ASSUME NEW t \in Sessions \ {s}, NEW i \in 1..Len(up'[t]), up'[t][i] = "call"
        PROVE  i = 1 /\ pc'[t].sig = "none"
    <3>1. up'[t] = up[t] /\ pc'[t].sig = pc[t].sig
          BY <2>1, <2>2
    <3>2. i \in 1..Len(up[t]) /\ up[t][i] = "call"
          BY <2>b, <3>1
    <3> QED
        BY <3>1, <3>2
  <2>3. CallsFirst'
        BY <2>1, <2>a, <2>b
  <2>4. sock'[s] = "open"
        BY <1>2 DEF Open
  <2>5. UNCHANGED <<building, client>>
        BY <1>2 DEF Open
  <2> QED
      BY <2>1, <2>2, <2>3, <2>4, <2>5
<1>3. ASSUME NEW s \in Sessions, Offer(s) PROVE CallInv'
      BY <1>3, <1>s DEF Offer
<1>4. ASSUME NEW s \in Sessions, Answer(s) PROVE CallInv'
      BY <1>4, <1>s DEF Answer
<1>5. ASSUME NEW s \in Sessions, Candidate(s) PROVE CallInv'
      BY <1>5, <1>s DEF Candidate
<1>6. ASSUME NEW p \in Pages, Hangup(p) PROVE CallInv'
      BY <1>6, <1>s DEF Hangup
<1>7. ASSUME NEW s \in Sessions, Close(s) PROVE CallInv'
      BY <1>7, <1>s DEF Close
<1>8. ASSUME NEW s \in Sessions, OnCall(s) PROVE CallInv'
  <2>1. \A t \in Sessions : \A i \in 1..Len(up'[t]) :
          up'[t][i] = "call" => i = 1 /\ t # s /\ pc[t].sig = "none" /\ up[t] # <<>> /\ Head(up[t]) = "call"
        BY <1>8, TakeMessage DEF OnCall
  <2>2. \A t \in Sessions \ {s} : pc[t].sig = "none" => pc'[t].sig = "none"
        BY <1>8, <1>s DEF OnCall
  <2>3. CallsFirst'
        BY <2>1, <2>2
  <2>4. \A t \in Sessions : sock'[t] \in {"unused", "connecting"} => pc'[t].sig = "none" /\ srv'[t] = "none"
        BY <1>8, <1>s DEF OnCall, Receives
  <2>5. Sig(s, "offer")
        BY <1>8, SetSig DEF OnCall, Sigs
  <2> QED
      BY <1>8, <2>3, <2>4, <2>5 DEF OnCall, Sig
<1>9. CASE Emplace
      BY <1>9, <1>s DEF Emplace, EmplaceRefused, EmplaceBegins, EmplaceEnds
<1>10. ASSUME NEW s \in Sessions, OnAnswer(s) PROVE CallInv'
  <2>1. \A t \in Sessions : \A i \in 1..Len(up'[t]) :
          up'[t][i] = "call" => i = 1 /\ t # s /\ pc[t].sig = "none" /\ up[t] # <<>> /\ Head(up[t]) = "call"
        BY <1>10, TakeMessage DEF OnAnswer
  <2>2. \A t \in Sessions : pc[t].sig = "none" => pc'[t].sig = "none"
        BY <1>10, <1>s, SilenceKept DEF OnAnswer
  <2>3. CallsFirst'
        BY <2>1, <2>2
  <2>4. \A t \in Sessions : sock'[t] \in {"unused", "connecting"} => pc'[t].sig = "none" /\ srv'[t] = "none"
        BY <1>10, <1>s DEF OnAnswer, Receives
  <2> QED
      BY <1>10, <1>s, <2>3, <2>4, ZenonT(60) DEF OnAnswer, Receives
<1>11. ASSUME NEW s \in Sessions, OnCandidate(s) PROVE CallInv'
  <2>1. \A t \in Sessions : \A i \in 1..Len(up'[t]) :
          up'[t][i] = "call" => i = 1 /\ t # s /\ pc[t].sig = "none" /\ up[t] # <<>> /\ Head(up[t]) = "call"
        BY <1>11, TakeMessage DEF OnCandidate
  <2>2. \A t \in Sessions : pc[t].sig = "none" => pc'[t].sig = "none"
        BY <1>11, <1>s, SilenceKept DEF OnCandidate
  <2>3. CallsFirst'
        BY <2>1, <2>2
  <2>4. \A t \in Sessions : sock'[t] \in {"unused", "connecting"} => pc'[t].sig = "none" /\ srv'[t] = "none"
        BY <1>11, <1>s DEF OnCandidate, Receives
  <2> QED
      BY <1>11, <1>s, <2>3, <2>4, ZenonT(60) DEF OnCandidate, Receives
<1>12. ASSUME NEW s \in Sessions, OnHangup(s) PROVE CallInv'
  <2>1. \A t \in Sessions : \A i \in 1..Len(up'[t]) :
          up'[t][i] = "call" => i = 1 /\ t # s /\ pc[t].sig = "none" /\ up[t] # <<>> /\ Head(up[t]) = "call"
        BY <1>12, TakeMessage DEF OnHangup
  <2>2. \A t \in Sessions : pc[t].sig = "none" => pc'[t].sig = "none"
        BY <1>12, <1>s, SilenceKept DEF OnHangup
  <2>3. CallsFirst'
        BY <2>1, <2>2
  <2>4. \A t \in Sessions : sock'[t] \in {"unused", "connecting"} => pc'[t].sig = "none" /\ srv'[t] = "none"
        BY <1>12, <1>s, ZenonT(60) DEF OnHangup, Receives
  <2>5. CASE client # None
    <3>1. Sig(client, "closed")
          BY <1>12, <2>5, SetSig DEF OnHangup, Sigs
    <3> QED
        BY <1>12, <2>3, <2>4, <2>5, <3>1 DEF OnHangup, Receives, Sig
  <2>6. CASE client = None
        BY <1>12, <2>3, <2>4, <2>6 DEF OnHangup, Receives
  <2> QED
      BY <2>5, <2>6
<1>13. ASSUME NEW s \in Sessions, OnDisconnect(s) PROVE CallInv'
      BY <1>13, <1>s DEF OnDisconnect
<1>14. ASSUME NEW s \in Sessions, GatheringComplete(s) PROVE CallInv'
      BY <1>14, <1>s DEF GatheringComplete
<1>15. ASSUME NEW s \in Sessions, TrackOpen(s) PROVE CallInv'
      BY <1>15, <1>s DEF TrackOpen
<1>16. ASSUME NEW s \in Sessions, ConnectionLost(s) PROVE CallInv'
      BY <1>16, <1>s DEF ConnectionLost
<1>17. CASE TakeTask
      BY <1>17, <1>s DEF TakeTask
<1>18. CASE AddToStream
      BY <1>18, <1>s DEF AddToStream
<1>19. CASE Assigned
      BY <1>19, <1>s DEF Assigned
<1>20. CASE CallRace
      BY <1>20, <1>s DEF CallRace
<1>21. CASE BeginLoop
      BY <1>21, <1>s DEF BeginLoop
<1>21a. CASE CopyEntry
      BY <1>21a, <1>s DEF CopyEntry
<1>21b. CASE CopyFreed
      BY <1>21b, <1>s DEF CopyFreed
<1>22. CASE CollectTracks
      BY <1>22, <1>s DEF CollectTracks
<1>22a. CASE Advance
      BY <1>22a, <1>s DEF Advance
<1>23. CASE MapRace
      BY <1>23, <1>s DEF MapRace
<1>24. CASE SendSamples
      BY <1>24, <1>s DEF SendSamples
<1>25. CASE UNCHANGED vars
      BY <1>25 DEF vars, serverVars, streamVars
<1> QED
    BY <1>1, <1>2, <1>3, <1>4, <1>5, <1>6, <1>7, <1>8, <1>9, <1>10, <1>11, <1>12, <1>13, <1>14, <1>15, <1>16, <1>17, <1>18, <1>19, <1>20, <1>21, <1>21a, <1>21b, <1>22, <1>22a, <1>23, <1>24, <1>25 DEF Next, Browser, BrowserRuns, Seasocks, SocketEvent, PeerConnections, MainThread, Camera, Races

(* Inductive: only the client in the map has stable signaling; a           *)
(* connection has come up only then.                                       *)
PlaceInv == /\ LinkInv
            /\ \A t \in Sessions : pc[t].sig = "stable" => t = client
            /\ \A t \in Sessions : pc[t].conn # "new" => pc[t].sig \in {"stable", "closed"}

Closed(t) == pc[t].sig = "closed"

(* Inductive: nothing is called before something was added; whoever comes  *)
(* after others, in MainThread's queue, as what it adds or in the stream,  *)
(* finds the others closed; an entry dangles after a hang-up of one who    *)
(* was streamed to.                                                        *)
AssignInv == /\ onCamBuffer # "empty" => ready # {}
             /\ onCamBuffer = "assigning" => adding # None
             /\ iter # None => onCamBuffer # "empty"
QueueInv  == /\ adding # None => \A t \in ready \ {adding} : Closed(t)
             /\ tasks # <<>> => \A t \in ready \union ({adding} \ {None}) : Closed(t)
             /\ \A i \in 1..Len(tasks) : i < Len(tasks) => Closed(tasks[i])
EraseInv  == dangling => \E t \in ready : Closed(t)

CrashInv == CallInv /\ StreamInv /\ PlaceInv /\ AssignInv /\ QueueInv /\ EraseInv /\ CrashWindows

\* Who writes the map.
LEMMA MapSteps ==
  [Next]_vars => \/ UNCHANGED <<building, linking, client>>
                 \/ Emplace \/ \E s \in Sessions : OnCall(s) \/ OnHangup(s)
<1>1. ASSUME Browser PROVE UNCHANGED <<building, linking, client>>
      BY <1>1 DEF Browser, BrowserRuns, Call, Open, Offer, Answer, Candidate, Hangup, Close, serverVars
<1>2. ASSUME NEW s \in Sessions, OnAnswer(s) \/ OnCandidate(s) \/ OnDisconnect(s) PROVE UNCHANGED <<building, linking, client>>
      BY <1>2 DEF OnAnswer, OnCandidate, OnDisconnect
<1>3. ASSUME PeerConnections PROVE UNCHANGED <<building, linking, client>>
      BY <1>3 DEF PeerConnections, GatheringComplete, TrackOpen, ConnectionLost
<1>4. ASSUME UNCHANGED <<browserVars, wireVars, serverVars>> PROVE UNCHANGED <<building, linking, client>>
      BY <1>4 DEF serverVars
<1> QED
    BY <1>1, <1>2, <1>3, <1>4, InnerSteps DEF Seasocks, SocketEvent

\* An entry is linked by the thread that found the map empty and builds a Client.
LEMMA LinkStep == LinkInv /\ [Next]_vars => LinkInv'
<1> SUFFICES ASSUME LinkInv, [Next]_vars PROVE LinkInv'
    OBVIOUS
<1> USE DEF LinkInv
<1>1. CASE UNCHANGED <<building, linking, client>>
      BY <1>1
<1>2. CASE Emplace
      BY <1>2 DEF Emplace, EmplaceRefused, EmplaceBegins, EmplaceEnds
<1>3. ASSUME NEW s \in Sessions, OnCall(s) \/ OnHangup(s) PROVE LinkInv'
      BY <1>3 DEF OnCall, OnHangup, Receives
<1> QED
    BY <1>1, <1>2, <1>3, MapSteps

\* A call is the first word of a PeerConnection, so what is closed stays closed.
LEMMA ClosedStays ==
  ASSUME Typed, CallInv, Signals
  PROVE  /\ \A t \in Sessions : Closed(t) => Closed(t)'
         /\ \A t \in Sessions : pc[t].sig = "stable" => pc'[t].sig \in {"stable", "closed"}
<1>1. \A t \in Sessions : up[t] # <<>> /\ Head(up[t]) = "call" => pc[t].sig = "none"
  <2> SUFFICES ASSUME NEW t \in Sessions, up[t] # <<>>, Head(up[t]) = "call" PROVE pc[t].sig = "none"
      OBVIOUS
  <2>1. up[t] \in Seq(Messages)
        BY DEF Typed, RestOK
  <2>2. 1 \in 1..Len(up[t]) /\ up[t][1] = "call"
        BY <2>1
  <2> QED
      BY <2>2 DEF CallInv, CallsFirst
<1>2. \A t \in Sessions : pc[t].sig = "none" => pc[t].sig # "closed" /\ pc[t].sig # "stable"
      OBVIOUS
<1>3. \A t \in Sessions : pc[t].sig = "offer" => pc[t].sig # "closed" /\ pc[t].sig # "stable"
      OBVIOUS
<1> QED
    BY <1>1, <1>2, <1>3 DEF Signals, Closed

\* Every step keeps the signaling of the client in the map apart.
LEMMA PlaceStep == Typed /\ CallInv /\ PlaceInv /\ [Next]_vars => PlaceInv'
<1> SUFFICES ASSUME Typed, CallInv, PlaceInv, [Next]_vars PROVE PlaceInv'
    OBVIOUS
<1>s. Signals /\ Opens
      BY SignalsStep, OpensStep
<1>c. \A t \in Sessions : /\ pc[t].sig = "closed" => pc'[t].sig = "closed"
                          /\ pc[t].sig = "stable" => pc'[t].sig \in {"stable", "closed"}
      BY <1>s, ClosedStays DEF Closed
<1>1. \A t \in Sessions : pc'[t].conn # "new" => pc'[t].sig \in {"stable", "closed"}
      BY <1>s, <1>c DEF Opens, PlaceInv
<1>n. None \notin Sessions
      BY SessionAssumption
<1>2. CASE UNCHANGED <<building, linking, client>>
  <2>1. \A t \in Sessions : pc'[t].sig = "stable" => t = client'
    <3> SUFFICES ASSUME NEW t \in Sessions, pc'[t].sig = "stable" PROVE t = client
        BY <1>2
    <3>1. pc[t].sig = "stable" \/ t = client
          BY <1>s DEF Signals
    <3> QED
        BY <3>1 DEF PlaceInv
  <2> QED
      BY <1>1, <1>2, <2>1 DEF PlaceInv, LinkInv
<1>3. CASE EmplaceRefused
      BY <1>1, <1>3 DEF EmplaceRefused, PlaceInv, LinkInv
<1>4. CASE EmplaceBegins
      BY <1>1, <1>4 DEF EmplaceBegins, PlaceInv, LinkInv
<1>5. CASE EmplaceEnds
  <2>1. client = None /\ pc' = pc /\ linking' = FALSE
        BY <1>5 DEF EmplaceEnds, PlaceInv, LinkInv
  <2>2. \A t \in Sessions : pc'[t].sig # "stable"
        BY <1>n, <2>1 DEF PlaceInv
  <2> QED
      BY <1>1, <2>1, <2>2 DEF PlaceInv, LinkInv
<1>6. ASSUME NEW s \in Sessions, OnCall(s) PROVE PlaceInv'
  <2>1. building = None /\ linking' = linking /\ client' = client /\ pc' = [pc EXCEPT ![s].sig = "offer"]
        BY <1>6 DEF OnCall, Receives
  <2>2. Sig(s, "offer")
        BY <2>1, SetSig DEF Typed, Sigs
  <2>3. \A t \in Sessions : pc'[t].sig = "stable" => t = client
        BY <2>2 DEF Sig, PlaceInv
  <2> QED
      BY <1>1, <2>1, <2>3 DEF PlaceInv, LinkInv
<1>7. ASSUME NEW s \in Sessions, OnHangup(s) PROVE PlaceInv'
  <2>1. building = None /\ linking' = linking
        BY <1>7 DEF OnHangup, Receives
  <2>2. CASE client = None
    <3>1. client' = client /\ pc' = pc
          BY <1>7, <2>2 DEF OnHangup
    <3> QED
        BY <1>1, <2>1, <3>1 DEF PlaceInv, LinkInv
  <2>3. CASE client # None
    <3>1. client \in Sessions /\ client' = None /\ pc' = [pc EXCEPT ![client].sig = "closed"]
          BY <1>7, <2>3 DEF OnHangup, Typed, RestOK
    <3>2. Sig(client, "closed")
          BY <3>1, SetSig DEF Typed, Sigs
    <3>3. \A t \in Sessions : pc'[t].sig # "stable"
          BY <3>2 DEF Sig, PlaceInv
    <3> QED
        BY <1>1, <2>1, <3>1, <3>3 DEF PlaceInv, LinkInv
  <2> QED
      BY <2>2, <2>3
<1> QED
    BY <1>2, <1>3, <1>4, <1>5, <1>6, <1>7, MapSteps DEF Emplace

\* Whoever has been connected, and is not the client in the map, is closed.
LEMMA OthersClosed ==
  ASSUME PlaceInv, NEW t \in Sessions, pc[t].conn # "new", t # client
  PROVE  Closed(t)
  BY DEF PlaceInv, Closed

\* Every step keeps the callback behind the first client added.
LEMMA AssignStep == Typed /\ AssignInv /\ [Next]_vars => AssignInv'
<1> SUFFICES ASSUME Typed, AssignInv, [Next]_vars PROVE AssignInv'
    OBVIOUS
<1> USE SessionAssumption DEF Typed, AssignInv, browserVars, wireVars, serverVars, cameraVars, streamVars
<1>12. ASSUME NEW s \in Sessions, OnHangup(s) PROVE AssignInv'
      BY <1>12 DEF OnHangup
<1>15. ASSUME NEW s \in Sessions, TrackOpen(s) PROVE AssignInv'
      BY <1>15 DEF TrackOpen
<1>17. CASE TakeTask
      BY <1>17 DEF TakeTask
<1>18. CASE AddToStream
      BY <1>18 DEF AddToStream
<1>19. CASE Assigned
      BY <1>19 DEF Assigned
<1>20. CASE CallRace
      BY <1>20 DEF CallRace
<1>21. CASE BeginLoop
      BY <1>21 DEF BeginLoop, Called
<1>21a. CASE CopyEntry
      BY <1>21a DEF CopyEntry
<1>21b. CASE CopyFreed
      BY <1>21b DEF CopyFreed
<1>22. CASE CollectTracks
      BY <1>22 DEF CollectTracks
<1>22a. CASE Advance
      BY <1>22a DEF Advance
<1>23. CASE MapRace
      BY <1>23 DEF MapRace
<1>24. CASE SendSamples
      BY <1>24 DEF SendSamples
<1>25. CASE UNCHANGED streamVars
      BY <1>25 DEF streamVars
<1> QED
    BY <1>12, <1>15, <1>17, <1>18, <1>19, <1>20, <1>21, <1>21a, <1>21b, <1>22, <1>22a, <1>23, <1>24, <1>25, OuterSteps DEF MainThread, Camera, Races

\* Every step keeps the earlier ones closed behind a later one.
LEMMA QueueStep == Typed /\ CrashInv /\ [Next]_vars => QueueInv'
<1> SUFFICES ASSUME Typed, CrashInv, [Next]_vars PROVE QueueInv'
    OBVIOUS
<1>c. \A t \in Sessions : Closed(t) => Closed(t)'
      BY SignalsStep, ClosedStays DEF CrashInv
<1>t. /\ tasks \in Seq(Sessions) /\ Len(tasks) \in Nat /\ \A i \in 1..Len(tasks) : tasks[i] \in Sessions
      /\ ready \subseteq Sessions /\ adding \in Sessions \union {None} /\ None \notin Sessions
      BY SessionAssumption DEF Typed, RestOK
<1>q. QueueInv
      BY DEF CrashInv
<1>15. ASSUME NEW s \in Sessions, TrackOpen(s) PROVE QueueInv'
  <2>1. /\ tasks' = Append(tasks, s) /\ UNCHANGED <<adding, ready>>
        /\ pc[s].sig = "stable" /\ pc[s].conn = "new"
        BY <1>15 DEF TrackOpen, cameraVars
  <2>2. client = s
        BY <2>1 DEF CrashInv, PlaceInv
  <2>3. \A t \in Sessions : pc[t].conn # "new" => Closed(t)'
    <3> SUFFICES ASSUME NEW t \in Sessions, pc[t].conn # "new" PROVE Closed(t)'
        OBVIOUS
    <3>1. t # client
          BY <2>1, <2>2
    <3>2. Closed(t)
          BY <3>1, OthersClosed DEF CrashInv
    <3> QED
        BY <1>c, <3>2
  <2>4. \A t \in ready \union ({adding} \ {None}) : t \in Sessions /\ pc[t].conn # "new"
        BY <1>t DEF CrashInv, StreamInv, StreamOnlyOpenTracks
  <2>5. Len(tasks') = Len(tasks) + 1 /\ \A i \in 1..Len(tasks) : tasks'[i] = tasks[i]
        BY <1>t, <2>1
  <2>6. ASSUME NEW i \in 1..Len(tasks'), i < Len(tasks') PROVE pc'[tasks'[i]].sig = "closed"
    <3>1. i \in 1..Len(tasks)
          BY <1>t, <2>5, <2>6
    <3>2. tasks[i] \in Sessions /\ tasks'[i] = tasks[i]
          BY <1>t, <2>5, <3>1
    <3>3. pc[tasks[i]].conn # "new"
          BY <3>1 DEF CrashInv, StreamInv
    <3>4. pc'[tasks[i]].sig = "closed"
          BY <2>3, <3>2, <3>3 DEF Closed
    <3> QED
        BY <3>2, <3>4
  <2>7. \A i \in 1..Len(tasks') : i < Len(tasks') => pc'[tasks'[i]].sig = "closed"
        BY <2>6
  <2>8. \A t \in ready \union ({adding} \ {None}) : Closed(t)'
        BY <2>3, <2>4
  <2> QED
      BY <1>t, <2>1, <2>7, <2>8 DEF QueueInv, Closed
<1>17. CASE TakeTask
  <2>1. tasks # <<>> /\ adding = None /\ tasks' = Tail(tasks) /\ adding' \in {Head(tasks), None} /\ ready' = ready
        BY <1>17 DEF TakeTask
  <2>2. Head(tasks) = tasks[1] /\ Len(tasks) >= 1 /\ Len(tasks') = Len(tasks) - 1
        /\ \A i \in 1..Len(tasks') : i + 1 \in 1..Len(tasks) /\ tasks'[i] = tasks[i + 1]
        BY <1>t, <2>1
  <2>3. \A t \in ready : t \in Sessions /\ Closed(t)
        BY <1>q, <1>t, <2>1 DEF QueueInv
  <2>4. tasks' # <<>> => 1 < Len(tasks)
        BY <1>t, <2>1, <2>2
  <2>5. tasks' # <<>> => tasks[1] \in Sessions /\ Closed(tasks[1])
        BY <1>q, <1>t, <2>2, <2>4 DEF QueueInv
  <2>6. ASSUME NEW i \in 1..Len(tasks'), i < Len(tasks') PROVE pc'[tasks'[i]].sig = "closed"
    <3>1. i + 1 \in 1..Len(tasks) /\ i + 1 < Len(tasks) /\ tasks'[i] = tasks[i + 1]
          BY <1>t, <2>2, <2>6
    <3>2. tasks[i + 1] \in Sessions /\ Closed(tasks[i + 1])
          BY <1>q, <1>t, <3>1 DEF QueueInv
    <3> QED
        BY <1>c, <3>1, <3>2 DEF Closed
  <2>7. \A t \in ready : pc'[t].sig = "closed"
        BY <1>c, <2>3 DEF Closed
  <2>8. tasks' # <<>> => \A t \in {adding'} \ {None} : pc'[t].sig = "closed"
        BY <1>c, <2>1, <2>2, <2>5 DEF Closed
  <2> QED
      BY <2>1, <2>6, <2>7, <2>8 DEF QueueInv, Closed
<1>18. CASE AddToStream
  <2>1. adding # None /\ ready' = ready \union {adding} /\ UNCHANGED <<tasks, adding>>
        BY <1>18 DEF AddToStream
  <2> QED
      BY <1>c, <1>q, <1>t, <2>1 DEF QueueInv, Closed
<1>19. CASE Assigned
  <2>1. adding' = None /\ UNCHANGED <<tasks, ready>>
        BY <1>19 DEF Assigned
  <2> QED
      BY <1>c, <1>q, <1>t, <2>1 DEF QueueInv, Closed
<1>25. CASE UNCHANGED <<tasks, adding, ready>>
      BY <1>c, <1>q, <1>t, <1>25 DEF QueueInv, Closed
<1>12. ASSUME NEW s \in Sessions, OnHangup(s) PROVE UNCHANGED <<tasks, adding, ready>>
      BY <1>12 DEF OnHangup
<1>24. ASSUME Camera \/ Races PROVE UNCHANGED <<tasks, adding, ready>>
      BY <1>24 DEF Camera, BeginLoop, CopyEntry, CopyFreed, CollectTracks, Advance, SendSamples, Races, CallRace, MapRace
<1>26. ASSUME UNCHANGED streamVars PROVE UNCHANGED <<tasks, adding, ready>>
      BY <1>26 DEF streamVars
<1> QED
    BY <1>12, <1>15, <1>17, <1>18, <1>19, <1>24, <1>25, <1>26, OuterSteps DEF MainThread

\* Whenever the camera is at an entry, or may find one half written, someone
\* was streamed to; without a client in the map, that one is closed.
LEMMA SomeoneClosed ==
  ASSUME Typed, CrashInv, ready # {}, client = None
  PROVE  \E t \in ready : Closed(t)
<1>1. PICK t \in ready : t \in Sessions
      BY DEF Typed, RestOK
<1>2. pc[t].conn # "new" /\ t # client
      BY <1>1, SessionAssumption DEF CrashInv, StreamInv, StreamOnlyOpenTracks
<1>3. Closed(t)
      BY <1>1, <1>2, OthersClosed DEF CrashInv
<1> QED
    BY <1>1, <1>3

\* Every step keeps dangling behind a hang-up.
LEMMA EraseStep == Typed /\ CrashInv /\ [Next]_vars => EraseInv'
<1> SUFFICES ASSUME Typed, CrashInv, [Next]_vars PROVE EraseInv'
    OBVIOUS
<1>c. \A t \in Sessions : Closed(t) => Closed(t)'
      BY SignalsStep, ClosedStays DEF CrashInv
<1>r. ready \subseteq Sessions /\ EraseInv
      BY DEF Typed, RestOK, CrashInv
<1>k. ASSUME dangling' => dangling, ready \subseteq ready' PROVE EraseInv'
      BY <1>c, <1>k, <1>r DEF EraseInv, Closed
<1>12. ASSUME NEW s \in Sessions, OnHangup(s) PROVE EraseInv'
  <2>1. CASE client # None /\ iter = client
    <3>1. client \in Sessions /\ pc' = [pc EXCEPT ![client].sig = "closed"] /\ ready' = ready
          BY <1>12, <2>1 DEF OnHangup, Typed, RestOK
    <3>2. Sig(client, "closed")
          BY <3>1, SetSig DEF Typed, Sigs
    <3>3. PICK t \in ready : t \in Sessions
          BY <1>r, <2>1 DEF CrashInv, AssignInv
    <3>4. pc[t].conn # "new"
          BY <3>3 DEF CrashInv, StreamInv, StreamOnlyOpenTracks
    <3>5. t = client \/ Closed(t)
          BY <3>3, <3>4, OthersClosed DEF CrashInv
    <3>6. pc'[t].sig = "closed"
          BY <1>c, <3>2, <3>3, <3>5 DEF Sig, Closed
    <3> QED
        BY <3>1, <3>3, <3>6 DEF EraseInv, Closed
  <2>2. CASE ~(client # None /\ iter = client)
    <3>1. ready' = ready /\ (dangling' => dangling)
          BY <1>12, <2>2 DEF OnHangup
    <3> QED
        BY <1>k, <3>1
  <2> QED
      BY <2>1, <2>2
<1>15. ASSUME NEW s \in Sessions, TrackOpen(s) PROVE EraseInv'
      BY <1>15, <1>k DEF TrackOpen, cameraVars
<1>17. CASE MainThread
      BY <1>17, <1>k DEF MainThread, TakeTask, AddToStream, Assigned, cameraVars
<1>24. CASE Camera \/ Races
      BY <1>24, <1>k DEF Camera, BeginLoop, CopyEntry, CopyFreed, CollectTracks, Advance, SendSamples,
                         Races, CallRace, MapRace
<1>25. CASE UNCHANGED streamVars
      BY <1>25, <1>k DEF streamVars, cameraVars
<1> QED
    BY <1>12, <1>15, <1>17, <1>24, <1>25, OuterSteps

\* No race bites outside of its window.
LEMMA CrashStep == Typed /\ CrashInv /\ [Next]_vars => CrashWindows'
<1> SUFFICES ASSUME Typed, CrashInv, [Next]_vars PROVE CrashWindows'
    OBVIOUS
<1>1. CASE CallRace
  <2>1. /\ onCamBuffer = "assigning" /\ crashed' = "call" /\ UNCHANGED <<pc, ready, adding>>
        BY <1>1 DEF CallRace, serverVars
  <2>2. \A t \in ready \ {adding} : Closed(t)
        BY <2>1 DEF CrashInv, AssignInv, QueueInv
  <2> QED
      BY <2>1, <2>2 DEF CrashWindows, Closed
<1>2. CASE MapRace
  <2>1. iter # None /\ (dangling \/ linking) /\ crashed' = "map" /\ UNCHANGED <<pc, ready>>
        BY <1>2 DEF MapRace, serverVars
  <2>2. \E t \in ready : Closed(t)
    <3>1. CASE dangling
          BY <3>1 DEF CrashInv, EraseInv
    <3>2. CASE linking
      <4>1. ready # {} /\ client = None
            BY <2>1, <3>2 DEF CrashInv, AssignInv, PlaceInv, LinkInv
      <4> QED
          BY <4>1, SomeoneClosed
    <3> QED
        BY <2>1, <3>1, <3>2
  <2> QED
      BY <2>1, <2>2 DEF CrashWindows, Closed
<1>3. CASE Running /\ crashed' = crashed
      BY <1>3 DEF Running, CrashWindows
<1>4. CASE UNCHANGED vars
      BY <1>4 DEF vars, serverVars, streamVars, cameraVars, CrashWindows, CrashInv
<1>5. ASSUME [Next]_vars, ~CallRace, ~MapRace, ~(UNCHANGED vars) PROVE Running /\ crashed' = crashed
  <2>1. Running /\ (UNCHANGED streamVars \/ (\E s \in Sessions : OnHangup(s) \/ TrackOpen(s)) \/ MainThread \/ Camera)
        BY <1>5, OuterSteps DEF Next, Races
  <2>2. ASSUME UNCHANGED streamVars PROVE crashed' = crashed
        BY <2>2 DEF streamVars, cameraVars
  <2>3. ASSUME NEW s \in Sessions, OnHangup(s) \/ TrackOpen(s) PROVE crashed' = crashed
        BY <2>3 DEF OnHangup, TrackOpen, cameraVars
  <2>4. ASSUME MainThread \/ Camera PROVE crashed' = crashed
        BY <2>4 DEF MainThread, TakeTask, AddToStream, Assigned, Camera, BeginLoop, CopyEntry, CopyFreed,
                    CollectTracks, Advance, SendSamples, cameraVars
  <2> QED
      BY <2>1, <2>2, <2>3, <2>4
<1> QED
    BY <1>1, <1>2, <1>3, <1>4, <1>5

\* The data races of the camera thread end the server only when nobody else's
\* stream is running, or after one who was streamed to has been hung up.
THEOREM CrashesInWindows == Spec => []CrashWindows
<1>1. Typed /\ CrashInv /\ [Next]_vars => Typed' /\ CrashInv'
      BY PeersStep, RestStep, OfferStep, CallStep, StreamStep, PlaceStep, AssignStep, QueueStep, EraseStep, CrashStep
         DEF Typed, CrashInv
<1>2. Init => CrashInv
  <2> SUFFICES ASSUME Init PROVE CrashInv
      OBVIOUS
  <2>1. CallInv
        BY DEF Init, CallInv, CallsFirst, NewPC
  <2>2. StreamInv
        BY DEF Init, StreamInv, StreamOnlyOpenTracks
  <2>3. PlaceInv
        BY DEF Init, PlaceInv, LinkInv, NewPC
  <2>4. AssignInv /\ QueueInv /\ EraseInv
        BY DEF Init, AssignInv, QueueInv, EraseInv
  <2>5. CrashWindows
        BY DEF Init, CrashWindows
  <2> QED
      BY <2>1, <2>2, <2>3, <2>4, <2>5 DEF CrashInv
<1>3. CrashInv => CrashWindows
      BY DEF CrashInv
<1> QED
    BY <1>1, <1>2, <1>3, TypedInit, PTL DEF Spec

-----------------------------------------------------------------------------
(* A single call's candidates                                              *)

Says(s, w) == \E i \in 1..Len(up[s]) : up[s][i] = w

\* Inductive: a browser is silent before its socket opens.
SilentInv == \A s \in Sessions :
    /\ sock[s] \in {"unused", "connecting"} => up[s] = <<>> /\ bpc[s] = "none" /\ down[s] = <<>>
    /\ sock[s] = "closed" => bpc[s] = "closed"

\* Inductive: a browser answers an offer, which the server makes after the call.
SpokenInv == \A s \in Sessions :
    \/ bpc[s] \in {"remote", "local", "candidates"} \/ down[s] # <<>>
    \/ Says(s, "answer") \/ Says(s, "addIceCandidate")
    => pc[s].sig # "none"

(* Inductive, for a call that is alone: its offer stands only while it is  *)
(* the client, and a candidate comes behind its answer or after it.        *)
Standing(s)  == pc[s].sig = "offer" => s \in {building, client}
Answering(s) == bpc[s] \in {"local", "candidates"} => pc[s].sig # "offer" \/ Says(s, "answer")
Behind(s)    == \A i \in 1..Len(up[s]) :
                   up[s][i] = "addIceCandidate" => pc[s].sig # "offer" \/ \E j \in 1..(i - 1) : up[s][j] = "answer"

AloneInv == \A s \in Sessions : Alone(s) => Standing(s) /\ Answering(s) /\ Behind(s)

OrderInv == CallInv /\ LinkInv /\ SilentInv /\ SpokenInv /\ AloneInv

\* Every step keeps a browser silent before its socket opens.
LEMMA SilentStep == Typed /\ CallInv /\ SilentInv /\ [Next]_vars => SilentInv'
<1> SUFFICES ASSUME Typed, CallInv, SilentInv, [Next]_vars PROVE SilentInv'
    OBVIOUS
<1> USE SessionAssumption DEF Typed, RestOK, CallInv, SilentInv, browserVars, wireVars, serverVars, cameraVars, streamVars
<1>1. ASSUME NEW p \in Pages, NEW s \in Sessions, Call(p, s) PROVE SilentInv'
      BY <1>1 DEF Call
<1>2. ASSUME NEW s \in Sessions, Open(s) PROVE SilentInv'
      BY <1>2 DEF Open
<1>3. ASSUME NEW s \in Sessions, Offer(s) PROVE SilentInv'
      BY <1>3 DEF Offer
<1>4. ASSUME NEW s \in Sessions, Answer(s) PROVE SilentInv'
      BY <1>4 DEF Answer
<1>5. ASSUME NEW s \in Sessions, Candidate(s) PROVE SilentInv'
      BY <1>5 DEF Candidate
<1>6. ASSUME NEW p \in Pages, Hangup(p) PROVE SilentInv'
      BY <1>6 DEF Hangup
<1>7. ASSUME NEW s \in Sessions, Close(s) PROVE SilentInv'
      BY <1>7 DEF Close
<1>8. ASSUME NEW s \in Sessions, OnCall(s) PROVE SilentInv'
      BY <1>8 DEF OnCall, Receives
<1>9. CASE Emplace
      BY <1>9 DEF Emplace, EmplaceRefused, EmplaceBegins, EmplaceEnds
<1>10. ASSUME NEW s \in Sessions, OnAnswer(s) PROVE SilentInv'
      BY <1>10 DEF OnAnswer, Receives
<1>11. ASSUME NEW s \in Sessions, OnCandidate(s) PROVE SilentInv'
      BY <1>11 DEF OnCandidate, Receives
<1>12. ASSUME NEW s \in Sessions, OnHangup(s) PROVE SilentInv'
      BY <1>12 DEF OnHangup, Receives
<1>13. ASSUME NEW s \in Sessions, OnDisconnect(s) PROVE SilentInv'
      BY <1>13 DEF OnDisconnect
<1>14. ASSUME NEW s \in Sessions, GatheringComplete(s) PROVE SilentInv'
      BY <1>14 DEF GatheringComplete
<1>15. ASSUME NEW s \in Sessions, TrackOpen(s) PROVE SilentInv'
      BY <1>15 DEF TrackOpen
<1>16. ASSUME NEW s \in Sessions, ConnectionLost(s) PROVE SilentInv'
      BY <1>16 DEF ConnectionLost
<1>25. CASE UNCHANGED <<browserVars, wireVars, serverVars>>
      BY <1>25 DEF serverVars
<1> QED
    BY <1>1, <1>2, <1>3, <1>4, <1>5, <1>6, <1>7, <1>8, <1>9, <1>10, <1>11, <1>12, <1>13, <1>14, <1>15, <1>16, <1>25, InnerSteps DEF Browser, BrowserRuns, Seasocks, SocketEvent, PeerConnections

\* Taking a message shifts the others.
LEMMA TakeSays ==
  ASSUME RestOK, NEW s \in Sessions, NEW what, Receives(s, what)
  PROVE  /\ \A t \in Sessions \ {s} : up'[t] = up[t]
         /\ Len(up[s]) >= 1 /\ up[s][1] = what
         /\ Len(up'[s]) = Len(up[s]) - 1
         /\ \A i \in 1..Len(up'[s]) : i + 1 \in 1..Len(up[s]) /\ up'[s][i] = up[s][i + 1]
<1>1. up[s] \in Seq(Messages) /\ up[s] # <<>> /\ Head(up[s]) = what /\ up'[s] = Tail(up[s])
      BY DEF RestOK, Receives
<1>2. \A t \in Sessions \ {s} : up'[t] = up[t]
      BY DEF RestOK, Receives
<1> QED
    BY <1>1, <1>2

\* Taking a message adds none.
LEMMA TakeAddsNone ==
  ASSUME RestOK, NEW s \in Sessions, NEW what, Receives(s, what)
  PROVE  \A t \in Sessions, v \in Messages : (\E i \in 1..Len(up'[t]) : up'[t][i] = v) => Says(t, v)
<1> SUFFICES ASSUME NEW t \in Sessions, NEW v \in Messages, NEW i \in 1..Len(up'[t]), up'[t][i] = v
             PROVE  Says(t, v)
    OBVIOUS
<1>1. CASE t = s
  <2>1. i + 1 \in 1..Len(up[s]) /\ up[s][i + 1] = v
        BY <1>1, TakeSays
  <2> QED
      BY <1>1, <2>1 DEF Says
<1>2. CASE t # s
      BY <1>2, TakeSays DEF Says
<1> QED
    BY <1>1, <1>2

\* Sending a message adds it at the end.
LEMMA SendSays ==
  ASSUME RestOK, NEW s \in Sessions, NEW what \in Messages, up' = [up EXCEPT ![s] = Append(@, what)]
  PROVE  /\ \A t \in Sessions \ {s} : up'[t] = up[t]
         /\ Len(up[s]) \in Nat /\ Len(up'[s]) = Len(up[s]) + 1
         /\ up'[s][Len(up[s]) + 1] = what
         /\ \A i \in 1..Len(up[s]) : up'[s][i] = up[s][i]
<1>1. up[s] \in Seq(Messages) /\ up'[s] = Append(up[s], what)
      BY DEF RestOK
<1>2. \A t \in Sessions \ {s} : up'[t] = up[t]
      BY DEF RestOK
<1> QED
    BY <1>1, <1>2

\* Every step keeps the browsers' answers behind the server's offers.
LEMMA SpokenStep == Typed /\ SpokenInv /\ [Next]_vars => SpokenInv'
<1> SUFFICES ASSUME Typed, SpokenInv, [Next]_vars PROVE SpokenInv'
    OBVIOUS
<1>s. \A t \in Sessions : pc[t].sig # "none" => pc'[t].sig # "none"
      BY SignalsStep DEF Signals
<1> USE SessionAssumption DEF Typed, RestOK, SpokenInv, Says, Messages, browserVars, wireVars, serverVars, cameraVars, streamVars
<1>1. ASSUME NEW p \in Pages, NEW s \in Sessions, Call(p, s) PROVE SpokenInv'
      BY <1>1, <1>s DEF Call
<1>2. ASSUME NEW s \in Sessions, Open(s) PROVE SpokenInv'
      BY <1>2, <1>s DEF Open
<1>3. ASSUME NEW s \in Sessions, Offer(s) PROVE SpokenInv'
      BY <1>3, <1>s DEF Offer
<1>4. ASSUME NEW s \in Sessions, Answer(s) PROVE SpokenInv'
  <2>1. up' = [up EXCEPT ![s] = Append(@, "answer")]
        BY <1>4 DEF Answer
  <2>2. pc[s].sig # "none"
        BY <1>4 DEF Answer
  <2> QED
      BY <1>4, <1>s, <2>1, <2>2, SendSays DEF Answer
<1>5. ASSUME NEW s \in Sessions, Candidate(s) PROVE SpokenInv'
  <2>1. up' = [up EXCEPT ![s] = Append(@, "addIceCandidate")]
        BY <1>5 DEF Candidate
  <2>2. pc[s].sig # "none"
        BY <1>5 DEF Candidate
  <2> QED
      BY <1>5, <1>s, <2>1, <2>2, SendSays DEF Candidate
<1>6. ASSUME NEW p \in Pages, Hangup(p) PROVE SpokenInv'
      BY <1>6, <1>s DEF Hangup
<1>7. ASSUME NEW s \in Sessions, Close(s) PROVE SpokenInv'
      BY <1>7, <1>s DEF Close
<1>8. ASSUME NEW s \in Sessions, OnCall(s) PROVE SpokenInv'
  <2>1. \A t \in Sessions, v \in Messages : (\E i \in 1..Len(up'[t]) : up'[t][i] = v) => Says(t, v)
        BY <1>8, TakeAddsNone DEF OnCall
  <2> QED
      BY <1>8, <1>s, <2>1, ZenonT(60) DEF OnCall
<1>9. CASE Emplace
      BY <1>9, <1>s DEF Emplace, EmplaceRefused, EmplaceBegins, EmplaceEnds
<1>10. ASSUME NEW s \in Sessions, OnAnswer(s) PROVE SpokenInv'
  <2>1. \A t \in Sessions, v \in Messages : (\E i \in 1..Len(up'[t]) : up'[t][i] = v) => Says(t, v)
        BY <1>10, TakeAddsNone DEF OnAnswer
  <2> QED
      BY <1>10, <1>s, <2>1, ZenonT(60) DEF OnAnswer
<1>11. ASSUME NEW s \in Sessions, OnCandidate(s) PROVE SpokenInv'
  <2>1. \A t \in Sessions, v \in Messages : (\E i \in 1..Len(up'[t]) : up'[t][i] = v) => Says(t, v)
        BY <1>11, TakeAddsNone DEF OnCandidate
  <2> QED
      BY <1>11, <1>s, <2>1, ZenonT(60) DEF OnCandidate
<1>12. ASSUME NEW s \in Sessions, OnHangup(s) PROVE SpokenInv'
  <2>1. \A t \in Sessions, v \in Messages : (\E i \in 1..Len(up'[t]) : up'[t][i] = v) => Says(t, v)
        BY <1>12, TakeAddsNone DEF OnHangup
  <2> QED
      BY <1>12, <1>s, <2>1, ZenonT(60) DEF OnHangup
<1>13. ASSUME NEW s \in Sessions, OnDisconnect(s) PROVE SpokenInv'
      BY <1>13, <1>s DEF OnDisconnect
<1>14. ASSUME NEW s \in Sessions, GatheringComplete(s) PROVE SpokenInv'
      BY <1>14, <1>s DEF GatheringComplete
<1>15. ASSUME NEW s \in Sessions, TrackOpen(s) PROVE SpokenInv'
      BY <1>15, <1>s DEF TrackOpen
<1>16. ASSUME NEW s \in Sessions, ConnectionLost(s) PROVE SpokenInv'
      BY <1>16, <1>s DEF ConnectionLost
<1>25. CASE UNCHANGED <<browserVars, wireVars, serverVars>>
      BY <1>25, <1>s DEF serverVars
<1> QED
    BY <1>1, <1>2, <1>3, <1>4, <1>5, <1>6, <1>7, <1>8, <1>9, <1>10, <1>11, <1>12, <1>13, <1>14, <1>15, <1>16, <1>25, InnerSteps DEF Browser, BrowserRuns, Seasocks, SocketEvent, PeerConnections

\* A socket is used once.
LEMMA UsedOnce == Typed /\ [Next]_vars => \A t \in Sessions : sock'[t] = "unused" => sock[t] = "unused"
<1> SUFFICES ASSUME Typed, [Next]_vars PROVE \A t \in Sessions : sock'[t] = "unused" => sock[t] = "unused"
    OBVIOUS
<1> USE DEF Typed, RestOK, browserVars, wireVars, serverVars, cameraVars, streamVars
<1>1. ASSUME NEW p \in Pages, NEW s \in Sessions, Call(p, s) PROVE \A t \in Sessions : sock'[t] = "unused" => sock[t] = "unused"
      BY <1>1 DEF Call
<1>2. ASSUME NEW s \in Sessions, Open(s) PROVE \A t \in Sessions : sock'[t] = "unused" => sock[t] = "unused"
      BY <1>2 DEF Open
<1>3. ASSUME NEW s \in Sessions, Offer(s) PROVE \A t \in Sessions : sock'[t] = "unused" => sock[t] = "unused"
      BY <1>3 DEF Offer
<1>4. ASSUME NEW s \in Sessions, Answer(s) PROVE \A t \in Sessions : sock'[t] = "unused" => sock[t] = "unused"
      BY <1>4 DEF Answer
<1>5. ASSUME NEW s \in Sessions, Candidate(s) PROVE \A t \in Sessions : sock'[t] = "unused" => sock[t] = "unused"
      BY <1>5 DEF Candidate
<1>6. ASSUME NEW p \in Pages, Hangup(p) PROVE \A t \in Sessions : sock'[t] = "unused" => sock[t] = "unused"
      BY <1>6 DEF Hangup
<1>7. ASSUME NEW s \in Sessions, Close(s) PROVE \A t \in Sessions : sock'[t] = "unused" => sock[t] = "unused"
      BY <1>7 DEF Close
<1>8. ASSUME NEW s \in Sessions, OnCall(s) PROVE \A t \in Sessions : sock'[t] = "unused" => sock[t] = "unused"
      BY <1>8 DEF OnCall, Receives
<1>9. CASE Emplace
      BY <1>9 DEF Emplace, EmplaceRefused, EmplaceBegins, EmplaceEnds
<1>10. ASSUME NEW s \in Sessions, OnAnswer(s) PROVE \A t \in Sessions : sock'[t] = "unused" => sock[t] = "unused"
      BY <1>10 DEF OnAnswer, Receives
<1>11. ASSUME NEW s \in Sessions, OnCandidate(s) PROVE \A t \in Sessions : sock'[t] = "unused" => sock[t] = "unused"
      BY <1>11 DEF OnCandidate, Receives
<1>12. ASSUME NEW s \in Sessions, OnHangup(s) PROVE \A t \in Sessions : sock'[t] = "unused" => sock[t] = "unused"
      BY <1>12 DEF OnHangup, Receives
<1>13. ASSUME NEW s \in Sessions, OnDisconnect(s) PROVE \A t \in Sessions : sock'[t] = "unused" => sock[t] = "unused"
      BY <1>13 DEF OnDisconnect
<1>14. ASSUME NEW s \in Sessions, GatheringComplete(s) PROVE \A t \in Sessions : sock'[t] = "unused" => sock[t] = "unused"
      BY <1>14 DEF GatheringComplete
<1>15. ASSUME NEW s \in Sessions, TrackOpen(s) PROVE \A t \in Sessions : sock'[t] = "unused" => sock[t] = "unused"
      BY <1>15 DEF TrackOpen
<1>16. ASSUME NEW s \in Sessions, ConnectionLost(s) PROVE \A t \in Sessions : sock'[t] = "unused" => sock[t] = "unused"
      BY <1>16 DEF ConnectionLost
<1>25. CASE UNCHANGED <<browserVars, wireVars, serverVars>>
      BY <1>25 DEF serverVars
<1> QED
    BY <1>1, <1>2, <1>3, <1>4, <1>5, <1>6, <1>7, <1>8, <1>9, <1>10, <1>11, <1>12, <1>13, <1>14, <1>15, <1>16, <1>25, InnerSteps DEF Browser, BrowserRuns, Seasocks, SocketEvent, PeerConnections

\* Sending keeps the order if a candidate is sent after the answer only.
LEMMA SentBehind ==
  ASSUME RestOK, NEW a \in Sessions, NEW what \in Messages, up' = [up EXCEPT ![a] = Append(@, what)],
         Behind(a), pc' = pc, what = "addIceCandidate" => pc[a].sig # "offer" \/ Says(a, "answer")
  PROVE  Behind(a)' /\ (Says(a, "answer") \/ what = "answer" => Says(a, "answer")')
<1>1. /\ Len(up[a]) \in Nat /\ Len(up'[a]) = Len(up[a]) + 1
      /\ up'[a][Len(up[a]) + 1] = what
      /\ \A i \in 1..Len(up[a]) : up'[a][i] = up[a][i]
      BY SendSays
<1>2. Says(a, "answer") \/ what = "answer" => Says(a, "answer")'
      BY <1>1 DEF Says
<1>3. ASSUME NEW i \in 1..Len(up'[a]), up'[a][i] = "addIceCandidate", pc[a].sig = "offer"
      PROVE  \E j \in 1..(i - 1) : up'[a][j] = "answer"
  <2>1. CASE i \in 1..Len(up[a])
    <3>1. PICK j \in 1..(i - 1) : up[a][j] = "answer"
          BY <1>1, <1>3, <2>1 DEF Behind
    <3> QED
        BY <1>1, <2>1, <3>1
  <2>2. CASE i = Len(up[a]) + 1
    <3>1. PICK j \in 1..Len(up[a]) : up[a][j] = "answer"
          BY <1>1, <1>3, <2>2 DEF Says
    <3> QED
        BY <1>1, <2>2, <3>1
  <2> QED
      BY <1>1, <2>1, <2>2
<1> QED
    BY <1>2, <1>3 DEF Behind

\* Taking keeps it if the answer ends the offer.
LEMMA TakenBehind ==
  ASSUME RestOK, NEW a \in Sessions, NEW what, Receives(a, what), Behind(a),
         pc'[a].sig = "offer" => pc[a].sig = "offer" /\ what # "answer"
  PROVE  Behind(a)' /\ (pc'[a].sig = "offer" /\ Says(a, "answer") => Says(a, "answer")')
<1>1. /\ Len(up[a]) \in Nat /\ Len(up[a]) >= 1 /\ up[a][1] = what /\ Len(up'[a]) = Len(up[a]) - 1
      /\ \A i \in 1..Len(up'[a]) : i + 1 \in 1..Len(up[a]) /\ up'[a][i] = up[a][i + 1]
      BY TakeSays DEF RestOK
<1>2. \A j \in 1..Len(up[a]) : j # 1 => j - 1 \in 1..Len(up'[a]) /\ up'[a][j - 1] = up[a][j]
      BY <1>1
<1>3. pc'[a].sig = "offer" /\ Says(a, "answer") => Says(a, "answer")'
      BY <1>1, <1>2 DEF Says
<1>4. ASSUME NEW i \in 1..Len(up'[a]), up'[a][i] = "addIceCandidate", pc'[a].sig = "offer"
      PROVE  \E j \in 1..(i - 1) : up'[a][j] = "answer"
  <2>a. i \in Nat /\ i + 1 \in 1..Len(up[a]) /\ up[a][i + 1] = "addIceCandidate" /\ pc[a].sig = "offer"
        BY <1>1, <1>4
  <2>b. \E j \in 1..((i + 1) - 1) : up[a][j] = "answer"
        BY <2>a DEF Behind
  <2>1. PICK j \in 1..i : up[a][j] = "answer"
        BY <2>a, <2>b
  <2>2. j # 1 /\ j \in 1..Len(up[a])
        BY <1>1, <1>4, <2>1
  <2> QED
      BY <1>2, <2>1, <2>2
<1> QED
    BY <1>3, <1>4 DEF Behind

\* Every step keeps a single call's candidates behind its answer.
LEMMA AloneStep == Typed /\ OrderInv /\ [Next]_vars => AloneInv'
<1> SUFFICES ASSUME Typed, OrderInv, [Next]_vars, NEW a \in Sessions, Alone(a)'
             PROVE  Standing(a)' /\ Answering(a)' /\ Behind(a)'
    BY DEF AloneInv
<1>a. Alone(a)
      BY UsedOnce DEF Alone
<1>o. \A t \in Sessions \ {a} : sock[t] = "unused" /\ sock'[t] = "unused" /\ up[t] = <<>> /\ pc[t].sig = "none" /\ bpc[t] = "none"
      BY <1>a DEF Alone, OrderInv, CallInv, SilentInv
<1>c. building \in {None, a} /\ client \in {None, a}
      BY <1>o DEF Typed, RestOK, OrderInv, CallInv
<1>i. Standing(a) /\ Answering(a) /\ Behind(a)
      BY <1>a DEF OrderInv, AloneInv
<1>g. (pc'[a].sig = "offer" => pc[a].sig = "offer" \/ building' = a) /\ (pc[a].sig # "none" => pc'[a].sig # "none")
      BY SignalsStep DEF Signals
<1>n. None # a
      BY SessionAssumption
<1> USE DEF Typed, RestOK, Standing, Answering, Behind, Says, Messages, browserVars, wireVars, serverVars, cameraVars, streamVars
<1>1. ASSUME NEW p \in Pages, NEW s \in Sessions, Call(p, s) PROVE Standing(a)' /\ Answering(a)' /\ Behind(a)'
      BY <1>1, <1>o, <1>c, <1>i, <1>g, <1>n DEF Call
<1>2. ASSUME NEW s \in Sessions, Open(s) PROVE Standing(a)' /\ Answering(a)' /\ Behind(a)'
      BY <1>2, <1>o, <1>c, <1>i, <1>g, <1>n DEF Open
<1>3. ASSUME NEW s \in Sessions, Offer(s) PROVE Standing(a)' /\ Answering(a)' /\ Behind(a)'
      BY <1>3, <1>o, <1>c, <1>i, <1>g, <1>n DEF Offer
<1>4. ASSUME NEW s \in Sessions, Answer(s) PROVE Standing(a)' /\ Answering(a)' /\ Behind(a)'
  <2>1. s = a /\ pc' = pc
        BY <1>4, <1>o DEF Answer
  <2>2. up' = [up EXCEPT ![a] = Append(@, "answer")]
        BY <1>4, <2>1 DEF Answer
  <2>3. Behind(a)' /\ (Says(a, "answer") \/ "answer" = "answer" => Says(a, "answer")')
    <3>1. "answer" = "addIceCandidate" => pc[a].sig # "offer" \/ Says(a, "answer")
          BY <1>4, <1>i, <2>1 DEF Answer
    <3> HIDE DEF Says, Behind
    <3> QED
        BY <1>i, <2>1, <2>2, <3>1, SentBehind
  <2> QED
      BY <1>4, <1>i, <2>1, <2>3 DEF Answer
<1>5. ASSUME NEW s \in Sessions, Candidate(s) PROVE Standing(a)' /\ Answering(a)' /\ Behind(a)'
  <2>1. s = a /\ pc' = pc
        BY <1>5, <1>o DEF Candidate
  <2>2. up' = [up EXCEPT ![a] = Append(@, "addIceCandidate")]
        BY <1>5, <2>1 DEF Candidate
  <2>3. Behind(a)' /\ (Says(a, "answer") \/ "addIceCandidate" = "answer" => Says(a, "answer")')
    <3>1. "addIceCandidate" = "addIceCandidate" => pc[a].sig # "offer" \/ Says(a, "answer")
          BY <1>5, <1>i, <2>1 DEF Candidate
    <3> HIDE DEF Says, Behind
    <3> QED
        BY <1>i, <2>1, <2>2, <3>1, SentBehind
  <2> QED
      BY <1>5, <1>i, <2>1, <2>3 DEF Candidate
<1>6. ASSUME NEW p \in Pages, Hangup(p) PROVE Standing(a)' /\ Answering(a)' /\ Behind(a)'
  <2>1. signalObj[p] = a
        BY <1>6, <1>o DEF Hangup
  <2>2. up' = [up EXCEPT ![a] = Append(@, "hangup")] /\ pc' = pc
        BY <1>6, <2>1 DEF Hangup
  <2>3. Behind(a)' /\ (Says(a, "answer") \/ "hangup" = "answer" => Says(a, "answer")')
    <3> HIDE DEF Says, Behind
    <3> QED
        BY <1>i, <2>2, SentBehind
  <2> QED
      BY <1>6, <1>i, <2>2, <2>3 DEF Hangup
<1>7. ASSUME NEW s \in Sessions, Close(s) PROVE Standing(a)' /\ Answering(a)' /\ Behind(a)'
      BY <1>7, <1>o, <1>c, <1>i, <1>g, <1>n DEF Close
<1>8. ASSUME NEW s \in Sessions, OnCall(s) PROVE Standing(a)' /\ Answering(a)' /\ Behind(a)'
  <2>1. s = a /\ building' = a
        BY <1>8, <1>o DEF OnCall, Receives
  <2>2. Receives(a, "call")
        BY <1>8, <2>1 DEF OnCall
  <2>6. 1 \in 1..Len(up[a]) /\ up[a][1] = "call"
        BY <2>2, TakeSays
  <2>3. pc[a].sig = "none"
        BY <2>6 DEF OrderInv, CallInv, CallsFirst
  <2>4. bpc[a] \notin {"local", "candidates"} /\ ~Says(a, "addIceCandidate")
        BY <2>3 DEF OrderInv, SpokenInv
  <2>5. \A i \in 1..Len(up'[a]) : up'[a][i] # "addIceCandidate"
        BY <2>2, <2>4, TakeAddsNone
  <2> QED
      BY <1>8, <2>1, <2>4, <2>5 DEF OnCall
<1>9. CASE Emplace
  <2>1. UNCHANGED <<browserVars, wireVars, pc>>
        BY <1>9 DEF Emplace, EmplaceRefused, EmplaceBegins, EmplaceEnds
  <2>2. Standing(a)'
    <3>1. CASE EmplaceRefused
      <4>1. pc[a].sig = "offer" => client = a
            BY <1>c, <3>1 DEF EmplaceRefused
      <4> QED
          BY <3>1, <4>1 DEF EmplaceRefused
    <3>2. CASE EmplaceBegins
          BY <1>i, <3>2 DEF EmplaceBegins
    <3>3. CASE EmplaceEnds
      <4>1. client' = building /\ pc' = pc /\ (linking => client = None)
            BY <3>3 DEF EmplaceEnds, OrderInv, LinkInv
      <4> QED
          BY <1>i, <1>n, <3>3, <4>1 DEF EmplaceEnds
    <3> QED
        BY <1>9, <3>1, <3>2, <3>3 DEF Emplace
  <2> QED
      BY <1>i, <2>1, <2>2
<1>10. ASSUME NEW s \in Sessions, OnAnswer(s) PROVE Standing(a)' /\ Answering(a)' /\ Behind(a)'
  <2>1. s = a /\ building = None /\ building' = None
        BY <1>10, <1>o DEF OnAnswer, Receives
  <2>2. pc'[a].sig # "offer"
    <3>1. CASE pc[a].sig = "offer"
      <4>1. client = a
            BY <1>c, <1>i, <1>n, <2>1, <3>1
      <4>2. Sig(a, "stable")
            BY <1>10, <1>n, <3>1, <4>1, SetAnswer DEF OnAnswer
      <4> QED
          BY <4>2 DEF Sig
    <3>2. CASE pc[a].sig # "offer"
          BY <1>g, <1>n, <2>1, <3>2
    <3> QED
        BY <3>1, <3>2
  <2>3. Behind(a)' /\ (pc'[a].sig = "offer" /\ Says(a, "answer") => Says(a, "answer")')
    <3>1. Receives(a, "answer")
          BY <1>10, <2>1 DEF OnAnswer
    <3> HIDE DEF Says, Behind
    <3> QED
        BY <1>i, <2>2, <3>1, TakenBehind
  <2> QED
      BY <1>10, <1>i, <2>1, <2>2, <2>3 DEF OnAnswer
<1>11. ASSUME NEW s \in Sessions, OnCandidate(s) PROVE Standing(a)' /\ Answering(a)' /\ Behind(a)'
  <2>1. s = a /\ building = None /\ building' = None
        BY <1>11, <1>o DEF OnCandidate, Receives
  <2>2. pc'[a].sig = "offer" => pc[a].sig = "offer"
        BY <1>g, <1>n, <2>1
  <2>3. Behind(a)' /\ (pc'[a].sig = "offer" /\ Says(a, "answer") => Says(a, "answer")')
    <3>1. Receives(a, "addIceCandidate")
          BY <1>11, <2>1 DEF OnCandidate
    <3> HIDE DEF Says, Behind
    <3> QED
        BY <1>i, <2>2, <3>1, TakenBehind
  <2> QED
      BY <1>11, <1>i, <2>1, <2>2, <2>3 DEF OnCandidate
<1>12. ASSUME NEW s \in Sessions, OnHangup(s) PROVE Standing(a)' /\ Answering(a)' /\ Behind(a)'
  <2>1. s = a /\ building = None /\ building' = None
        BY <1>12, <1>o DEF OnHangup, Receives
  <2>2. pc'[a].sig # "offer"
    <3>1. CASE pc[a].sig = "offer"
      <4>1. client = a
            BY <1>c, <1>i, <1>n, <2>1, <3>1
      <4>2. Sig(a, "closed")
            BY <1>12, <1>n, <4>1, SetSig DEF OnHangup, Sigs
      <4> QED
          BY <4>2 DEF Sig
    <3>2. CASE pc[a].sig # "offer"
          BY <1>g, <1>n, <2>1, <3>2
    <3> QED
        BY <3>1, <3>2
  <2> QED
      BY <2>2
<1>13. ASSUME NEW s \in Sessions, OnDisconnect(s) PROVE Standing(a)' /\ Answering(a)' /\ Behind(a)'
  <2>1. s = a \/ up' = up
        BY <1>13, <1>o DEF OnDisconnect
  <2>2. s = a => up'[a] = <<>> /\ bpc[a] = "closed"
        BY <1>13, <1>a DEF OnDisconnect, OrderInv, SilentInv
  <2> QED
      BY <1>13, <1>i, <2>1, <2>2 DEF OnDisconnect
<1>14. ASSUME NEW s \in Sessions, GatheringComplete(s) PROVE Standing(a)' /\ Answering(a)' /\ Behind(a)'
      BY <1>14, <1>o, <1>c, <1>i, <1>g, <1>n DEF GatheringComplete
<1>15. ASSUME NEW s \in Sessions, TrackOpen(s) PROVE Standing(a)' /\ Answering(a)' /\ Behind(a)'
      BY <1>15, <1>o, <1>c, <1>i, <1>g, <1>n DEF TrackOpen
<1>16. ASSUME NEW s \in Sessions, ConnectionLost(s) PROVE Standing(a)' /\ Answering(a)' /\ Behind(a)'
      BY <1>16, <1>o, <1>c, <1>i, <1>g, <1>n DEF ConnectionLost
<1>25. CASE UNCHANGED <<browserVars, wireVars, serverVars>>
      BY <1>25, <1>o, <1>c, <1>i, <1>g, <1>n DEF serverVars
<1> QED
    BY <1>1, <1>2, <1>3, <1>4, <1>5, <1>6, <1>7, <1>8, <1>9, <1>10, <1>11, <1>12, <1>13, <1>14, <1>15, <1>16, <1>25, InnerSteps DEF Browser, BrowserRuns, Seasocks, SocketEvent, PeerConnections

\* No step gives a single call's PeerConnection a candidate before the answer.
LEMMA StrayStep == Typed /\ OrderInv /\ CandidatesAfterAnswer /\ [Next]_vars => CandidatesAfterAnswer'
<1> SUFFICES ASSUME Typed, OrderInv, CandidatesAfterAnswer, [Next]_vars, NEW a \in Sessions, Alone(a)'
             PROVE  ~pc'[a].stray
    BY DEF CandidatesAfterAnswer
<1>a. Alone(a)
      BY UsedOnce DEF Alone
<1>o. \A t \in Sessions \ {a} : up[t] = <<>> /\ pc[t].sig = "none"
      BY <1>a DEF Alone, OrderInv, CallInv, SilentInv
<1>c. ~pc[a].stray
      BY <1>a DEF CandidatesAfterAnswer
<1> USE SessionAssumption DEF Typed, browserVars, wireVars, serverVars, cameraVars, streamVars
<1>1. ASSUME NEW p \in Pages, NEW s \in Sessions, Call(p, s) PROVE ~pc'[a].stray
      BY <1>1, <1>c DEF Call
<1>2. ASSUME NEW s \in Sessions, Open(s) PROVE ~pc'[a].stray
      BY <1>2, <1>c DEF Open
<1>3. ASSUME NEW s \in Sessions, Offer(s) PROVE ~pc'[a].stray
      BY <1>3, <1>c DEF Offer
<1>4. ASSUME NEW s \in Sessions, Answer(s) PROVE ~pc'[a].stray
      BY <1>4, <1>c DEF Answer
<1>5. ASSUME NEW s \in Sessions, Candidate(s) PROVE ~pc'[a].stray
      BY <1>5, <1>c DEF Candidate
<1>6. ASSUME NEW p \in Pages, Hangup(p) PROVE ~pc'[a].stray
      BY <1>6, <1>c DEF Hangup
<1>7. ASSUME NEW s \in Sessions, Close(s) PROVE ~pc'[a].stray
      BY <1>7, <1>c DEF Close
<1>8. ASSUME NEW s \in Sessions, OnCall(s) PROVE ~pc'[a].stray
  <2>1. Same("stray")
        BY <1>8, SetSig DEF OnCall, Sigs
  <2> QED
      BY <1>c, <2>1 DEF Same
<1>9. CASE Emplace
      BY <1>9, <1>c DEF Emplace, EmplaceRefused, EmplaceBegins, EmplaceEnds
<1>10. ASSUME NEW s \in Sessions, OnAnswer(s) PROVE ~pc'[a].stray
  <2>1. CASE client # None /\ pc[client].sig = "offer"
    <3>1. Same("stray")
          BY <1>10, <2>1, SetAnswer DEF OnAnswer, RestOK, Sigs
    <3> QED
        BY <1>c, <3>1 DEF Same
  <2>2. CASE ~(client # None /\ pc[client].sig = "offer")
        BY <1>10, <1>c, <2>2 DEF OnAnswer
  <2> QED
      BY <2>1, <2>2
<1>11. ASSUME NEW s \in Sessions, OnCandidate(s) PROVE ~pc'[a].stray
  <2>1. s = a /\ Receives(a, "addIceCandidate") /\ building = None
        BY <1>11, <1>o DEF OnCandidate, Receives
  <2>2. 1 \in 1..Len(up[a]) /\ up[a][1] = "addIceCandidate"
        BY <2>1, TakeSays
  <2>3. pc[a].sig # "offer"
        BY <1>a, <2>2 DEF OrderInv, AloneInv, Behind
  <2>4. client # a \/ client = None \/ pc[client].sig # "offer"
        BY <2>3
  <2>5. ~(client # None /\ pc[client].sig = "offer")
        BY <1>o, <2>3 DEF RestOK
  <2> QED
      BY <1>11, <1>c, <2>5 DEF OnCandidate
<1>12. ASSUME NEW s \in Sessions, OnHangup(s) PROVE ~pc'[a].stray
  <2>1. CASE client # None
    <3>1. Same("stray")
          BY <1>12, <2>1, SetSig DEF OnHangup, RestOK, Sigs
    <3> QED
        BY <1>c, <3>1 DEF Same
  <2>2. CASE ~(client # None)
        BY <1>12, <1>c, <2>2 DEF OnHangup
  <2> QED
      BY <2>1, <2>2
<1>13. ASSUME NEW s \in Sessions, OnDisconnect(s) PROVE ~pc'[a].stray
      BY <1>13, <1>c DEF OnDisconnect
<1>14. ASSUME NEW s \in Sessions, GatheringComplete(s) PROVE ~pc'[a].stray
  <2>1. Same("stray")
        BY <1>14, SetGathered DEF GatheringComplete, Sigs
  <2> QED
      BY <1>c, <2>1 DEF Same
<1>15. ASSUME NEW s \in Sessions, TrackOpen(s) PROVE ~pc'[a].stray
  <2>1. Same("stray")
        BY <1>15, SetConn DEF TrackOpen, Sigs
  <2> QED
      BY <1>c, <2>1 DEF Same
<1>16. ASSUME NEW s \in Sessions, ConnectionLost(s) PROVE ~pc'[a].stray
  <2>1. Same("stray")
        BY <1>16, SetConn DEF ConnectionLost, Sigs
  <2> QED
      BY <1>c, <2>1 DEF Same
<1>25. CASE UNCHANGED <<browserVars, wireVars, serverVars>>
      BY <1>25, <1>c DEF serverVars
<1> QED
    BY <1>1, <1>2, <1>3, <1>4, <1>5, <1>6, <1>7, <1>8, <1>9, <1>10, <1>11, <1>12, <1>13, <1>14, <1>15, <1>16, <1>25, InnerSteps DEF Browser, BrowserRuns, Seasocks, SocketEvent, PeerConnections

\* A single call's candidates come after the answer they belong to.
THEOREM CandidatesComeLater == Spec => []CandidatesAfterAnswer
<1>1. Typed /\ OrderInv /\ [Next]_vars => Typed' /\ OrderInv'
      BY PeersStep, RestStep, OfferStep, CallStep, LinkStep, SilentStep, SpokenStep, AloneStep DEF Typed, OrderInv
<1>2. Init => OrderInv
      BY DEF Init, OrderInv, CallInv, LinkInv, CallsFirst, SilentInv, SpokenInv, AloneInv, Standing, Answering, Behind,
             Says, NewPC
<1>3. Init => CandidatesAfterAnswer
      BY DEF Init, CandidatesAfterAnswer, NewPC
<1> QED
    BY <1>1, <1>2, <1>3, TypedInit, StrayStep, PTL DEF Spec
=============================================================================
