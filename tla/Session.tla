------------------------------- MODULE Session -------------------------------
(***************************************************************************)
(* One call, end to end: the page (src/static/main.js, signal.js), the     *)
(* /webrtc handler and createPeerConnection (src/src/server.cpp), the      *)
(* MainThread queue and the camera callback.                               *)
(*                                                                         *)
(* Threads of the server: the seasocks thread (onData, onDisconnect), the  *)
(* threads of libdatachannel (gathering and track callbacks), MainThread   *)
(* and the camera thread.  A session is one signal object of a page: one   *)
(* web socket, one RTCPeerConnection, and on the server the Client and     *)
(* PeerConnection its "call" creates.  All of them share the key "999" of  *)
(* the map clients, so the map is one variable: the session in it, if any. *)
(***************************************************************************)
EXTENDS Naturals, Sequences, FiniteSets

CONSTANTS Pages,      \* browser tabs showing the page
          Sessions,   \* signal objects; each is used for one call() at most
          None,       \* no session
          Hangups,    \* whether users press the hang-up button
          Losses      \* sessions whose socket and peer connection may break

ASSUME SessionAssumption == None \notin Sessions /\ Hangups \in BOOLEAN /\ Losses \subseteq Sessions

VARIABLES
    signalObj,   \* main.js: the session a page's buttons act on
    owner,       \* the page that created a session
    sock,        \* a session's web socket in the browser: "unused", "connecting", "open", "closed"
    bpc,         \* its RTCPeerConnection: "none", "new", "remote" (offer set), "local" (answer set), "candidates" (sent too), "closed"
    up, down,    \* messages in flight on the socket, to the server and to the browser
    srv,         \* the server's WebSocket: "none", "open", "deleted"
    building,    \* the session whose createPeerConnection has returned but is not in the map yet
    linking,     \* whether emplace is writing that session's entry into the map
    client,      \* the session whose Client is clients["999"]
    pc,          \* the server's PeerConnection of a session
    tasks,       \* MainThread: sessions whose addToStream is queued
    adding,      \* the session addToStream is working on (a strong reference to its Client)
    ready,       \* sessions whose Client has state Ready
    onCamBuffer, \* "empty", "assigning" (for the first time or again) or "set"
    iter,        \* the camera callback's loop over clients: None, or the entry its iterator is at
    loop,        \* what it does there: "idle", "copy" (not yet copied), "body" (has a copy), "next"
    dangling,    \* whether the entry at iter has been erased
    tracks,      \* the camera callback: sessions whose tracks it has collected
    sent,        \* sessions that have been sent a sample
    crashed      \* "no", or the data race the server's process died of: "call", "map"

browserVars == <<signalObj, owner, sock, bpc>>
wireVars    == <<up, down>>
serverVars  == <<srv, building, linking, client, pc>>
cameraVars  == <<onCamBuffer, iter, loop, dangling, tracks, sent, crashed>>
streamVars  == <<tasks, adding, ready, cameraVars>>
vars        == <<browserVars, wireVars, serverVars, streamVars>>

(* A PeerConnection: its signaling state, whose answer it was given, the   *)
(* state of its transport and of its video track.                          *)
NewPC    == [sig |-> "none", remote |-> None, gathered |-> FALSE, conn |-> "new", stray |-> FALSE]

Init == /\ signalObj = [p \in Pages |-> None]
        /\ owner = [s \in Sessions |-> None]
        /\ sock = [s \in Sessions |-> "unused"]
        /\ bpc = [s \in Sessions |-> "none"]
        /\ up = [s \in Sessions |-> <<>>] /\ down = [s \in Sessions |-> <<>>]
        /\ srv = [s \in Sessions |-> "none"]
        /\ building = None /\ linking = FALSE /\ client = None
        /\ pc = [s \in Sessions |-> NewPC]
        /\ tasks = <<>> /\ adding = None /\ ready = {}
        /\ onCamBuffer = "empty" /\ tracks = {} /\ sent = {}
        /\ iter = None /\ loop = "idle" /\ dangling = FALSE
        /\ crashed = "no"

\* the camera thread has copied the map's entry of s, and not yet dropped the copy
Copied(s) == loop = "body" /\ iter = s

\* faulty variant: onOpen captures the Client itself: it keeps its own PeerConnection alive
AliveByCallback(s) == s \in {building, client, adding} \/ Copied(s) \/ pc[s].conn = "up"

(* The Client of a session, and with it its PeerConnection, exists while   *)
(* somebody holds a shared_ptr to it; callbacks hold weak ones.            *)
Alive(s) == s \in {building, client, adding} \/ Copied(s)

\* the seasocks thread takes the next message of a socket
Receives(s, what) == /\ building = None
                     /\ srv[s] = "open"
                     /\ up[s] # <<>> /\ Head(up[s]) = what
                     /\ up' = [up EXCEPT ![s] = Tail(@)]

-----------------------------------------------------------------------------
(* Faulty variants, not part of Next.                                      *)

\* Ready at once, not in addToStream
OnCallReady(s) == /\ Receives(s, "call")
                  /\ building' = s
                  /\ pc' = [pc EXCEPT ![s].sig = "offer"]
                  /\ ready' = ready \union {s}
                  /\ UNCHANGED <<browserVars, down, srv, linking, client, tasks, adding, cameraVars>>

\* addToStream forgets startStream
AddToStreamOnly == /\ adding # None
                   /\ ready' = ready \union {adding}
                   /\ adding' = None
                   /\ UNCHANGED <<browserVars, wireVars, serverVars, tasks, cameraVars>>

\* clients[id] = ... instead of emplace: the newcomer takes the key
EmplaceReplaces == /\ building # None /\ client # None
                   /\ client' = building
                   /\ building' = None
                   /\ UNCHANGED <<browserVars, wireVars, srv, linking, pc, streamVars>>

\* the browser sends its candidates before the answer
AnswerAfterCandidate(s) == /\ sock[s] = "open" /\ bpc[s] = "remote"
                           /\ bpc' = [bpc EXCEPT ![s] = "candidates"]
                           /\ up' = [up EXCEPT ![s] = @ \o <<"addIceCandidate", "answer">>]
                           /\ UNCHANGED <<signalObj, owner, sock, down, serverVars, streamVars>>

\* sends the offer on every gathering event
OfferOnEveryEvent(s) == /\ Alive(s) /\ pc[s].sig # "none" /\ srv[s] = "open" /\ sock[s] = "open"
                        /\ down' = [down EXCEPT ![s] = Append(@, "offer")]
                        /\ UNCHANGED <<browserVars, up, serverVars, streamVars>>

\* the offer is lost
GatheringCompleteSilently(s) == /\ Alive(s) /\ pc[s].sig # "none" /\ ~pc[s].gathered
                                /\ pc' = [pc EXCEPT ![s].gathered = TRUE]
                                /\ UNCHANGED <<browserVars, wireVars, srv, building, linking, client, streamVars>>

-----------------------------------------------------------------------------
(* The browser                                                             *)

\* call(): nothing while a signal object is there
Call(p, s) == /\ signalObj[p] = None
              /\ sock[s] = "unused"
              /\ signalObj' = [signalObj EXCEPT ![p] = s]
              /\ owner' = [owner EXCEPT ![s] = p]
              /\ sock' = [sock EXCEPT ![s] = "connecting"]
              /\ UNCHANGED <<bpc, wireVars, serverVars, streamVars>>

\* onopen: a peer connection and the "call"; the server's onConnect does nothing
Open(s) == /\ sock[s] = "connecting"
           /\ sock' = [sock EXCEPT ![s] = "open"]
           /\ srv' = [srv EXCEPT ![s] = "open"]
           /\ bpc' = [bpc EXCEPT ![s] = "new"]
           /\ up' = [up EXCEPT ![s] = <<"call">>]
           /\ UNCHANGED <<signalObj, owner, down, building, linking, client, pc, streamVars>>

\* onmessage "offer": setRemoteDescription succeeds
Offer(s) == /\ sock[s] = "open"
            /\ down[s] # <<>>
            /\ down' = [down EXCEPT ![s] = Tail(@)]
            /\ bpc' = [bpc EXCEPT ![s] = "remote"]
            /\ UNCHANGED <<signalObj, owner, sock, up, serverVars, streamVars>>

\* createAnswer succeeds: setLocalDescription, send the answer
Answer(s) == /\ sock[s] = "open"
             /\ bpc[s] = "remote"
             /\ bpc' = [bpc EXCEPT ![s] = "local"]
             /\ up' = [up EXCEPT ![s] = Append(@, "answer")]
             /\ UNCHANGED <<signalObj, owner, sock, down, serverVars, streamVars>>

\* onicecandidate, from setLocalDescription on; one candidate stands for all
Candidate(s) == /\ sock[s] = "open"
                /\ bpc[s] = "local"
                /\ bpc' = [bpc EXCEPT ![s] = "candidates"]
                /\ up' = [up EXCEPT ![s] = Append(@, "addIceCandidate")]
                /\ UNCHANGED <<signalObj, owner, sock, down, serverVars, streamVars>>

\* hangup(): only a message, the socket and the peer connection stay as they are.
\* While the socket is connecting ws.send throws and nothing changes.
Hangup(p) == /\ Hangups
             /\ signalObj[p] # None
             /\ sock[signalObj[p]] = "open"
             /\ up' = [up EXCEPT ![signalObj[p]] = Append(@, "hangup")]
             /\ signalObj' = [signalObj EXCEPT ![p] = None]
             /\ UNCHANGED <<owner, sock, bpc, down, serverVars, streamVars>>

\* the socket closes (or never opens); onClose resets signalObj, whatever session it names by now
Close(s) == /\ s \in Losses
            /\ sock[s] \in {"connecting", "open"}
            /\ sock' = [sock EXCEPT ![s] = "closed"]
            /\ bpc' = [bpc EXCEPT ![s] = "closed"]
            /\ down' = [down EXCEPT ![s] = <<>>]
            /\ signalObj' = [signalObj EXCEPT ![owner[s]] = None]
            /\ UNCHANGED <<owner, up, serverVars, streamVars>>

\* what the event loop does by itself
BrowserRuns(s) == Open(s) \/ Offer(s) \/ Answer(s) \/ Candidate(s)

Browser == \/ \E p \in Pages : Hangup(p) \/ \E s \in Sessions : Call(p, s)
           \/ \E s \in Sessions : BrowserRuns(s) \/ Close(s)
-----------------------------------------------------------------------------
(* The seasocks thread: WebRTCHandler.  It handles one message at a time.  *)

\* createPeerConnection: the object exists, gathering has begun
OnCall(s) == /\ Receives(s, "call")
             /\ building' = s
             /\ pc' = [pc EXCEPT ![s].sig = "offer"]
             /\ UNCHANGED <<browserVars, down, srv, linking, client, streamVars>>

\* clients.emplace with the key in the map already: nothing is written, the new
\* Client is dropped
EmplaceRefused == /\ building # None /\ client # None
                  /\ building' = None
                  /\ UNCHANGED <<browserVars, wireVars, srv, linking, client, pc, streamVars>>

\* with an empty map a new entry is linked, and nothing keeps the camera thread out
EmplaceBegins == /\ building # None /\ client = None /\ ~linking
                 /\ linking' = TRUE
                 /\ UNCHANGED <<browserVars, wireVars, srv, building, client, pc, streamVars>>

EmplaceEnds == /\ linking
               /\ linking' = FALSE
               /\ client' = building
               /\ building' = None
               /\ UNCHANGED <<browserVars, wireVars, srv, pc, streamVars>>

Emplace == EmplaceRefused \/ EmplaceBegins \/ EmplaceEnds

\* setRemoteDescription on the client in the map, whoever the answer is from;
\* the library refuses it unless an offer is outstanding
OnAnswer(s) == /\ Receives(s, "answer")
               /\ IF client # None /\ pc[client].sig = "offer"
                    THEN pc' = [pc EXCEPT ![client].sig = "stable", ![client].remote = s]
                    ELSE UNCHANGED pc
               /\ UNCHANGED <<browserVars, down, srv, building, linking, client, streamVars>>

\* addRemoteCandidate; it is stray if the peer connection has no remote description yet
OnCandidate(s) == /\ Receives(s, "addIceCandidate")
                  /\ IF client # None /\ pc[client].sig = "offer"
                       THEN pc' = [pc EXCEPT ![client].stray = TRUE]
                       ELSE UNCHANGED pc
                  /\ UNCHANGED <<browserVars, down, srv, building, linking, client, streamVars>>

\* close and erase the client in the map, whoever hangs up; an iterator at the
\* erased entry is left dangling
OnHangup(s) == /\ Receives(s, "hangup")
               /\ IF client # None
                    THEN /\ pc' = [pc EXCEPT ![client].sig = "closed"]
                         /\ client' = None
                         /\ dangling' = (dangling \/ iter = client)
                    ELSE UNCHANGED <<pc, client, dangling>>
               /\ UNCHANGED <<browserVars, down, srv, building, linking, tasks, adding, ready,
                              onCamBuffer, iter, loop, tracks, sent, crashed>>

\* onDisconnect sends on the dead socket and keeps the client; the server then
\* deletes the WebSocket.  What was still on the wire is lost.
OnDisconnect(s) == /\ building = None
                   /\ srv[s] = "open" /\ sock[s] = "closed"
                   /\ srv' = [srv EXCEPT ![s] = "deleted"]
                   /\ up' = [up EXCEPT ![s] = <<>>]
                   /\ UNCHANGED <<browserVars, down, building, linking, client, pc, streamVars>>

\* the messages of a socket in their order, then its end
SocketEvent(s) == OnCall(s) \/ OnAnswer(s) \/ OnCandidate(s) \/ OnHangup(s) \/ OnDisconnect(s)

Seasocks == Emplace \/ \E s \in Sessions : SocketEvent(s)
-----------------------------------------------------------------------------
(* The threads of libdatachannel                                           *)

\* onGatheringStateChange(Complete), once gathering has begun and whatever the
\* signaling state is by now: the offer goes out on the socket that called
GatheringComplete(s) == /\ Alive(s)
                        /\ pc[s].sig # "none" /\ ~pc[s].gathered
                        /\ pc' = [pc EXCEPT ![s].gathered = TRUE]
                        /\ down' = IF srv[s] = "open" /\ sock[s] = "open"
                                     THEN [down EXCEPT ![s] = Append(@, "offer")]
                                     ELSE down
                        /\ UNCHANGED <<browserVars, up, srv, building, linking, client, streamVars>>

\* the transport comes up if the two ends hold each other's description; the
\* track's onOpen dispatches addToStream with a weak reference
TrackOpen(s) == /\ Alive(s)
                /\ pc[s].sig = "stable" /\ pc[s].remote = s /\ pc[s].conn = "new"
                /\ bpc[s] \in {"local", "candidates"}
                /\ pc' = [pc EXCEPT ![s].conn = "up"]
                /\ tasks' = Append(tasks, s)
                /\ UNCHANGED <<browserVars, wireVars, srv, building, linking, client, adding, ready, cameraVars>>

\* onStateChange(Disconnected, Failed): nothing is done
ConnectionLost(s) == /\ s \in Losses
                     /\ Alive(s) /\ pc[s].conn = "up" /\ pc[s].sig # "closed"
                     /\ pc' = [pc EXCEPT ![s].conn = "down"]
                     /\ UNCHANGED <<browserVars, wireVars, srv, building, linking, client, streamVars>>

PeerConnections == \E s \in Sessions : GatheringComplete(s) \/ TrackOpen(s) \/ ConnectionLost(s)
-----------------------------------------------------------------------------
(* MainThread                                                              *)

\* the queued lambda locks its weak reference; a Client that is gone is skipped
TakeTask == /\ adding = None /\ tasks # <<>>
            /\ tasks' = Tail(tasks)
            /\ adding' = IF Alive(Head(tasks)) THEN Head(tasks) ELSE None
            /\ UNCHANGED <<browserVars, wireVars, serverVars, ready, cameraVars>>

\* addToStream: Ready, then startStream, which assigns onCamBuffer for every client anew
AddToStream == /\ adding # None /\ onCamBuffer # "assigning"
               /\ ready' = ready \union {adding}
               /\ onCamBuffer' = "assigning"
               /\ UNCHANGED <<browserVars, wireVars, serverVars, tasks, adding, iter, loop, dangling, tracks, sent, crashed>>

\* the assignment of the std::function is complete
Assigned == /\ onCamBuffer = "assigning"
            /\ onCamBuffer' = "set"
            /\ adding' = None
            /\ UNCHANGED <<browserVars, wireVars, serverVars, tasks, ready, iter, loop, dangling, tracks, sent, crashed>>

MainThread == TakeTask \/ AddToStream \/ Assigned
-----------------------------------------------------------------------------
(* The camera thread.  Nothing orders it with the threads that write what  *)
(* it reads: the std::function onCamBuffer, which it may test and call     *)
(* while MainThread assigns it, and the map, in which an entry may be      *)
(* linked or erased while the loop is at it.  What it reads then is the    *)
(* old value or the new one, or it kills the process; there the model ends.*)

Called == onCamBuffer # "empty" /\ iter = None /\ tracks = {}

\* if (onCamBuffer) onCamBuffer(...) while it is being assigned: it is torn
CallRace == /\ Called /\ onCamBuffer = "assigning"
            /\ crashed' = "call"
            /\ UNCHANGED <<browserVars, wireVars, serverVars, tasks, adding, ready, onCamBuffer, iter, loop, dangling, tracks, sent>>

\* clients.begin(): the entry in the map, or the one that is being linked
BeginLoop == /\ Called
             /\ iter' = IF linking THEN building ELSE client
             /\ iter' # None
             /\ loop' = "copy"
             /\ UNCHANGED <<browserVars, wireVars, serverVars, tasks, adding, ready, onCamBuffer, dangling, tracks, sent, crashed>>

\* auto id_client: a strong reference to the Client
CopyEntry == /\ loop = "copy" /\ ~dangling
             /\ loop' = "body"
             /\ UNCHANGED <<browserVars, wireVars, serverVars, tasks, adding, ready, onCamBuffer, iter, dangling, tracks, sent, crashed>>

\* the entry was erased before it was copied: what is copied from freed memory may
\* still be the old entry, or be the one that took its place, and is no reference
CopyFreed == /\ loop = "copy" /\ dangling
             /\ tracks' \in SUBSET ({iter, client} \cap ready)
             /\ loop' = "next"
             /\ UNCHANGED <<browserVars, wireVars, serverVars, tasks, adding, ready, onCamBuffer, iter, dangling, sent, crashed>>

\* collect the track of a client that is Ready; the copy is dropped
CollectTracks == /\ loop = "body"
                 /\ tracks' = {iter} \cap ready
                 /\ loop' = "next"
                 /\ UNCHANGED <<browserVars, wireVars, serverVars, tasks, adding, ready, onCamBuffer, iter, dangling, sent, crashed>>

\* ++ : there is no second entry
Advance == /\ loop = "next"
           /\ iter' = None /\ loop' = "idle" /\ dangling' = FALSE
           /\ UNCHANGED <<browserVars, wireVars, serverVars, tasks, adding, ready, onCamBuffer, tracks, sent, crashed>>

\* the copy or the ++ reads an entry that is freed, or not yet written
MapRace == /\ iter # None /\ (dangling \/ linking)
           /\ crashed' = "map"
           /\ UNCHANGED <<browserVars, wireVars, serverVars, tasks, adding, ready, onCamBuffer, iter, loop, dangling, tracks, sent>>

\* send to what was collected; a track whose connection is gone refuses the sample
SendSamples == /\ iter = None /\ tracks # {}
               /\ sent' = sent \union {s \in tracks : Alive(s) /\ pc[s].conn = "up" /\ pc[s].sig = "stable"}
               /\ tracks' = {}
               /\ UNCHANGED <<browserVars, wireVars, serverVars, tasks, adding, ready, onCamBuffer, iter, loop, dangling, crashed>>

Camera == BeginLoop \/ CopyEntry \/ CopyFreed \/ CollectTracks \/ Advance \/ SendSamples
Races  == CallRace \/ MapRace

Running == crashed = "no"

Next == Running /\ (Browser \/ Seasocks \/ PeerConnections \/ MainThread \/ Camera \/ Races)

Spec == Init /\ [][Next]_vars

(* Sockets deliver, the browser's event loop and the server's threads run, *)
(* gathering completes, matching peers connect, the camera keeps on giving *)
(* frames.  No user has to press anything and nothing has to break.        *)
Fairness ==
    /\ \A s \in Sessions : /\ WF_vars(Running /\ BrowserRuns(s))
                           /\ WF_vars(Running /\ SocketEvent(s))
                           /\ WF_vars(Running /\ (GatheringComplete(s) \/ TrackOpen(s)))
    /\ WF_vars(Running /\ Emplace)
    /\ WF_vars(Running /\ MainThread)
    /\ WF_vars(Running /\ Camera)

FairSpec == Spec /\ Fairness

-----------------------------------------------------------------------------
(* Properties                                                              *)

Messages == {"call", "answer", "addIceCandidate", "hangup"}

\* types; a browser is sent one offer at most
TypeOK ==
    /\ signalObj \in [Pages -> Sessions \union {None}]
    /\ owner \in [Sessions -> Pages \union {None}]
    /\ sock \in [Sessions -> {"unused", "connecting", "open", "closed"}]
    /\ bpc \in [Sessions -> {"none", "new", "remote", "local", "candidates", "closed"}]
    /\ up \in [Sessions -> Seq(Messages)] /\ down \in [Sessions -> {<<>>, <<"offer">>}]
    /\ srv \in [Sessions -> {"none", "open", "deleted"}]
    /\ {building, client, adding, iter} \subseteq Sessions \union {None}
    /\ {linking, dangling} \subseteq BOOLEAN
    /\ pc \in [Sessions -> [sig : {"none", "offer", "stable", "closed"},
                            remote : Sessions \union {None},
                            gathered : BOOLEAN,
                            conn : {"new", "up", "down"},
                            stray : BOOLEAN]]
    /\ tasks \in Seq(Sessions) /\ onCamBuffer \in {"empty", "assigning", "set"}
    /\ loop \in {"idle", "copy", "body", "next"}
    /\ crashed \in {"no", "call", "map"}
    /\ ready \subseteq Sessions /\ tracks \subseteq Sessions /\ sent \subseteq Sessions

(* Samples are only ever sent on tracks that have opened: from the track's *)
(* callback over MainThread's queue to the state the camera thread reads,  *)
(* no order of the four threads gets ahead of the onOpen event.            *)
StreamOnlyOpenTracks == \A s \in ready \union tracks \union sent : pc[s].conn # "new"

(* When the data races of the camera thread can kill the server.  A torn   *)
(* callback: whenever somebody is added to the stream, but by then every   *)
(* other client it was ever sent to has been hung up - a viewer's stream   *)
(* is not ended by another one's joining.  A map entry that is erased, or  *)
(* not yet written: only once a client that was streamed to has been hung  *)
(* up - calls, refused second calls and losses alone never do it.          *)
CrashWindows ==
    /\ crashed = "call" => \A s \in ready \ {adding} : pc[s].sig = "closed"
    /\ crashed = "map"  => \E s \in ready : pc[s].sig = "closed"

(* A client whose track opened is sent samples, unless it leaves the map,  *)
(* loses its connection or the server dies before.  A session is in the    *)
(* map once, so that whoever has stopped waiting never waits again.        *)
Waits(s) == client = s /\ pc[s].conn = "up" /\ s \notin sent

StreamStarts == (\E s \in Sessions : Waits(s)) ~> (~Running \/ \A s \in Sessions : ~Waits(s))

(* A Client that is not in the map - refused because the key is taken, or  *)
(* erased by a hang-up - is destroyed in the end, with its PeerConnection: *)
(* no callback, loop or queued operation keeps it alive.                   *)
Lingers(s) == pc[s].sig # "none" /\ s \notin {building, client} /\ Alive(s)

ErasedIsFreed == (\E s \in Sessions : Lingers(s)) ~> (~Running \/ \A s \in Sessions : ~Lingers(s))

Alone(s) == \A t \in Sessions \ {s} : sock[t] = "unused"

(* The first call completes - the browser is sent samples - unless it is   *)
(* hung up, broken, joined by another call, or the server dies; it can die *)
(* only of a torn callback.                                                *)
CallCompletes == \A s \in Sessions :
    (sock[s] = "open" /\ Alone(s)) ~> \/ s \in sent \/ crashed = "call"
                                     \/ \A p \in Pages : signalObj[p] # s
                                     \/ pc[s].conn = "down" \/ ~Alone(s)

(* While there is a single call the server is given candidates only after  *)
(* the answer they belong to.                                              *)
CandidatesAfterAnswer == \A s \in Sessions : Alone(s) => ~pc[s].stray

(* What the code says but does not do.                                     *)

(* server.cpp, onStateChange: a disconnected client is removed.            *)
DisconnectedIsRemoved == \A s \in Sessions : (client = s /\ pc[s].conn = "down") ~> client # s

(* WebSocket.h: a WebSocket is deleted by the server when it is finished,  *)
(* so nothing may be sent on it from then on.                              *)
NoSendOnDeletedSocket ==
    [][\A s \in Sessions : pc'[s].gathered # pc[s].gathered => srv[s] # "deleted"]_vars
=============================================================================
