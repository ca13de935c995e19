# A verification development of the camera streaming server

The program is a Raspberry Pi camera that is watched from a browser over WebRTC:
`server.cpp` serves a page and a signalling socket, `video.cpp` records H.264 with
MMAL, `dispatchqueue.cpp` gives the server a worker thread, `frame_queue.cpp`
assembles frames, and `main.js` / `signal.js` are the browser's end. The recorder
stands on code of the Raspberry Pi userland that the repository carries along, of
which three parts are modelled too: the ports of MMAL, its client of the VideoCore
and the event flags of VCOS. Paths below are relative to the repository's inner
`src/` unless they begin with `static/`; `mmal/` and `vcos/` are below
`include/interface/`.

## 1. Inventory

| part | state it keeps | operations | concurrency and failure |
|---|---|---|---|
| Dispatch queue (`dispatchqueue.cpp`) | queue of operations, `quit_`, worker threads, mutex and condition variable | `dispatch`, `removePending`, the worker's handler, the destructor | workers, callers and the destroying thread; notify outside of the lock; operations that never end |
| Frame queue (`frame_queue.cpp`) | free list, pending buffer, queue of frames, temporary buffers | `init`, `write_back`, `read_front`, `clear` | none by itself; limits: empty free list, full buffer, long sequences of fragments |
| Camera callback (`startStream` in `server.cpp`) | the function `onCamBuffer` | write a fragment, read a frame, collect tracks, send | runs on the camera thread beside the seasocks thread and MainThread |
| Signalling (`WebRTCHandler`, `createPeerConnection`, `addToStream`) | the map `clients`, each Client's state, PeerConnection and track | `call`, `answer`, `addIceCandidate`, `hangup`, disconnect; gathering, state and track callbacks | seasocks thread, libdatachannel's threads, MainThread, camera thread; sockets that close |
| Page (`static/main.js`, `static/signal.js`) | `signalObj`, socket, RTCPeerConnection | `call`, `hangup`, socket and peer-connection handlers | several pages and several calls of one page; messages in flight |
| Recorder (`start_recorder` in `video.cpp`) | components, ports, pools, queues, event flags, `init_sem` | setup, the loop, port callbacks, teardown | the components' threads; ten failures that jump to one clean-up label |
| MMAL port (`mmal/core/mmal_port.c`, `mmal/vc/mmal_vc_api.c`, `mmal/core/mmal_component.c`) | `is_enabled`, callback, transit counter and semaphore, internal queue, context pool, callback queue | `enable`, `disable`, `send`, `flush`, `pause`, callbacks and events | the program's threads, the action thread and the VCHIQ thread; five locks; VideoCore refuses or a message fails |
| MMAL client (`mmal/vc/mmal_vc_client.c`) | `refcount`, `usecount`, the pool of waiters | open and close, use and release, the synchronous call, its reply | threads that call, the message thread; uses, releases and messages that fail |
| Event flags (`vcos/generic/vcos_generic_event_flags.c`, `vcos/pthreads/vcos_pthreads.c`) | events, list of waiters, a semaphore and a timer per thread | `set`, `get` with its three ways to wait, the timer | setters, waiters and timer threads; two locks taken in both orders |
| RTP clock of the samples (`server.cpp` 462-482) | the sender's timestamp | compute it from `dts` | 32-bit wrap, unknown time |
| Camera parameters (`video.cpp` 656-926) | a static value per parameter | `mmalcam_next_*` | never called: `change` is `MMALCAM_CHANGE_NONE` |
| `/control` handler, `main.c`, format parsing, layout, seasocks, the rest of the userland | - | - | see section 7 |

How they interact. `main` starts the camera thread (`startCamera`) and serves. The
page opens a socket and sends `call`; the seasocks thread creates a PeerConnection
and puts a Client into `clients` under the key `"999"`. When gathering completes a
libdatachannel thread sends the offer on the raw socket pointer; the browser
answers and sends candidates. When the video track opens, a libdatachannel thread
dispatches `addToStream` to MainThread (a dispatch queue), which marks the Client
Ready and installs `onCamBuffer`. The recorder's loop calls it for every encoded
buffer; it passes the fragment through the frame queue, collects the Ready tracks
from `clients` and sends. The loop sends buffers to three MMAL ports, whose
callbacks, on the action threads of camera and encoder, put them into the
recorder's queues and set an event flag it waits on; enabling, disabling and
creating components are calls over the MMAL client.

What is hard: the condition variable's protocol against the destructor; one
event flag for many buffers; four threads around `clients` and a Client's life,
two of whose variables are read and written without a lock; which order of
messages the one key allows; buffers that change hands between lists, and a
clean-up shared by many failures; a disable that must wait for exactly the
buffers under way; replies that find their caller by a raw pointer; a timeout that
races with the event it waits for. `PROJECT.json` lists each hazard
at its line.

What makes each part correct is stated as the properties of section 3.

## 2. Modules

| module | models | depends on |
|---|---|---|
| `TaskExecutor` | abstract: tasks are submitted, begun in order by an idle thread, finished, discarded, closed | |
| `DispatchQueue` | `dispatchqueue.cpp` | instantiates `TaskExecutor` |
| `DispatchQueue_proofs` | proofs about it | extends it |
| `FrameAssembler` | abstract: fragments are appended to an open frame, frames leave in order | |
| `FrameQueue` | `frame_queue.cpp` | instantiates `FrameAssembler` |
| `FrameQueue_proofs` | proofs about it | extends it |
| `StreamPump` | the frame queue's one user | extends `FrameQueue` |
| `StreamPump_proofs` | proofs about it | extends it |
| `Session` | the page, the `/webrtc` handler, MainThread, the camera callback's tracks | |
| `Session_proofs` | proofs about it | extends it |
| `FramePipeline` | the recorder's loop and its port callbacks | |
| `Recorder` | `start_recorder` around the loop | extends `FramePipeline` |
| `Recorder_proofs` | proofs about the recorder and the pipeline inside of it | extends `Recorder` |
| `PortContract` | abstract: what a port promises its user, on which `FramePipeline` relies | |
| `MmalPort` | a port and its callbacks, the action thread, the VCHIQ thread | instantiates `PortContract` |
| `MmalPort_proofs` | proofs about it | extends it |
| `RemoteCalls` | abstract: each call gets its own answer or is refused | |
| `VcClient` | `mmal_vc_client.c` under the life of components | instantiates `RemoteCalls` |
| `VcClient_proofs` | proofs about it | extends it |
| `EventGroup` | abstract: what `vcos_event_flags.h` promises | |
| `EventFlags` | the event flags and the task timer | instantiates `EventGroup` |
| `EventFlags_proofs` | proofs about it | extends it |
| `MC*` | the constants' values for TLC | |

Every module with actions also holds a few *faulty variants*: an operation with a
plausible bug. They are not part of the next-state relation; put in the place of
the operation each makes a property fail, which shows that the property is about
the code.

### DispatchQueue
A worker is `ready` (it needs the mutex to go on: just started, woken, or back from
an operation), `waiting` on the condition variable, `running` an operation
unlocked, or `done`. What happens under the mutex is one action (`Sleep`, `Take`,
`Exit`), so is `dispatch` up to its unlock; `notify_one` after the unlock is
`NotifyOne`, with any sleeping worker woken or none. The destructor is `SetQuit`
(under the lock), `NotifyAll`, one `Join` per thread, `Destroy`. Spurious wake-ups
are modelled. The two overloads of `dispatch` are one action. Assumed, as C++
demands: calls return before the object is gone.

### FrameQueue and StreamPump
A buffer is a name; the lists are sequences of names and `buf` says what each
holds: flags, length and the fragments it came from instead of bytes. `write_back`
is one action per way through it, including the one in which the loop over
temporary buffers empties the free list (`Crash`: the code then pops an empty deque
and uses a deleted buffer). `InitQueue` may be called again. `StreamPump` restricts
the calls to what the camera callback does: one write, then one read.

### Session
A *session* is one signal object of a page: its socket, its RTCPeerConnection, and
on the server the Client and PeerConnection its `call` creates. The map has one key,
so it is the variable `client`. A Client exists while somebody holds a strong
reference (`Alive`): the handler that builds it, the map, MainThread's current
`addToStream` or the camera thread's copy of the entry; callbacks hold weak ones.
`OnCall`/`Emplace` are separate because `createPeerConnection` starts gathering
before `emplace` runs. `SocketEvent` keeps the order of a socket's messages;
`Close` and `OnDisconnect` drop what is in flight. `CollectTracks` and
`SendSamples` are separate because hang-ups and new calls happen in between.

The camera thread shares two things with the others without a lock, and every step
that touches them is split so that the others come between its halves.
* `onCamBuffer`: MainThread assigns it for every client that is added, the first and
  each later one (`AddToStream`, `Assigned`), while the camera thread tests and
  calls it (`CallRace`).
* the map: `emplace` links an entry (`EmplaceBegins`, `EmplaceEnds`; with the key
  taken it writes nothing, `EmplaceRefused`) and `OnHangup` erases one, while the
  camera thread takes `begin()` (`BeginLoop`), copies the entry (`CopyEntry`), uses
  the copy (`CollectTracks`) and goes on (`Advance`). An entry erased under the
  iterator is `dangling`: what is copied from it is no reference (`CopyFreed`).

A race may go unnoticed or end the process (`CallRace`, `MapRace`), which `crashed`
records; the model ends there. libdatachannel and the browser's RTCPeerConnection
are external: an offer is made, an answer is refused unless an offer is
outstanding, the transport comes up when both ends hold each other's description.

### FramePipeline and Recorder
Raw buffers go `rawPool -> atCamera -> queueIn -> atEncoder -> rawPool`, coded ones
`codedPool -> atOutput -> queueOut -> held -> codedPool`; `frame` is the number of
the frame in a buffer. The loop's program counter is `pc`; each send is a step. A
port callback is two steps, the buffer and the event (`raising` in between).
`Wait` returns with or without an event, because `vcos_event_flags_get` has a
timeout. A refused send ends the loop. The model is of the non-tunnelled setup, the
one both programs use.

`enabled` are the ports that are. `DisablePort` is `disable_port`, which looks at
`is_enabled` and drops what `mmal_port_disable` returns: a disable that succeeds
hands the port's buffers to its callback and waits for callbacks under way
(`Disabled`); one that fails sets `is_enabled` again and leaves the buffers and the
callbacks (`DisableFails`); `failed` are the ports whose last disable did.
`MmalPort` has the same two outcomes (`Disabled`, `Reenable`).

`Recorder` adds the setup, whose steps succeed or fail, and the teardown: `exists`
is what is allocated, `named` what the local pointers name, `twice` what was
destroyed while it did not exist, and `kept` the components MMAL would not destroy. A
second destroy of the same memory is undefined: it passes or ends the program
(`aborted`). `mmal_port_pool_destroy` and `mmal_component_destroy` disable a port
that is still enabled once more (`DisableAgain`), which may fail again: so it is
after a setup that failed behind `connect_ports`, which jumps over the disables of
the loop, and after a disable that failed. Until its component's action thread is
joined (`DestroyPart`) such a port runs callbacks, whatever is gone by then
(`RunsCallback`); one that uses a pool, a queue or the event flags that are destroyed
may end the program (`LateCallback`). The two calls of `mmal_component_disable`
(`video.cpp:1179`) are no step: their status is ignored too, so camera and encoder may
go on behind them, and a component that stops is one that takes no further step.

### MmalPort
An unconnected, zero-copy port, which is what the recorder uses. Threads of the
program are in a call or idle; each point where a call takes a lock, waits for
VideoCore or for buffers is a value of `pc`. `portLock` stands for
`connection_lock` and `lock`, which are taken together; `sendLock` and
`actionLock` are the other two. `IN_TRANSIT_INCREMENT` may block on the
semaphore and is part of the send; `IN_TRANSIT_WAIT` is two steps. VideoCore holds
buffers, gives them back in any order, answers or refuses; before it says
that a flush or a disable succeeded it has given all back, as the comment in
`mmal_vc_port_disable` demands. The VCHIQ thread queues what comes back and then
signals the action thread, in two steps; callbacks begin (`Calls`) and end
(`CallReturns`) separately, since the program may send the buffer again in
between. A failed disable deletes the pool of client contexts while VideoCore
may hold some: the buffers in `stale` record them, and using one may end the program
(`aborted`). `PortContract` is the port as `FramePipeline` takes it.

### VcClient
A thread creates a component, makes calls on it and destroys it; the first one opens
the service and the last one closes it. Each step is what happens under
`client.lock`, or between two semaphores: in particular `Take` (the pool's
semaphore) and `Scan` (looking for the free waiter) are separate, and so are
`Clear` and the post in `Returns`, which run without the lock. `Use` may fail, and
as in the code nobody looks: neither `mmal_vc_client.c:557` nor
`mmal_vc_api.c:1354`. `misses` and `stuck` are history variables that count the
failed uses and releases since the service was opened; `AwakeWhileNeeded` says
that the use count is off by exactly these.

### EventFlags
A get that waits puts itself into `waiters` and, with a timeout, arms its
thread's timer while it holds the flags' lock (`GetWaitsTimed`, `Arm`); a timer
that expires holds its own lock and takes the flags' lock (`Expire`,
`RemoveBlock`, `Post`, `Finish`). What the code does under one lock without taking
another is one step. `Set` wakes everyone it satisfies; the order of the list
tells nothing apart, because each of them sees the same events.

## 3. Runs

| run | instance | shows |
|---|---|---|
| `dispatch_queue` | 3 workers, 2 callers, 3 operations; fair | no lost wake-up (`WakeupsCoverQueue`), nobody asleep during the joins, an operation in one place, the refinement of `TaskExecutor` with its fairness; if operations terminate the destructor returns |
| `frame_queue_api` | pool of 1, 2 temporaries, buffers of 3 bytes, 3 fragments each | buffers are owned once and never leak, the pool survives, a frame with a configuration in any of its parts begins with one and ends at its first frame end, refinement of `FrameAssembler` |
| `stream_pump` | pool of 2 | no temporary buffer is ever allocated, no frame lags |
| `session_safety` | 2 pages, 2 sessions, hang-ups and losses | samples only on open tracks; at most one offer; when the data races can kill the server (`CrashWindows`): a torn callback whenever somebody joins, but no other viewer who was not hung up loses a stream by it; a map entry only after a viewer was hung up |
| `session_live` | 1 page, 2 sessions of which one may break; fair | an opened track is streamed to, clients that were erased or refused are destroyed, the first call completes, candidates come after the answer |
| `recorder` | 2 raw and 2 coded buffers, 2 frames, everything may fail: setup, sends, disables, destroys; fair | buffers conserved, order kept, `init_sem` posted once, balanced teardown, pools before components; a port is quiescent at the end of the loop and when its pool goes unless its own last disable failed; captured frames are delivered; a stopped recorder returns, or is ended by what a failed disable left |
| `mmal_port` | 2 threads, 1 buffer, 1 event, failures; fair | the transit counter is exact, no call through the reset callback, the pool idle when it is deleted, refinement of `PortContract`; every call returns, what came back is called back |
| `vc_client` | 3 threads, 2 waiters, failures | a waiter is always found, each reply wakes its caller and no other, VideoCore awake while it is needed, refinement of `RemoteCalls` |
| `event_flags` | 2 threads, 2 events, three kinds of get; fair | no stale wake-up or expiration, refinement of `EventGroup` with its fairness: gets that are satisfied or timed return |
| `session_disconnected` | 1 page, 1 session; fair | *violated*: the comment "remove disconnected client" |
| `session_deleted_socket` | 1 page, 1 session; fair | *violated*: nothing is sent on a deleted WebSocket |
| `recorder_destroy` | as `recorder` | *violated*: a pool is destroyed once |

### Bounds and why they are enough
* Dispatch: three workers let one sleep, one run and one race for the lock;
  three operations keep all of them busy. An operation is dispatched once
  (`dispatched`), since operations are interchangeable.
* Frame queue: `MaxParts` bounds the fragments in a buffer, `Temporaries` how many
  temporary buffers live at once; a pool of one with two temporaries is the smallest
  in which a temporary stands before, behind and without a buffer of the pool in
  the free list. Lengths reach the buffer's size exactly and exceed it by one.
* Session: a session is used for one call, so two sessions are two calls, of one
  page after another or of two pages at once; that is all the one key "999" can
  confuse. One candidate stands for all of a browser. `Losses` are the sessions that
  may break: both for safety, either one (they are alike until one is used) in the
  fair runs.
* Recorder: with two buffers one can wait behind another at every station.
  `MaxFrames` bounds the capture; of two frames one can overtake, be lost or arrive
  twice. That a buffer which has carried a frame carries another one needs a third;
  the safety properties, theorems for every number of frames, cover it.
* MMAL port: two threads meet at every lock, with the action thread and the VCHIQ
  thread as third and fourth. One buffer is enough for the counter, because it can
  be in a callback that still runs and be sent again, and for a callback queue of
  two, because there is an event (`MaxEvents`). More than one buffer is out of
  TLC's reach within minutes.
* MMAL client: one thread more than waiters, so that one waits for the pool.
  `MaxMisses` bounds the failed uses between two openings; two let the use
  count go below what one call would repair.
* Event flags: two threads with three kinds of request (any event with a timeout,
  which is the recorder's; all events without one; a poll) and sets and clears
  of two events. Timers, semaphores and lists are per thread, and two waiters already
  compete for what they consume.
* `CHECK_DEADLOCK FALSE` where the system may rest: sessions used up, recorder
  returned, an aborted frame queue, a port after an abort. The dispatch queue, the
  MMAL client, the event flags and the pump are checked for deadlock.

### Fairness and why the code justifies it
Threads that can run do run; a lock that is free again and again is granted in the
end (strong fairness where a loop of other threads passes it around: the calls and
the action thread of `MmalPort`, `RemoveBlock` of `EventFlags`); the event loop of
a browser, seasocks and libdatachannel go on; time passes, so that a timer that
is set expires; VideoCore answers what it is asked, and gives buffers back while
it is asked to. *Not* assumed: that a user presses anything, that anything
breaks, that an operation returns (only as the hypothesis of `DtorReturns`), that
the camera captures, that VideoCore gives back a buffer nobody asks for, that
anybody calls `get`, `set` or a port, or that `*stop` is set. In `session_*` the
camera delivers frames, as the recorder's loop is shown to. In `recorder` the
fairness of the loop, of the setup and of the teardown is that of the one thread that
runs `start_recorder`; a callback that has begun sets its event (`SetEvent`) also
when the loop is over, because it runs on the component's thread.

## 4. Disagreements found
1. `server.cpp:550`: `// remove disconnected client` stands above code that is
   commented out; the dead client keeps the key and refuses every later call.
2. `server.cpp:577`: the gathering callback sends on a raw `WebSocket*` which the
   server may have deleted, and on a thread `WebSocket.h:50` rules out.
3. `video.cpp:647`: when the encoder's input port cannot be enabled,
   `connect_ports` destroys pool and queue and `start_recorder` does so again.

## 5. Proofs
The theorems hold for all values of the constants under their `ASSUME`s.

* `DispatchQueue_proofs`. `TypeCorrect` and `EachInOnePlace` are inductive with
  little help. `NoSleeperDuringJoin` needs that nobody begins to wait
  while `quit` holds. `WakeupsCoverQueue` is a counting argument: the number of
  queued operations never exceeds the workers on their way to the lock plus the
  callers about to notify while somebody sleeps; the proof rests on lemmas about
  adding and removing one element of a finite set. `PoolImplementsExecutor` maps
  every step to a step of the abstract executor or a stutter (its fairness part is
  model-checked only).
* `FrameQueue_proofs`. `QueueInv` is `TypeOK`, `Owned` (every buffer that exists is in
  one of the three lists, once, whichever operation moved it) and `Filled` (what the
  lists say of a buffer's contents: the pending one begins with a configuration and no
  part behind its head ends a frame; one that waits has, if any of its parts is a
  configuration, one at its head and its first frame end at its end). It gives `BuffersOwnedOnce`,
  `PoolNeverDeleted`, `ConfigLeavesWithFrame` and `QueueImplementsAssembler`; the
  last needs `Owned`, since a buffer in two lists would change a frame that waits.
* `StreamPump_proofs`. The inductive invariant says that the three lists hold
  buffers of the pool only, `Capacity` of them together, at most one
  outside the free list; hence with at least one buffer the free list is never
  empty at the start of a frame. `PumpAssumption` (capacity at least one) is the
  encoder's recommended buffer number times three.
* `Recorder_proofs`. `AllInv` has three parts. `PortInv`: a port that is disabled and
  did not fail has no buffer and no callback, and the three disables of the loop leave
  each port disabled or failed. `StageInv`: only the loop sends, with all ports
  enabled, and it is left through the disables, so that anywhere else the pipeline is
  at rest or has been disabled. `RecorderInv` says at every point of `start_recorder`
  what exists and what the pointers may name besides; it gives `PostedOnce` and
  `Balanced`. `LoopEndsQuiescent` and `PoolsDestroyedFirst` need the first two, where
  a failed disable, a second one and a component that goes while a port is still
  enabled each have a case of their own. About the pipeline inside: `Lists` and
  `Counts` are the types; `Apart` says that the places of a buffer set share no buffer
  two by two and cover the set, which is `BuffersConserved`; `Line` says that the
  frames ascend along the stations of the line and are at most those captured, which
  implies `InOrder`.
* `Session_proofs`, for any numbers of pages and sessions. `Typed` adds to the types
  that an offer under way is one that gathering has made. `StreamInv` follows the
  `onOpen` event over MainThread to the camera thread. `CrashInv` shows when the data
  races can kill the server: a socket's call comes first and only once (`CallInv`), an
  entry is only linked into an empty map (`LinkInv`), only the client in the map is
  stable and a connection comes up only then (`PlaceInv`); the camera calls nothing
  before something was added (`AssignInv`), whoever is added comes after the others
  were closed, in the queue too (`QueueInv`), and an entry dangles only after a client
  that was streamed to was hung up (`EraseInv`). `OrderInv` gives `CandidatesAfterAnswer`: a
  browser is silent before its socket opens (`SilentInv`), what it says after an
  offer follows its call (`SpokenInv`), and for a session that is alone a candidate
  comes behind its answer or after it (`AloneInv`).
* `MmalPort_proofs`, for any set of threads, any finite pool, any number of events,
  whatever fails. The inductive invariant has a part for each question. `LockInv`,
  `PhaseInv`: what a thread's place says of the three locks, of `is_enabled` and of
  what its call has read. `RequestInv`: one request is under way at most, the one of
  the thread that holds the connection lock. `ItemInv`: what a queue or a message may
  hold. `PlaceInv`: each buffer is in one place, where a buffer under the callback
  is not the program's yet; with `CountInv` the counter is exactly the number of
  buffers in transit (`CounterExact`). `RestInv`: a disabled port has none of them
  once `mmal_port_disable` has waited for the counter. `EventInv`: VideoCore's
  answer to a disable is the last thing it sends for the port, so that nothing
  arrives behind the reset of the callback (`CallbackSet`) or finds a deleted pool
  (`PoolIdle`). For `PortImplements` the abstract state is read off the thread that
  holds the connection lock; each step either turns it or moves the count, and the
  two kinds are mapped apart. `SoundInv` says that stale contexts need a
  failure, hence `AbortsOnlyAfterFailure`: the assertion in the host callback cannot
  fire as long as every send works.
* `VcClient_proofs`, for any finite set of threads and any number of waiters.
  `CountInv` counts the threads at each place: the pool's semaphore and the threads
  it let through make up the pool, the use count is what is claimed. `HolderInv`
  says that the waiters in use are those the threads hold. `WaiterFound` is then
  the pigeonhole argument: fewer threads than waiters hold one. `AnswerInv` gives
  `ClientImplementsCalls`.
* `EventFlags_proofs`, for any set of threads. `ArmInv` says who holds the lock while
  a timer is set and who has a routine; with `NoStaleWakeup`, which is inductive
  beside it, every step maps to one of the event group or a stutter.

Assumed are finite sets where things are counted (callers, buffers, threads) and
that names of different kinds differ (in `PortAssumption`: a buffer is neither an
action, an event nor the result of a call).

Every safety invariant and action property that a passing run checks is a theorem.
Only model-checked: all liveness and the fairness parts of the refinements
(`ImplementsExecutor`, `ImplementsEventGroup`: their safety parts are theorems),
since liveness under fairness is beyond the prover.

## 6. Plan
The order was: dispatch queue; frame queue and its user; session; pipeline and
recorder; then the parts the recorder stands on, from what `FramePipeline` takes
for granted (`DisableVideo` and its like: `MmalPort`; `Wait` and `SetEvent`:
`EventFlags`; the failures of the setup: `VcClient`). All of it is done, with
proofs for every safety property. What would add next: liveness of `MmalPort` with
two buffers, on a larger machine, since no theorem covers it; and `Recorder` over
`PortContract` itself in place of the steps it takes for granted.

## 7. Not modelled
* Of the port: callbacks that send on their own port (`mmal_port.c:797` orders the
  locks for them): the recorder sends from its loop only. Event buffers are released
  by the recorder, not sent back. An enable that finds no memory for the pool of
  contexts (`mmal_vc_api.c:240`), and a send that finds a bad handle in its message
  (`mmal_vc_api.c:641-651`) and leaves the context in use: the handles are those
  VideoCore gave when it created the component.
* Exceptions of libdatachannel in the `/webrtc` handler: a refused description or
  candidate leaves the handler without effect on the map; what seasocks makes of the
  exception is not in the repository's sources.
* `/control` echoes and has no state. `main.c` includes a `video.c` that does not
  exist and is not built; its use of `init_sem` and `stop` is `Recorder`'s caller.
* RTP timestamps (`server.cpp` 462-482): arithmetic on one sample, without
  interleaving, by way of conversions of libdatachannel that are not in the
  repository.
* Camera parameters (`mmalcam_next_*`, `video.cpp` 656-926): both programs set
  `MMALCAM_CHANGE_NONE`, so the loop never calls them.
* Tunnelled ports, file output, autofocus events, event buffers of the recorder: not
  enabled by the server.
* Of MMAL: connections between ports, bulk transfers and their flush, parameters,
  formats, payload allocation, statistics; the recorder uses zero copy and
  connects nothing in the core. Of `vcos_pthreads.c` only the task timer and the
  thread's semaphore.
* VCHIQ and its kernel driver: modelled by what the MMAL client relies on, that a
  message arrives once and in order. Khronos, TV service, OpenMAX IL and the other
  services of the userland: carried along, never called by the program.
  `nlohmann/json.hpp`: a vendored library whose results are the fields of messages.
* Bytes, SDP, JSON, logging; seasocks and libdatachannel beyond what the program
  relies on.
