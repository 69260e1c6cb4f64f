# A TLA+ model of adbd

adbd is the device side of the Android Debug Bridge, ported to plain Linux
(`src/src/adbd`). A host connects over TCP or USB, opens streams, and adbd
connects each stream to a service: a shell, a file transfer, a local socket.
Programs on the device may in turn ask for services of the host through a
local port. This directory holds TLA+ modules that model the parts of adbd in
which threads, callbacks, processes and packets meet, TLC configurations that
check them on small instances, and proofs of the safety properties for
instances of any size.

Source paths below are relative to `src/src/adbd`.

## The system

| part | state | operations | talks to |
|---|---|---|---|
| transports (`transport.c`) | `transport_list`, reference count, `kicked`, connection state, two socketpair ends per transport | register, output thread, input thread, kick, unref, remove | main thread over a socketpair per transport and a registration socketpair; the connection |
| packet handling (`adb.c`) | `online`, `connection_state` | `handle_packet` for SYNC, CNXN, AUTH, OPEN, OKAY, CLSE, WRTE | transports, sockets |
| sockets (`sockets.c`) | list of local sockets, closing list, packet queue of each socket, disconnect list of each transport | enqueue, ready, close, event function, `close_all_sockets` | fdevents, remote sockets, transports |
| smart socket (`sockets.c`, `adb.c`) | the request read so far; replaced `ready` and `close` functions | accept, enqueue, close, notifications | sockets, `acquire_one_transport` |
| event loop (`fdevent.c`) | state word and pending events of each fdevent, pending list, `fd_table`, epoll's interest list | install, remove, set, add, del, poll, dispatch, shell-exit notification | everything on the main thread |
| TCP transport (`transport_local.c`) | listening socket, connection descriptor | accept, read, write, kick, close | transports |
| USB transport (`usb_linux_client.c`, `transport_usb.c`) | one handle with its endpoint descriptors, lock and condition | open thread, read, write, kick | transports |
| authentication (`adb_auth_client.c`, `base64.c`) | key list, framework socket | token, verify, confirm | packet handling, fdevents |
| services (`services.c`, `framebuffer_service.c`, `log_service.c`, `remount_service.c`) | a thread or a process per stream; the numbers of descriptors whose shell has exited | start, output, exit, wait, notify | a descriptor of a local socket; child processes; the event loop over a socketpair |
| file sync (`file_sync_service.c`) | a thread per stream with one open file | STAT, LIST, SEND, RECV, QUIT | the file system, which all sessions share |
| JDWP (`jdwp_service.c`) | list of processes, trackers | connect, list, track | fdevents, sockets |

What is hard here:

* **Threads.** Three threads share a transport, and any of the packets, a lost
  connection, a kick and the removal may come in any order
  (`kick_transport`, `transport_unref_locked`, `close_all_sockets` in the input
  thread). `send_packet` on a closed transport ends the daemon.
* **Callbacks.** A callback may remove or change any fdevent that the same
  round of the loop has already queued, and `fdevent_update` infers what the
  kernel knows from its own state word.
* **Flow control and closing.** A stream has one credit per direction, short
  writes, and a close that may come from the service, the host, a write error,
  a new session or a lost connection, with data still queued.
* **Reconnection.** Transports come and go while others live; over USB they
  share one handle.
* **Numbers and processes.** A descriptor number is passed from thread to
  thread and kept in tables, and the kernel gives it to somebody else as soon as
  it is closed. All services wait for processes of one parent, some for any.
* **Failure half way.** A push may fail at any chunk, while the host goes on
  sending and another session works on the same path.

What correctness means for each part:

* *Transports*: nothing is freed while in use or freed twice; the connection is
  shut down once; nothing is sent after the end; the packets of main reach the
  host in order and without gaps; a lost connection ends in a freed transport.
* *Packet handling*: streams exist only inside a session, and no stream
  survives the CNXN with which the host starts over.
* *Sockets*: exactly one credit per direction; no byte lost, repeated or
  reordered; nothing after CLSE; a closed socket drains and goes; both ends
  agree that a stream is closed.
* *Smart socket*: a client hears OKAY or FAIL at most once, and before any data.
* *Event loop*: only installed fdevents are called; the kernel watches what the
  state words say; the loop itself never causes `epoll_ctl` to fail.
* *Services*: a stream is closed only when the host asks for it or its service
  has ended; a shell that exits is waited for and its stream ends; a screen
  shot comes to an end.
* *File sync*: OKAY means a whole file, a failed push leaves none, each request
  has one answer, a pull and a listing are complete.
* *Authentication*: with `--auth` a host is served only after the framework has
  accepted its key.
* *USB*: a transport uses and closes only its own endpoints; none leaks; the
  open thread is always woken.

## Modules

| module | models | state and actions |
|---|---|---|
| `Transport` | `transport.c`, `transport_local.c`, the session part of `handle_packet`, what ties sockets to transports | Program counters of both threads, the socketpairs as sequences, the registration socket, the reference count. One action per handler or per step between two points where another thread can interfere. |
| `Link` | nothing in the source: what a transport promises | Links that are opened, cut, closed and reclaimed; packets received in the order sent; streams attached to open links. `Transport!LinkRefined` says that `Transport` implements it. |
| `Sockets` | `sockets.c` and `handle_packet` over one transport | Records for the local sockets; the pending events of one round (`batch`); numbered bytes as data; a host that follows the protocol and programs behind the descriptors as environment. The functions of `sockets.c` are operators that return a record of what they did; the actions are the callbacks of the main thread. |
| `FdEvent` | `fdevent.c` | State word split into wanted events and flags; pending list; `fd_table`; epoll's interest list and the open descriptors. Operations may be called by whichever function runs (`cb`). The callers that depart from the usual way of installing and closing are parameters (below). |
| `Usb` | `usb_linux_client.c`, `transport_usb.c`, `register_usb_transport` | The handle, the open thread, the threads of successive transports; `ffs` is what `usb_init` found, FunctionFS or `/dev/android_adb`. |
| `FileSync` | `file_sync_service.c` | The local variables of each session's thread, and a file system of names, links, files and times. A file is the sequence of pushes that wrote its chunks. One action per call of the file system, since the sessions meet there and nowhere else. |
| `Services` | `services.c`, `framebuffer_service.c`, `log_service.c`, the shell-exit notification of `fdevent.c`, and the read half of `local_socket_event_func` | For each stream its socket, its service and its process in one record; the notifications on their way. `waitpid` is a choice among the children it may find. |
| `Auth` | `adb_auth_client.c` and AUTH in `handle_packet` | The key file read character by character, `auth_fde` of each transport, epoll's view of the framework's connections, the framework as environment. |
| `Base64` | `b64_pton`, as operators | The loop's variables as a record with one step per character, and a reference decoder over bits. |
| `Descriptors` | the numbers of a TCP transport's socketpair while it is taken down, and `fd_table` | Kernel table, `fd_table`, the fdevents of other streams. |
| `MC*` | | Model values and symmetry for TLC. |
| `*Proofs` | | Theorems about the module of that name, and their proofs. |
| `SocketsBytesProofs` | | The theorems about the bytes of `Sockets`, on top of `SocketsProofs`. |

The modules meet at these seams. `Transport` treats a socket as what ties it to
a transport and lets it send; `Sockets` treats the transport as the ordered
lossless link with an end that `Link` describes; `Sockets` uses the rule of
`fdevent_set` about pending events (`Pending`) that `FdEvent` has in full;
`Usb` uses the kick discipline that `Transport` has in full. `Services` and
`FileSync` are what `Sockets` calls the program behind a descriptor; `Services`
repeats the read half of the event function, because a terminal ends in another
way than a socket (an error that epoll reports and the function ignores). `Auth`
takes the place of the step of `handle_CNXN` in `Transport` and `Sockets` that
brings a transport online. `Descriptors` takes the last steps of `Transport`
(close by the last thread, removal by main) down to numbers.

Granularity. The main thread runs one callback at a time, so a callback is one
action. Three places are split because another thread sees the difference:
registration (the threads run before the transport is listed), `kick_transport`
(unlocked test, locked test and set, call), and `close_all_sockets` (socket by
socket). `transport_unref` holds `transport_lock` throughout and is one action.
`init_functionfs` is one action per endpoint.

Assumptions about the environment:

* in `Transport` and `Sockets` authentication is off (`auth_enabled` is 0 unless
  adbd is started for it), so CNXN brings a transport online at once; `Auth` has
  both settings;
* the host does not send SYNC, names a socket id only after it was told the id,
  and writes on a stream only when it holds an OKAY;
* the socketpairs between the threads do not fill up (their contents are
  bounded by one WRTE per stream and the bounds below);
* descriptor numbers are modelled where they are passed on (`FdEvent`, `Usb`,
  `Services`, `Descriptors`) and not shared between modules (see *Left out*);
* in `FileSync` a system call may fail at any time, a write writes its chunk or
  nothing, and only the sessions change the files.

## Runs

| run | checks | instance and why it is enough |
|---|---|---|
| `transport_two` | `TypeOK`, `NoUseAfterFree`, `KickedOnce`, `QuietWhenClosed`, `GateOpens`, `StreamsNeedSession` | Two transports, so that one is torn down while the other registers or serves; one socket that may move to either; two host packets, enough for CNXN then OPEN. CNXN, OPEN, CNXN is in `transport_one` and, with what becomes of the stream, in `sockets_stream`. The theorems below remove the bounds. |
| `transport_one` | `NothingAfterEnd`, `LinkRefined`, `LostIsFreed` | One transport, two sockets, three host packets (CNXN, OPEN, then OKAY, CLSE, CNXN again or a damaged one) and one WRTE, so that packets of several kinds queue behind each other when the connection is lost. |
| `sockets_stream` | `WatchInStep`, `OneCredit`, `Delivered`, `NoTruncation`, `NoOrphans`, `DrainedBeforeGone`, `ClientToldOnce` | One stream, payload of two bytes against a descriptor that takes one (every write of two is short), three bytes each way (so a full packet is followed by another); or one client of the smart-socket port, with partial, malformed and complete requests and a host that accepts, refuses, starts over or disappears. |
| `sockets_two` | `NothingAfterClose` | Two streams in one batch, one byte each way in total. |
| `sockets_live` | `StreamMoves`, `CloseAgreed` | One stream the host opens, two bytes each way. |
| `fdevent_loop` | `LoopInStep`, `FatalOnlyByCallers`, `CallsAreLive` | An `auth_fde` and the stream of a `dev:` service on two numbers, either of which main may close from outside, four operations between two polls: enough for one callback to remove the other's fdevent and to reuse its number and its structure while it is still pending. Every way to end the daemon but JDWP's is reached. |
| `fdevent_jdwp` | `NeverFatal`, violated | One fdevent that carries `FDE_DONT_CLOSE`. |
| `usb_handle` | `HandleInStep`, `OwnEndpoints`, `OneSession`, `Reopens` | Both kinds of handle; three transports in succession, so that the first one's threads meet the second and third; one failed attempt to open, at any of the steps. |
| `filesync_two` | `TypeOK`, `OkayIsWhole`, `NoPartialFile`, `InStep`, `PullIsWhole`, `ListIsComplete` | Two sessions and two pushes, so that pushes overlap, follow each other and meet pulls and listings; two paths, of which one cannot be unlinked; two chunks, so that a push can fail in the middle and an old file can be longer or shorter. |
| `services_two` | `TypeOK`, `ClosesOnlyEnded`, `ShellEnds`, `NoZombies`, `FrameEnds` | Two streams of any service, the second of which may get the first one's number; output of exactly a payload or less; a screen that is a multiple of the buffer and one that is not. |
| `auth_keys` | `TypeOK`, `ApprovedOnly`, `DecodesBase64` | Every line of up to seven characters out of five kinds (all bits clear, some set, pad, white space, stray), which fills and overruns a buffer of five bytes and passes each state of the decoder; then two hosts and two framework connections. |
| `descriptors_reuse` | `InSync`, violated | Three streams and four numbers. |

The invariants that are conjunctions have their parts named beside them:
`LoopInStep` is `TypeOK`, `PendingListed`, `EpollInStep` and `TableInStep`;
`WatchInStep` is `TypeOK`, `QueueWatched` and `WaitingIsQuiet`; `HandleInStep`
is `TypeOK` and `NoLeak`.

Deadlock is checked in `filesync_two`, where a session can always be opened or
ended. Elsewhere it is not: the bounded environment may fall
silent, and adbd then rightly waits in `epoll_wait` or in a read. That nobody
waits for what will not come is the subject of the liveness properties.

Symmetry is used for transports, descriptors, host ids and sync
sessions, only in runs without temporal properties of the liveness kind.

### Fairness

* `Transport`: weak fairness of the main thread per transport (epoll is level
  triggered and every queued fdevent is called), of the output thread, of the
  teardown steps, and of the input thread except for a write on a connection
  that works, which may block for ever. No fairness of the host, of the
  streams, or of the loss of the connection.
* `Sockets`: weak fairness of the loop, of each callback, of a program that
  reads, and of a host that takes its packets and acknowledges them. Nobody has
  to write or to close.
* `Usb`: weak fairness of the open thread, whose attempts fail finitely often,
  and of the kick. Reads and writes may block.
* `Services`: weak fairness of the waiter and framebuffer threads, of the loop's
  callbacks, of a host that acknowledges and of a screencap that can write. A
  shell need not write or exit.

### What the runs show beyond the properties

* **The daemon exits when the first JDWP process connects** (`fdevent_jdwp`).
  `jdwp_process_alloc` sets `FDE_DONT_CLOSE`, which lies inside
  `FDE_EVENTMASK`; `fdevent_update` then believes that the descriptor is
  already watched, asks for `EPOLL_CTL_MOD`, and treats the failure as fatal.
* **`dev:` with the path of a regular file ends the daemon.**
  `service_to_fd` opens any path; `EPOLL_CTL_ADD` of a regular file fails with
  EPERM when the stream becomes ready, and `fdevent_update` exits. The run `fdevent_loop` reaches it, and
  `FatalOnlyByCallers` names it.
* **A program's last output may be lost.** When a program writes, goes away, and
  a packet of the host is still to be written to it, the write fails with EPIPE
  and the socket is closed at once, with the output unread. `NoTruncation` says
  that this is the only way: adbd closes a stream at end of file after all of the
  output, and after a failed write the output is whole unless the program had
  closed its end with bytes of the host unwritten.
* **A waiting client survives a host that starts over.** Until the host answers
  its OPEN, a smart-socket client is on no disconnect list. A second CNXN leaves
  it waiting, and nobody answers it any more. `NoOrphans` is about linked
  streams.
* **A transport's teardown can abort the daemon** (`descriptors_reuse`). The
  last thread closes `t->fd`, main opens a stream and gets the number, main
  closes the number again for the transport; a second stream gets it and takes
  over the entry in `fd_table`; when the first stream ends, `fdevent_unregister`
  finds the table out of sync.
* **A closing socket may lose its queue.** `fdevent_set` keeps pending events
  that are no longer wanted. When the program has shut down its side and the
  host's CLSE is handled in the same round, the socket that was just moved to
  the closing list is still called for `FDE_READ`, sees the end of file, and
  its second close destroys it with the queue. `DrainedBeforeGone` is stated
  for programs that have not shut down.
* **A client that asks and leaves at once orphans a stream of the host.** OPEN
  is on its way, the socket is gone, and the host's OKAY for an unknown id is
  dropped without a CLSE. `CloseAgreed` is stated for streams the host opens.
* **Over USB, packets of an old session can reach the new one.** After the
  kick, the input thread of the old transport still writes what is queued
  through the shared handle, in which the open thread may have put the new
  endpoints. `OwnEndpoints` claims the writes only until the kick.
* **A shell's stream may never end.** Epoll reports a terminal that nobody has
  open and that has nothing to read as an error, which the event function
  ignores. When the shell left a process in the background the notification has
  come and gone before the terminal is free; when its last output is a multiple
  of `MAX_PAYLOAD` the read stops before it sees the end. The loop then spins.
  `ShellEnds` states when the end is seen.
* **A shell that could not be started still has a waiter**, for process 0 or -1.
  The first spins; the second takes the exit status of other services, whose
  waiters then spin and never notify. For `NoZombies` a process that a stranger
  has waited for is waited for; what the robbed waiter does is not in a property.
* **A late notification is harmless for a service's stream**: the new owner of
  the number gets `force_eof`, but closes only when its own end is there
  (`ClosesOnlyEnded`). A smart-socket client, whose `enqueue` returns 0 for a
  partial request, would be closed; that case is not in `Services`, and neither
  is the close of a service's stream by a failed write.
* **A framebuffer request may block for ever**: the thread itself keeps the
  pipe open, waits for a header that a screencap that could not be executed never
  writes, and asks for too much when the size is no multiple of 640. `FrameEnds`
  is stated for the sizes that work, once the header is there.
* **A push can remove another session's file.** After FAIL the thread still
  reads the data, and when the stream ends it unlinks the path, whoever has it
  by then. `OkayIsWhole` is stated for pushes without such a rival.
* **A push can set the time of another session's file.** `handle_send_file`
  sets the time by path, after it has closed its file; when a rival has put a
  link there meanwhile, `utime` follows it to a file that some third push has
  finished. Two pushes, the bound of `filesync_two`, are too few for that: the
  proof of `OkayIsWhole` found it, and TLC shows it with `MaxPush = 3`. `TimeSent`
  excepts the case, so that no property covers it.
* **A second public key ends the daemon.** `fdevent_install` forgets that
  `auth_fde`, or another transport's, is on the framework's connection already;
  `EPOLL_CTL_ADD` fails and `fdevent_update` exits. When `auth_fde` is on the
  pending list at that moment, its links are cleared with the rest and the list
  is broken. `auth_fde` also outlives its transport, and may be reported for two
  connections, of which it reads one. `FatalOnlyByCallers` names the exit, and
  `ApprovedOnly` holds in all these cases.

Nothing in the repository says what should happen in the cases without a run of
their own; they are listed as hazards.

## Proofs

Each `*Proofs` module proves the safety properties of its component for every
value of the constants: any number of transports, sockets, fdevents, sessions
and streams, and without bound on packets, chunks or attempts. The bounds of
the runs are guards with a constant in them, and the theorems hold whatever that
constant is.

| module | theorem | states |
|---|---|---|
| `TransportProofs` | `Invariance` | `Spec => []IInv` |
| | `TypeCorrect` | `Spec => []TypeOK` |
| | `RefCountCorrect` | `Spec => []RefCounted` |
| | `FreeIsSafe` | `Spec => []NoUseAfterFree` |
| | `KickIsOnce` | `Spec => []KickedOnce` |
| | `NeverSendsOnClosed` | `Spec => []QuietWhenClosed` |
| | `GateIsOpen` | `Spec => []GateOpens` |
| | `StreamsHaveSession` | `Spec => []StreamsNeedSession` |
| | `QuietAfterEnd` | `Spec => NothingAfterEnd` |
| | `RefinesLink` | `Spec => LinkRefined`: `Transport` implements `Link` |
| `UsbProofs` | `Invariance` | `Spec => []IInv` |
| | `HandleIsInStep` | `Spec => []HandleInStep` |
| | `SessionsAreOne` | `Spec => []OneSession` |
| | `EndpointsAreOwn` | `Spec => []OwnEndpoints` |
| `SocketsProofs` | `Invariance` | `Spec => []IInv` |
| | `Watching` | `Spec => []WatchInStep` |
| | `CreditKept` | `Spec => []OneCredit` |
| | `SilentAfterClose` | `Spec => []NothingAfterClose` |
| | `Told` | `Spec => []ClientToldOnce` |
| `SocketsBytesProofs` | `BytesInvariant` | `Spec => []BInv` |
| | `DeliveredBytes` | `Spec => []Delivered` |
| | `NotCutOff` | `Spec => []NoTruncation` |
| | `NotOrphaned` | `Spec => []NoOrphans` |
| | `Drained` | `Spec => []DrainedBeforeGone` |
| `FdEventProofs` | `Invariance` | `Spec => []IInv` |
| | `LoopStaysInStep` | `Spec => []LoopInStep` |
| | `EndsOnlyByCallers` | `Spec => []FatalOnlyByCallers` |
| | `CallsLive` | `Spec => CallsAreLive` |
| `AuthProofs` | `Invariance` | `Spec => []IInv` |
| | `TypeCorrect` | `Spec => []TypeOK` |
| | `OnlyApproved` | `Spec => []ApprovedOnly` |
| `FileSyncProofs` | `Invariance` | `Spec => []IInv` |
| | `TypeCorrect` | `Spec => []TypeOK` |
| | `StaysInStep` | `Spec => []InStep` |
| | `NothingPartial` | `Spec => []NoPartialFile` |
| | `OkayWhole` | `Spec => []OkayIsWhole` |
| | `PullsWhole` | `Spec => PullIsWhole` |
| | `ListsComplete` | `Spec => ListIsComplete` |
| `ServicesProofs` | `Invariance` | `Spec => []IInv` |
| | `TypeCorrect` | `Spec => []TypeOK` |
| | `OnlyEnded` | `Spec => ClosesOnlyEnded` |

The proofs rest on the named assumption of each module and nothing else: null
is not a transport, an fdevent, a file or a connection; numbers that count are
natural numbers; a payload and a buffer are not empty; 0, which stands for no id
in a packet, is not the id of a host stream; a picture is not empty; the sets of
fdevents and of paths are finite. TLC evaluates the assumptions in the runs.

The theorems of a module follow from one inductive invariant `IInv`, which is
larger than the properties, since none of these is inductive alone. Each of its
parts is preserved by lemmas of its own, with one step per action. `Sockets` has
three more, each inductive together with those before it: `BInv` for the bytes of
its streams, `OInv` for the streams that the host has left, and `EInv` for those
that a failed write closes.

### Transport

`QuietWhenClosed`, for instance, needs to know why no socket can be tied to a
transport at the moment its last thread closes it. `IInv` is the conjunction of

* `Life`: the stage of a transport fits the program counters of its threads,
  the reference count, its presence in `transport_list` and the messages on the
  registration socket, where none occurs twice (`Queue`);
* `Kick`: who is inside `kick_transport`, and whether the call has been made;
* `End`: SYNC(0) is in `toMain` at most once and last, only after the output
  thread has left its loop; it is in `toIn`, or the input thread is past it,
  only when main has handled it (`Over`), and then the transport is offline
  with nothing more to handle;
* `Tied`: a linked socket belongs to a transport that is online; a waiting
  client to one whose input thread has not yet finished `close_all_sockets`;
* `Gate`: the SYNC with the current token was seen by the input thread, or is
  the first in its queue, or is the first packet main will handle, and until
  then the transport is offline.

The argument runs along the SYNC(0): the output thread sends it when it leaves
its loop, main handles it after every other packet, which takes the streams
away and makes the transport unusable for new ones (`acquire_one_transport`
asks for a state that is not OFFLINE), the input thread sees it after every
packet of main, takes the waiting clients away, and only then gives up its
reference. So when the count reaches zero nothing is tied to the transport.
Each part is preserved by its own lemma (`TypeStep`, `LifeStep`, `KickStep`,
`EndStep`, `TiedStep`, `GateStep`).

`RefCounted`, the strengthening of `NoUseAfterFree` about the count and the
registration socket, is proved and no run of its own checks it any more; `Life`
implies it.

*The refinement.* That a step of `Transport` is a step of `Link`, or none, takes
two more invariants. `Told`: the packets under way from the host name only
sockets of the transport they came over, so that handling one detaches no stream
of another link. `Carry`: as long as the connection is up and nobody has kicked
it, what was sent and is not yet written is exactly what the queue to the input
thread holds, in order, behind the gate; so what the input thread writes next is
what `Link` says is received next. `PhaseMeans` translates the stages of a
transport into the phases of a link; `LinkPacket`, `LinkSocket`, `LinkInput`,
`LinkEnvironment`, `LinkTeardown` and `LinkRegistration` take the actions in
groups.

### Sockets

A credit is a claim about both ends of a stream and everything between them, so
the invariant has to say which socket of adbd belongs to which stream of the host
while either end may not know it yet, or not any more. The tie (`Tie`) of socket
*i* and host id *h* exists when adbd has linked them, when the host has noted *i*
as the id of *h*, or when an OKAY or a WRTE that names both is on its way to the
host. `IInv` is the conjunction of

* `Others`: types of what is on neither end of the wire;
* `Local`: for each socket, its stage, its queue and the events it watches or has
  pending fit together (`Watched`), and so does what its client has heard
  (`Heard`);
* `Connected`: the host talks only to an adbd that is online, and nothing follows
  the SYNC(0) of a lost link;
* `WireInv`: types of the wire, and
  * `Matched`: no socket is tied to two host ids, and no id to two sockets;
  * `HostSide`: an id whose OPEN is not answered has no tie, no credit and one
    OPEN under way; an id that adbd has sent a CLSE for is linked to nothing;
  * `DeviceSide`: the same for the sockets that clients open: ids are
    handed out in order, and a socket whose OPEN is under way has no tie;
  * `Replies`: OKAY and WRTE of the host name a socket it was told of, and a
    WRTE to a client that still waits follows the OKAY that accepts it;
  * `Silence` and `Credits`, which are `NothingAfterClose` and `OneCredit`, the
    latter also for the stream that the host has accepted and adbd has yet to
    link.

`Matched` rests on ids that are used once: `local_socket_next_id` only grows (its
wrap after 2^32 sockets is out of the model), and the host, which is environment,
gives each stream an id of its own. Every action is
shown to have one of a few effects on the wire (a socket moves and sends at most
one packet at a time, a packet is taken, a stream is opened or accepted, the host
speaks), each with a lemma that does not mention the state
(`Moved`, `Exchange`, `SendClose`, `TakeOkay`, `TakeData`, `ReplyData`,
`ReplyOkay`, `ReceiveData`, ...), so that the actions need not be unfolded
together with the sums.

*The bytes* (`SocketsBytesProofs`). `Delivered` speaks of a stream only while
both ends have it, and `NoTruncation` and `DrainedBeforeGone` only of one that
an end has left, so neither is inductive: the bytes have to be followed from
before the stream is up until after it has gone. `BInv` is `Streams`, the
conjunction of

* `LastWords`: the host sends no bytes to a socket behind its CLSE; and when such a
  CLSE is under way or was handled, the host has left the stream (`Over`);
* `Own`: a socket has a cause of closing exactly when it is closed, what its
  program and its queue have is 1, 2, 3, ... without a gap, and its program has
  written nothing before its stream is up;
* `Theirs`: a host stream that has no id yet has sent nothing, one whose OPEN is
  under way has got nothing, and one that has ended is linked to nothing and
  is sent nothing any more;
* `Inward`: the bytes the program has, those in the queue and those in the WRTE
  under way to the socket, in this order, are all that the host has sent, also
  for a client that the host has accepted and adbd has yet to link; after the
  link is lost they still have no gap;
* `Parted`: for a socket that the host closed, program and queue have all of it;
* `Outward`: the bytes the host got, those under way to it and those the socket has
  yet to read are all that the program wrote;
* `Finished`: for a socket closed at end of file, the host got them or they are
  under way.

`Inward` and `Outward` give `Delivered`, `Finished` gives the half of
`NoTruncation` about the end of file, and
`Parted`, with the queue of a socket that is gone being empty, gives
`DrainedBeforeGone`. A step of adbd or of a program changes one socket (a lost
connection: many, each on its own), and `DeviceStep` reduces it to what it does to
that socket's bytes (`Turn`); a step of the host changes one stream, and
`HostStep` reduces it to that stream (`Holds`, or `Begins` when it is new). The two
writes of `local_socket_event_func`, the queue out and what was read in, are
taken one after the other. `Payload` and `FlattenSeq` are folds over a queue of
any length; what they give for an appended, a removed or an unrelated packet is
proved from the least place at which two candidate folds would differ, so
that no induction rule is needed.

*Streams that the host has left.* `NoOrphans` is not inductive, because the host
may leave a stream that adbd has not heard of yet: an OPEN, or the OKAY for a
client, is under way, and linking comes later. `OInv` says of every stream that
the host has closed that its end (`Ending`: CLSE for that socket, CNXN or
SYNC(0)) is under way, and behind every packet that could still link the stream
(`Herald`, `Starts`); and that only an adbd that is online has linked streams.

*Failed writes.* A write fails only when the program has closed its end. `EInv`
says that the queue of a socket and the WRTE of the host hold at least one byte,
so that at the moment of the failure the program has got less than the host has
sent (`Short`), which is the exception that `NoTruncation` makes; and it remains
so, since the program gets nothing more.

### Usb

The handle is shared by the threads of all transports, and `OwnEndpoints` holds
because of when the open thread sleeps. `Handle` says which endpoints are open
at each step of `init_functionfs`, and that none is when the handle is shut;
`Session`, that a transport that was registered and not yet kicked is the last
one, that the handle holds its endpoints, and that the open thread does not open;
`ThreadsOf`, that one thread at most is in the call of `usb_kick` and that the
input thread ends after the output thread.

### FdEvent

Nearly every caller installs an idle fdevent on a descriptor it has just opened
and leaves its closing to `fdevent_remove`. Four do not, and the theorems hold
with all of them present:

* JDWP processes set `FDE_DONT_CLOSE` (`DontCloseFdes`);
* `dev:` streams may be on a file that cannot be polled (`FileFdes`, `files`);
* `adb_auth_confirm_key` installs an `auth_fde` again while it is in use, also
  on a descriptor that another one has (`AuthFdes`);
* main closes `t->fd`, whose number the last thread has closed before
  (`OutsideClose`, `adb_close`).

The history `foul` holds the descriptors that were closed, shared or abandoned
behind the back of an installed fdevent; `cut`, the listed fdevents whose links
were cleared; `culprit`, the fdevent on which the daemon ended. `LoopInStep` says
that outside `foul` the state words, epoll and `fd_table` agree, and
`FatalOnlyByCallers` that each of the three ends of the daemon (`epoll_ctl` fails,
`fd_table` is out of sync, the list has a null link) is on account of one of the
four: so no order of installing, setting and removing by the others leads there.
No claim is made that the daemon never ends this way: it does.

`IInv` adds `Named` (whom the kernel may name on any descriptor, foul or not),
`Callers` (where flag, files and null links come from) and `Drained` (the list is
empty before `epoll_wait`). The lemmas on the list say what enqueueing,
dequeueing and removing leave in it. JDWP fdevents are in the proof and in
`fdevent_jdwp`, not in `fdevent_loop`.

Not in the module: the fatal errors of `fdevent_register` for a negative number
or one above 32000, since callers test for the first and the second does not
occur; that a grown `fd_table` is cleared only in part (line 115), since an entry
is looked up only after it was registered (a shell's stream is installed in the
callback that starts the shell, before its notification can be read); and the memory of an `auth_fde` that is
freed with its transport, which is in `Auth`.

### Auth

`Asked`: while the daemon runs, an installed `auth_fde` is the one that epoll has
for its connection, and an OK that waits to be read there was given to that
transport. A second request on a connection that is already watched would break
this, and ends the daemon: hence *while the daemon runs*. `Decoder` bounds the
byte under construction by the state of `b64_pton` (at most 252, 240 and 192 in
states 1, 2 and 3), from which no write leaves the buffer and no byte overflows.

### FileSync

`IInv` says of each thread what it has answered, opened and read at each point
of a request (`Local`, `Pushing`, `Cleared`, `Listing`, `Pulling`); of each push,
that nobody else is at its path as long as it has no rival (`Alone`), what it
has left behind (`Traces`), what its file holds (`Chunks`), and where that is
(`Placed`); of the directory, that a pushed file is found only under the path of
its push (`Named`). What `open` and `utime` find when they follow links is a
recursive function; its values are derived by the least counterexample.

### Services

`Noted`: a waiter writes its notification as its last step, so the notifications
under way are at most as many as the waiters that are done; `Fresh`: a stream that
is not opened has no socket and no waiter.

### Only model-checked

* The liveness properties (`LostIsFreed`, `StreamMoves`, `CloseAgreed`, `Reopens`,
  `ShellEnds`, `NoZombies`, `FrameEnds`): fairness is out of
  the prover's reach.
* `DecodesBase64`: what a loop computes for every input is an induction over
  data. The proved part is that it stays within its buffer.
* `InSync` of `Descriptors`, and `NeverFatal` with `FDE_DONT_CLOSE`, which are
  false.

## Left out

* JDWP beyond the finding: `jdwp_service.c` is only entered through
  `jdwp_process_alloc`, whose first `fdevent_add` ends the daemon; what follows
  cannot be reached.
* Host-side code that a device build never runs: `handle_host_request`,
  `install_listener` and `remove_listener` for forwards, the client half of
  `transport_local.c`, `adb_auth_sign`; `acquire_one_transport` with arguments
  that no caller on the device passes; `recover:`, which needs recovery mode.
* Descriptor numbers across modules: `remote_kick` closes a descriptor whose
  number the other thread may have just read.
* The capacity of the socketpairs, and main blocking in `write_packet`.
* Memory, apart from the transports: `reboot:` frees its argument in main and
  again in the thread, `do_list` and `log_service` leave a descriptor open.
* The hexadecimal framing of smart-socket requests, and what a client sends
  behind its request.
* `remount_service.c`, `libcutils`, `main.c` and `adb_main`: system calls in a
  fixed order, with no state that two actors share. The headers
  `arpa_nameser.h` and `android_filesystem_config.h` hold constants that
  nothing modelled here uses.

## Plan

1. Composition of `Services` with the queue to the input thread, for
   `exit_on_close`.
2. Framing of smart-socket requests as an algorithm against a reference.
