# Verification of x12

x12 is an X11 server in Rust. This directory holds TLA+ models of the parts of
its core that are hard to test, the TLC configurations that check them on small
instances, and theorems about them checked by TLAPS. Paths below are relative
to `src/crates/`; `core_loop/` stands for `xserver-core/src/core_loop/`.

    tlc -config MCWindows.cfg MCWindows.tla            # one run
    tlapm WindowTree_proofs.tla                        # one module of proofs

`PROJECT.json` lists the runs with the configuration and module of each, the
source lines behind every definition, the mutants that each property detects,
the hazards of the code and the theorems.

## 1. The system

### Threads and what they share

One **core thread** (`core_loop/run.rs`) owns all protocol state and handles
every request. Around it run:

- one **setup thread** per accepted connection (`setup_thread.rs`), which reads
  the client's greeting, asks the core for a resource-id base, answers, and
  hands the connection over;
- one **reader thread** per client (`client_reader.rs`), which frames and
  numbers requests;
- the **input thread** (`xserver/src/input_thread.rs`), which turns libinput
  events into messages.

They send into one channel and write an eventfd that the core polls
(`sender.rs`). The core answers a reader over a control channel
(`ReaderControl`), and reaches a setup thread through the answer channel in its
request and through a registry of stream clones. Replies and events go out on
the client's non-blocking socket from the core thread only (`client_io.rs`).
Everything else (GPU completions, page flips, the seat, the host X server when
nested, timers) is a file descriptor or a deadline of the same poll.

### Components

For each: its state, its operations, what is hard about it, and what makes it
correct. The status of each is in section 2.

| component | state | operations | hard because | correct when |
|---|---|---|---|---|
| client lifecycle (`setup_thread.rs`, `process_disconnect.rs`, `server.rs`) | client table, id allocator, setup registry, close-down modes, zombies | accept, allocate, hand over, SetCloseDownMode, KillClient, disconnect, shutdown | two threads report the same disconnect; setup fails half-way; requests outlive their client; shutdown meets every stage | no base is used twice; nothing is owned by nobody; every thread ends |
| request pipeline (`client_reader.rs`, `run.rs`, `message.rs`, `sender.rs`) | channel, eventfd, backlog, budget, framing mode at both ends | frame, send, wake, poll, drain, defer, park, unpark | framing is decided at the core and applied in the reader; a backlog beside a channel; push and wake are two steps | requests are handled once and in order; both ends frame alike; input is not starved; nothing is stranded |
| client outbound (`client_io.rs`, `fanout.rs`, `run.rs`) | backlog, poller interest, socket buffer | write or buffer, drain, reconcile, disconnect | partial writes, edge-triggered readiness, a cap, callers that drop the outcome | bytes whole and in order; a bounded backlog that goes out |
| window tree (`resources.rs`) | windows, parents, children, map states, overlay window | create, destroy, reparent, restack, circulate, map, unmap, claim and release the overlay | every client moves every other's windows; the overlay is shared and pinned on top | a tree, with lists and parents in agreement; overlay on top; clients leave nothing |
| focus and grabs (`process_request.rs`) | core focus and revert_to, active and passive grabs, frozen devices and their queued events | SetInputFocus, Grab*, Ungrab*, AllowEvents, and every request that hides or destroys a window | they point into the tree while it changes; events are frozen and replayed | they name live, viewable windows; a frozen device can be thawed |
| XI1/XI2 devices (`xinput/`, `xi1_*.rs`) | per-device grabs, focus, freezes | as above, per device | mirror the core's | as above |
| crossings (`crossings.rs`) | none | the events of a pointer or focus move | virtual and nonlinear cases | each window is told once, in order |
| selections (`process_request.rs`) | owner, window, time | set, convert, notify | client-chosen timestamps | later times win |
| properties, atoms (`properties.rs`) | tables | change, delete, intern | nothing over several steps | - |
| SYNC (`process_request.rs`) | counters, alarms, fences | change, await, trigger | alarms that change what triggers them; IDLETIME | each crossing triggers once |
| DPMS, screen saver (`server.rs`, `run.rs`) | level, saver state, idle clock | set, force, expire | two timers over one clock | never both, wake-up restores |
| key repeat (`run.rs`) | armed key, deadline | arm, fire, disarm | synthetic events re-enter the path of real ones | the last key held repeats, and only it |
| Present (`present_scheduler.rs`, `kms/v2/present_completion.rs`) | queues, retained buffers, pending completions | queue, pick at vblank, skip, complete, idle | completions arrive after windows go | each frame is completed once |
| damage, composite | damage levels, redirection counts | redirect, unredirect, subtract | counts per window and subtree | balanced counts |
| render resources | ids to host objects | create, reference, free | shared host objects | freed with the last reference |
| event fan-outs | none | who gets an event | propagation and masks; refused writes | - |
| seat, VT switching (`seat/`) | state, pending flags | enable, disable, sequences | counter-events in mid-sequence | ends where last told |
| scanout, page flips (`kms/v2/platform.rs`, `scene.rs`, `kms/vk/scanout.rs`) | buffer phases, pending acks, damage | tick, complete, sleep, suspend | completions carry no buffer and come after what they belong to was reset | one on screen, at most one pending; what is out of date stays damaged and gets there |
| GPU submission and reclamation (`submit_group.rs`, `*_ring.rs`) | generations, rings | submit, retire, reset | the GPU is behind | nothing reset that is still read |
| input thread | pause state, hot keys | dispatch, pause, resume | commands replace each other | ends where last told |
| nested backend (`host_x11/`, `nested.rs`) | sequence map, deferred events | request, reply, event | replies awaited inside handlers | replies matched, events in order |
| drawing engine, scene, protocol encoding, RandR, launch, tools | - | - | pixels, bytes, start-up | - |

## 2. Modules

| module | models | composed with |
|---|---|---|
| `ClientLifecycle` | client lifecycle | implements `BaseLease` |
| `BaseLease` | what the id allocator promises | |
| `ClientLifecycle_proofs` | proofs: its inductive invariant, and that it implements `BaseLease` | |
| `RequestPipeline` | request pipeline | |
| `RequestPipeline_proofs` | proofs: typing, the wait of input, order, framing | |
| `MCPipeline` | constraint of its instance | |
| `ClientOutbound` | client outbound path | implements `ByteStream` |
| `ByteStream` | what a client may rely on of its connection | |
| `ClientOutbound_proofs` | proofs: order, the bound of the backlog, and that it implements `ByteStream` | |
| `WindowTree` | window tree | |
| `InputFocus` | focus and keyboard grab | extends `WindowTree`: one handler changes both |
| `WindowTree_proofs` | proofs: the tree invariant and what single requests may do to the tree | |
| `InputFocus_proofs` | proofs: that its handlers are requests of the tree, and where focus and grab may point | |
| `MCWindows` | whose ids the windows of an instance are; its constraint | |
| `DeviceGrabs` | core and XI2 grabs of both devices, freezing, AllowEvents | |
| `DeviceGrabs_proofs` | proofs: its five properties, through replays inside replays | |
| `MCGrabs` | symmetry, view and constraint of its instance | |
| `Scanout` | one output of the KMS backend with the compositor's tick, DPMS and VT switches | |
| `Scanout_proofs` | proofs: pools, buffer phases, flips and damage | |

The modules of different components do not share variables. Where one meets
another it keeps what it needs of it: `ClientLifecycle` counts waiting requests
and leaves their order to `RequestPipeline`; `RequestPipeline` has a client
disappear at any moment and leaves the reasons to `ClientOutbound` and the
causes' consequences to `ClientLifecycle`; `WindowTree.DestroyOwned` is the part
of `ClientLifecycle`'s disconnect that concerns windows. `DeviceGrabs` has no
windows: a grab window may stop being viewable at any moment, which is the step
`InputFocus` takes for a reason. `Scanout` has clients only as painters.

### ClientLifecycle

`chan` is the core's channel without requests; `pending` counts each client's
waiting requests. They are apart because a request whose iteration has no
budget left is deferred and everything behind it, a ClientDisconnected
included, is handled first. `setup` and `reader` are the program counters of
the two threads of a connection, `sock` what both ends see of the socket.
`base`, `nextBase` and `freeBases` are the id allocator, a base being
`k * 0x100000`; `owns` abstracts a client's resources to windows and the rest,
the distinction disconnect makes.

Steps of one thread between two points where it meets another are one action:
`SetupRead` covers the whole handshake, `HandleSetupComplete` the whole handler.
Its two failures, before and after the client is inserted, are actions of their
own, as are a request that disconnects its own client and a KillClient of any
target. `HandleDisconnected` is idempotent by the same test as the code.

A reader that has sent a BIG-REQUESTS Enable is "parked": it waits on its control
channel and no longer on its socket. `HandleEnable`, the handling of the last
request that waits, lets it go on or, where process_request answers BadLength first,
leaves it parked for good. Only `ReaderShutdown` ends a parked reader; `ReaderEof`
is for one at its socket. What the Enable does to the framing is
`RequestPipeline`'s.

### RequestPipeline

`chan` is the channel with the requests, `waker` the eventfd. Sending is two
actions, push and wake, because another thread may run between them. The core's
`phase` follows `run_core`: poll, backlog, drain, the rest of the iteration.
`budget` is MAX_REQUESTS_PER_ITER, `deferred` the backlog. `reader` says where a
reader thread is in its loop, "parked" being the BIG-REQUESTS barrier; `big` and
`coreBig` are the framing mode at its two ends. `waited` is a history variable:
requests handled since the input thread woke the core while its message waits.

Requests come in four kinds: any other, Enable, an Enable in a frame over the
maximum, and another minor of the BIG-REQUESTS opcode. The handler answers the last
with an Ignore for which no reader waits; a reader that parks at a later Enable takes
it for its answer (`ReaderUnpark`), and `misled` remembers whose reader did.

### ClientOutbound

A message is a number of units and each unit has a number, so that order, loss
and repetition show. `Write` is write_or_buffer with what its caller does with
the outcome: the reply path honours it, the event fan-outs drop it.
`ReconcileDrain` and `ReconcileRegister` are the two halves of
reconcile_client_writable_interest. `ready` is the poller's edge: set when a full
socket gets room while WRITABLE is watched, when the peer closes, and when the
interest is modified on a socket that has room, as epoll does on EPOLL_CTL_MOD.

### WindowTree and InputFocus

A `children` vector is the set `children[p]` and the strict order `stack[p]`,
which makes restacking a statement about an order and lets TLAPS reason about
it. A recursive walk of the code is the least closed set that holds its start
(`Reachable`), which needs no recursion. The code's `order` of destruction is
not visible in the tree and is left out.

An id belongs to the client its range was given to (`OwnerOf`), so a window's
owner needs no variable. The Composite Overlay Window (COW) exists while
`cowRefs`, the backend's count, is positive. `Listed` says a window is in its
parent's list; a window left behind by a released COW names a parent that is
gone and is in no list.

Clients may reparent the COW like any window. The last release takes it out of the
root's list only: if it was elsewhere, its id stays in that list, and `torn`, a
history variable, records it. A COW claimed again is then in two lists, or twice in
one, which the model's sets do not show, and a reparent can close a circle of lists,
in which the walks of the code would not end.

`InputFocus` adds the focus, its revert_to and the keyboard grab. An action is
the whole handler: the change of the tree, then the revert of the focus and the
release of the grab, each reading the state the code reads (before the change
for a destroy, after it for an unmap). The grab has three writers that set it:
GrabKeyboard, which checks the window; XIGrabDevice, which checks nothing; and a key
that finds a passive grab on a window of the focus path (`KeyPressed`; which windows
have one is a free choice, and registrations outlive their windows).

### DeviceGrabs

`srv` is the part of `ServerState` that grabs and freezes live in, one field per
field of the code, with the code's name behind it in `TypeOK`. It is one record
because handlers call each other: replaying a withheld key may end a grab, which
thaws its device, which replays again inside the first replay. Each function of
the code is an operator from a state of the server to the next one, with the
code's calls in the code's order, and an action applies the handler to `srv`.
`ComputeFreezes` is `xi1_compute_freezes`: it is entered from everywhere a device
may have thawed and enters itself through `DeliverRoutedKey`. The recursion is a
function, `flush[n]`: the loop as it acts on states with at most `n` turns left in
them, `Flushed(flush[n - 1], d, s)` being one turn and what follows. `Compute`,
`KeyRouted` and `DeliverRoutedKey` take the loop as a parameter, as they are entered
from inside it and from outside. `Replay(s)` starts it with `Withheld(s)`, which no
turn fails to lower: a key counts twice, since replaying it may leave an XI 1.x form
behind. That the loop ends because of this, and never for want of `n`, is part of
what is proved (section 4, `NothingStranded`).

`sync` and `other` are what freezes a device: the grab's own mode, and the client
on whose behalf it is held for a grab of the other device. Four places withhold
events: `press` with `pqueue` (core pointer), `heldKey` with `keys` (core
keyboard), and `forms`, the XI 1.x forms of either, of which only the number
matters. `out`, `keyGrabs` and `request` say what the last step delivered, found
registered and did for whom; no step reads another's.

A press finds any passive grab that some client could have registered, or none:
nothing but a press reads the registrations, so they need no variable. `Activates`
is the key's match, `Matching` the button's.

### Scanout

`pc` is the core loop as far as an output is concerned: blocked in poll, reading
completions, handling, and the tick with which an iteration ends. What a handler
does to the display (paint, DPMS, seat) is one action, possible while `pc` is
"drm" or "work", so that every order of painting, completion, sleep, switch and
tick occurs.

`phase`, `acks`, `deferred`, `failed` and `inUse` are the server's books: the
phase of each buffer, the frames waiting for their flip, the descriptor pools
waiting for a fence, the frames the kernel refused, and the slots taken.
`gpu`, `scan`, `flip` and `queue` are what is really so: frames whose fence has
not signalled, the buffer on the screen, the flip under way and the completion
events nobody has read. A completion carries no buffer, so the server's idea of a
flip and the kernel's can part, and the properties are about whether they do.

`shown` and `coming` hold the rects of the buffer on the screen, and of the one
about to be, that are out of date. They are what damage is *for* and exist in no
variable of the code. `damage` is the live damage of all drawables and of the
scene, a rect standing for damage that RegionSet cannot tell apart.

The tick is seven actions, one for each of its outcomes, in the code's order of
tests: gated, empty, no buffer or pool, presented, commit refused, submit failed,
no fence. `stop` is the message with which a failed resume asks the loop to end
(`request_exit`): the rest of the iteration and its tick may still run, the next
iteration reads the message before it would tick (`Shutdown`). A resume fails
before its modeset or after it. Three history variables mark what no property
speaks of. `untracked`: the buffer on the screen was put there by a modeset, of which
reset_scanout_bos_for_suspend keeps no phase. `outrun`: an event of a flip that
DPMS or the seat made the server forget is still to come and may be taken for
another's. `again`: rects painted twice within one flip, which are the subject of
`lost_repaint`.

## 3. Runs

Seven of the twelve runs pass; five show a disagreement between the
code and what its comments say, and TLC's counterexample is the evidence. Every
property of a passing run has a mutant in `PROJECT.json`: a plausible bug in one
definition, under which TLC finds the property violated.

| run | configuration | properties | shows |
|---|---|---|---|
| `lifecycle_safety` | `MCClientLifecycle` | BasesExclusive, NoOrphanResources, ShutdownReachesSetup, IndInv | bases stay exclusive through racing disconnects, failing hand-overs, zombies and KillClient; a request handled after its client left leaves nothing; shutdown reaches every setup thread |
| `lifecycle_liveness` | `MCClientLifecycleLive` | LeaseSpec, ClosedPeerRemoved, ReadersEnd, RegistryDrains | the lifecycle implements `BaseLease`; closed peers are removed unless their reader is parked for good, readers of removed clients end, the registry empties |
| `pipeline` | `MCPipeline` | TypeOK, FramingAgrees, InputNotStarved, NothingLostOrReordered, QueuesDrain, ParkedReleased | framing agrees across the barrier until an Ignore goes astray, order survives the backlog and the wrap, input waits at most two budgets; no wake-up is lost: the channel moves whatever the producers do, and where drains end the backlog moves and a reader parked at a well-formed Enable is released |
| `parked_forever` | `MCParkedForever` | ParkedReleased | *violated*, see below |
| `outbound` | `MCClientOutbound` | WholeInOrder, BacklogBounded, StreamSpec, TailGoesOut | accepted messages reach the wire whole and in order; the backlog is bounded and goes out; the path implements `ByteStream` until a refusal is ignored |
| `stream_gap` | `MCStreamGap` | NoGapSpec | *violated* |
| `windows` | `MCWindows` | TypeOK, TreeConsistent, CowStaysOnTop, MapReveals, OneMovesAtATime, LeavesNothing, TargetsSurvive, FocusMovesToViewable | the tree stays one, through moves of the COW too, the COW on top, a client leaves nothing; requests that unmap or destroy windows leave neither focus nor grab on them; the focus moves only to viewable windows |
| `unmap_reverts` | `MCUnmapReverts` | UnmapReverts | *violated* |
| `grabs` | `MCGrabs` | GrabsAgree, Thawable, NothingStranded, KeysOnce, LetsGo | the records of a grab agree; a frozen device has a client whose AllowEvents is honoured; a thawed one withholds nothing; nested replays neither lose nor double a key; a client's end or its AllowEvents really lets go |
| `display` | `MCScanout` | TypeOK, PoolsOutliveFrames, AcksMatchFlips, DamageCoversScreen, RendersOffScreen, FlipRetiresItself, NoHopelessCommit, FramesAcked, DamageFlips | no pool is reset and no buffer drawn into while it is in use, the two books about a flip agree, what is out of date stays damaged, every frame is acknowledged and damage reaches a flip, through DPMS and VT switches at every point |
| `lost_repaint` | `MCPaintSurvives` | PaintSurvives | *violated* |
| `slot_leak` | `MCSlotLost` | NoSlotLost | *violated* |

### What the violations show

- **parked_forever.** An Enable in an extended frame longer than the maximum is
  answered BadLength by `process_request` before it is dispatched. The reader
  has parked by then, and gets neither ApplyBigRequests nor IgnoreBigRequests.
  It reads nothing more and does not notice that its peer closed; only a failing
  write of the core ends it. (`process_request.rs:138`, `client_reader.rs:12`.)
- **stream_gap.** The fan-outs return the clients whose write was refused, and
  their callers drop that list. A client over the cap loses single events, stays
  connected, and receives later events once its backlog has drained.
  (`fanout.rs:149`, against `client_io.rs:39` and `fanout.rs:10`.)
- **unmap_reverts.** Unmapping a window changes no map state below it, and the
  reverts look only at the focus window's own map state: unmapping an ancestor of
  the focus leaves the focus on a hidden window, although the comments say an
  unmapped ancestor is covered. (`process_request.rs:18638` and `:17694`.)
- **lost_repaint.** A frame's acknowledgement subtracts its snapshot from the live
  damage, and RegionSet removes every live rect that *equals* one of the
  snapshot's. A rect painted while a frame that holds the same rect waits for its
  flip is thus acknowledged with it; the next tick finds no damage and the screen
  keeps the older content until something else is painted there. Rects painted
  twice are the ordinary case (a blinking cursor, a clock), and the rects of
  `scene_structure_damage` are whole outputs. The test of this paints two
  different rects. (`store.rs:1029` and `:505`, against `store.rs:1014` and
  `scene.rs:967`.)
- **slot_leak.** `drain_all`, run by DPMS off and by every VT switch, waits for the
  pools that wait for a fence and then drops their entries; only the slots of
  frames in flight go back to the ring. Each time a flip was acknowledged before
  its fence was seen signalled one of three slots is gone, and when all are, each
  tick is skipped with NoPool. `TickNoFence` leaks one too: the early return when
  no fence ticket is to be had keeps the slot it took (`scene.rs:1553`).
  (`scene.rs:851`, against `backend.rs:4629` and `scene.rs:831`.)

### Observations without a run

`CowStaysOnTop`, `OneMovesAtATime` and the parts of `TreeConsistent` about lists
say nothing of a tree that is `torn`. Without this TLC finds `ListsAgree` violated by
claim, create, reparent the COW into the new window, release: the COW's new parent
lists a window that is gone. Nothing in the code refuses such a request.
`NoCycle`, which is about the parents, and what rests on it hold all the same.

`FramingAgrees` says nothing of `misled` readers. Without this TLC finds it violated
by another minor of BIG-REQUESTS and an Enable behind it
(`process_request.rs:17784`): the reader parked at the Enable takes the stale Ignore,
goes on in the old framing and reads one more request before it finds the answer
meant for it, while the core has enabled the new framing.

Met while modelling, and visible in the definitions:

- *Tree.* `circulate_window` takes the last child below the COW for direction 0
  (RaiseLowest) and inserts it first, so the highest goes to the bottom, and
  direction 1 raises the lowest; with two children both give the same order
  (`resources.rs:1115`, against `:1092` and `:3718`). A DestroyWindow of the root
  reverts the focus and sends DestroyNotify for every window before
  `destroy_window_inner` refuses it (`process_request.rs:1157`).
- *Focus.* XIGrabDevice for the master keyboard takes any window id, one of no
  window too, and no look at who has the keyboard (`process_request.rs:10437`); a
  passive key grab can be activated on a window that is gone. `TargetsSurvive` names
  both.
- *Grabs.* An asynchronous grab by the client of a synchronous passive button grab
  thaws the pointer and keeps the press and the queue behind it; a later freeze
  replays them. This is why `NothingStranded` is silent on `pqueue`.
- *Grabs.* SyncKeyboard after a synchronous passive key grab delivers nothing: the
  XI 1.x form of the activating press, withheld by the grab it activated, trips
  the freeze again at once (against `server.rs:349`).
- *Grabs.* A replay inside a replay takes the rest of the queue before the outer
  one routes its own key, so the order of keys may change. `KeysOnce` counts
  deliveries and says nothing of order.
- *Grabs.* The end of any client thaws devices that another client's core grab has
  frozen: process_disconnect looks only at XI 1.x grabs (`process_disconnect.rs:333`).
- *Grabs.* A replay of a passive grab ends it without releasing the other device it
  holds; AllowEvents by a client that only holds a device on behalf of a grab of
  the other one also thaws that device's own freeze. `LetsGo` is therefore about
  the device the mode names.
- *Grabs.* Withheld pointer events are played without looking at grabs, hence to
  the natural target and not to the owner of the grab (`process_request.rs:18356`).
  A synchronous button grab freezes the pointer even if its owner gets no press
  (`pointer_fanout.rs:385`). XIGrabDevice takes a grab over without AlreadyGrabbed.
- *Display.* A modeset shows the buffer that was on the screen, whose content may be
  old: nothing marks it as out of date beyond the damage there is
  (`backend.rs:15396`), which is why `DamageCoversScreen` excludes `untracked`.
- *Present.* `close_open_frame` drops the completions of the open frame when it fails
  before the submit; only a failed flush queues them (`engine.rs:1849`, against
  the note on failed frames at `frame_builder.rs:337`).
- *Present.* A completion is ready when its sync_file and its render ticket are both
  signalled (`backend.rs:4014`), but the wake-ups are the edge of the sync_file and
  the 1 ms poll of the batches without one. A batch found with the first signalled
  and the second not waits for an unrelated wake-up.
- *Present.* Only `destroy_window_subtree` empties the queue of `present_scheduler`
  (`process_request.rs:1203`). It then triggers the idle fences, by the xid as it is
  then, of every frame ever presented to the window.
- *Present.* Completions that went with a frame of the COW register after those
  registered directly, so the order of reports may differ from that of presents;
  `run.rs:794` triggers whatever fence has the xid now, while the shared-memory fence
  released is the one pinned when the present was taken.
- *Present.* When the signal-only submit fails, the ticket that stands in for it is that
  of the destination's own storage and not of the redirected backing the copy went to
  (`backend.rs:14883`); no ticket counts as signalled.
- *Present.* PixmapSynced takes x_off and y_off as source offsets where Pixmap takes
  them as destination offsets, ignores the update region, records no damage and
  waits for no acquire point (`process_request.rs:7095`).
- *Selections.* A release, and the end of the owner, remove the entry and with it
  the time of its last change; an earlier-stamped SetSelectionOwner handled later
  is then accepted.

### Bounds

| run | bounds | why they are enough |
|---|---|---|
| lifecycle | two connections, two bases (safety) or one (liveness), two waiting requests or one | a base matters when it passes from one connection to another, which takes two; one base forces reuse and refusal at the ceiling; one waiting request already outlives its client, two meet a disconnect between them |
| pipeline | one client, requests enter while fewer than three messages wait, budget 1, sequence numbers modulo 3; one bad minor or stray Ignore at a time, and none after one has misled the reader (`OneBadMinor`) | clients share the channel and the budget only, and another client's requests cost what this one's do; three messages overfill a budget and leave a request behind the backlog; with three numbers a lost, a repeated and a swapped request show, and the wrap is passed many times; one stray Ignore is what there is to go wrong |
| outbound | messages of 1, 2 and 4 units, a socket of 3, a cap of 4, 12 units in all | a message is smaller than, equal to and larger than what the socket has free, and a backlog meets the cap from below, at it and above; three of the largest overfill both |
| windows | three windows of two clients, or two claims of the COW, or a COW that is moved, while focus and grab point nowhere; a window of each client and one claim with every focus or every grab (constraint `Smaller`); root and one window once torn; windows of one client interchangeable | reparenting needs a chain of two below a third for a cycle that is not a swap; one client's window stands between another's two; two claims tell the first and last from others; a focus, its parent, and a parent that dies with it need two windows |
| grabs | two clients, one key, one button, at most two withheld events in all their forms, and no core keys beside pointer events (constraint `Smaller`), clients interchangeable, the view without what the last step did | a grab concerns its owner and anyone else; a press and a release behind it are the two events that start and end a grab inside a replay; each device's events are withheld while the other is frozen, and the proofs cover both queues at once and at any length |
| display | three buffers, three pools, two rects, one failure (`MaxFaults`); one rect and no failure in the violating runs | the sizes are the code's; a rect painted and one not painted tell a snapshot from the live damage; one failure of any kind at any point; what could add up, lost slots, is lost to the switches as often as they come |

Each constant that bounds a counter is named in its module's CONSTANTS with the
word "bound". `SeqWrap` stands for 65536, `Budget` for MAX_REQUESTS_PER_ITER,
`OutboundCap` for OUTBOUND_CAP: they scale a value of the code and do not cut
behaviour off.

`CHECK_DEADLOCK FALSE` is set for the lifecycle, where the server stops, and for
the outbound path, where a client ends. The other systems never stop; a failed
resume ends the process, after which `Exited` of `Scanout` takes its steps.

### Fairness

- `ClientLifecycle`: the core handles control messages (every send wakes it, and
  a spent budget holds back requests only), every setup thread takes its next
  step, and so does a parked reader that is told to stop. `SF(ReaderEof)`: a peer
  that closed has written finitely many bytes, so that a reader which is at its
  socket again and again comes to their end. A reader parked at an Enable is not at
  its socket, and nothing is assumed of it: `ClosedPeerRemoved` excepts the one that
  stays parked, which is `parked_forever` again. A handshake nobody completes ends by
  the socket timeouts `setup_thread.rs` sets. Nothing is assumed of peers, accept,
  requests, or the core stopping: each property holds "or the core stopped".
- `RequestPipeline`: the core, the input thread between its push and its wake,
  and every reader not waiting for its peer run, all by weak fairness. Whether a
  drain of the channel ends is up to the producers, as `try_recv_all` has no limit of
  its own (`sender.rs:57`, `run.rs:567`), and no fairness makes it: producers that
  always have one more message keep the core in one drain while the backlog and the
  timers wait. What depends on it says so: in `QueuesDrain` the channel moves
  whatever the producers do, and the backlog, as the release in `ParkedReleased`,
  has the premise `DrainsEnd`.
- `ClientOutbound`: the core finishes an iteration and takes up the events it is
  given, and the peer keeps reading (the property is about a peer that does).
  `OtherWake` is not fair: the tail must go out without help.
- `Scanout`: the core loop takes its step, and is woken from a poll by a readable
  DRM descriptor or by the deadline `next_wakeup` computes (`WakeDue`), not by
  luck; the GPU finishes its frames, the kernel its flips, the retry's back-off
  passes. Nothing is assumed of requests, DPMS or the seat: `DamageFlips` holds
  "or the output went dark".
- `WindowTree`, `InputFocus` and `DeviceGrabs` state safety only. What follows a
  freeze is up to the client that asked for it.

## 4. Proofs

Every theorem is about every value of the constants: any number of clients,
windows, buffers, any sizes and budgets.

| theorem | module | states |
|---|---|---|
| `LifecycleTypeOK`, `LifecycleBasesExclusive`, `LifecycleNoOrphans`, `LifecycleShutdownReaches` | `ClientLifecycle_proofs` | the safety invariants of the lifecycle |
| `LifecycleInvariant` | `ClientLifecycle_proofs` | their inductive invariant `IndInv` |
| `LifecycleLeases` | `ClientLifecycle_proofs` | `LeaseSpec`: the lifecycle implements `BaseLease` |
| `PipelineTyped`, `InputWithinTwoBudgets`, `RequestsInOrder` | `RequestPipeline_proofs` | `TypeOK`, `InputNotStarved`, `NothingLostOrReordered` |
| `FramingFollowsCore` | `RequestPipeline_proofs` | `FramingAgrees`, whatever requests the clients send |
| `OutboundInOrder`, `OutboundBounded` | `ClientOutbound_proofs` | `WholeInOrder`, `BacklogBounded` |
| `OutboundIsStream` | `ClientOutbound_proofs` | `StreamSpec`: the outbound path implements `ByteStream` |
| `TreeTyped`, `TreeStaysConsistent` | `WindowTree_proofs` | `TreeTypeOK` and `TreeConsistent`, the COW being reparented like any window |
| `OneWindowMoves`, `DisconnectLeavesNothing`, `MappingReveals`, `OverlayStaysOnTop` | `WindowTree_proofs` | the action properties `OneMovesAtATime`, `LeavesNothing`, `MapReveals`, `CowStaysOnTop` |
| `FocusImplementsTree`, `FocusKeepsTreeConsistent`, `FocusKeepsTreeActions` | `InputFocus_proofs` | the composition refines the tree and keeps the invariant and the action properties |
| `FocusTyped`, `FocusLandsOnViewable`, `RequestsKeepTargets` | `InputFocus_proofs` | `TypeOK`, `FocusMovesToViewable`, `TargetsSurvive` |
| `TypeCorrect` | `Scanout_proofs` | `TypeOK`, which includes that at most one frame is in flight |
| `PoolsSafe` | `Scanout_proofs` | `PoolsOutliveFrames`: no descriptor pool is reset while the GPU reads it |
| `AcksSafe` | `Scanout_proofs` | `AcksMatchFlips`: the Pending buffer is the pending ack's, and at most one buffer counts as on the screen |
| `RendersSafe`, `RetiresTheRightOne`, `CommitsAccepted` | `Scanout_proofs` | `RendersOffScreen`, `FlipRetiresItself`, `NoHopelessCommit` |
| `DamageSafe` | `Scanout_proofs` | `DamageCoversScreen`: what is out of date stays damaged |
| `RecordsOfGrabsAgree`, `FrozenIsThawable`, `NothingIsStranded` | `DeviceGrabs_proofs` | `GrabsAgree` (with the types), `Thawable`, `NothingStranded` |
| `KeysAreDeliveredOnce`, `WhoeverLetsGo` | `DeviceGrabs_proofs` | `KeysOnce`, `LetsGo` |

The assumptions are the named ASSUMEs of the modules (`NumBasesAssumption`,
`IdsAssumption`, `LargestAssumption` and so on), which TLC evaluates in every run.
No theorem has another.

**Lifecycle.** `BasesExclusive` is not inductive: it speaks of the bases held at
each stage, and a step may turn one stage into another only if the messages in
the channel are what their senders left. `IndInv` adds `Messages` (a setup
message fits its sender's state and is there once), `Stages` (a client or zombie
went through setup with a base and is not both) and `Registered` (a thread in
setup is in the registry while the core runs). `ShutdownReachesSetup` follows
from `Registered` at the step that stops the core. There is one lemma per
action. For the refinement every step but `HandleSetupAllocate` takes no lease and
gives no connection another base, so it ends some leases or none (`LeasesEnd`);
`HandleSetupAllocate` grants a base that nobody holds, which is `BasesExclusive`.

**Pipeline.** Three inductive invariants over `TypeOK` and `Phases` (the core drains
the channel only when notified, and with budget left only when nothing is deferred).
`Awaited` says where in the loop the core can be after how much of the wait:
beyond one budget only in an iteration that was notified, which ends the wait.
`OrderInv` is `NothingLostOrReordered` itself, about the backlog followed by the
channel as one line per client; `Phases` is what keeps a drained request from
overtaking a deferred one. `FramingInv` says, of each client whose reader is not
misled, that its Enables and Applies under way are one at most and that the reader is
behind the barrier for as long. Ignores may be on their way as well: the reader drops
them at the top of its loop, or is misled by one.

**Outbound.** `OutboundInv` relates all four places a unit can be (read, in the
socket, buffered, accepted) by one equation, and adds that what has left has no gap
until a refusal was ignored. The refinement maps a `Write` to producing or to
losing, by the outcome and what the caller does with it.

**Window tree.** `TreeConsistent` is inductive with the types (`TreeIInv`), in two
layers: `TreeInv`, without the order of the lists, is inductive by itself, and the
order needs it. A COW that was released from elsewhere than the root stays in one
list it does not belong to: `ListsAgree` has this one exception. Nothing else can
come apart by it, since every window but the COW is still where its parent says, and
the parents are what `NoCycle` is about: every set of windows has one whose parent is
outside it. A reparent keeps it because
the code's walk up from the new parent does not meet the window: a set closed
under parents that holds that walk and not the window turns a cycle of the new
tree into one of the old. What destroys windows takes away a set closed under
the lists, without the root (`DestroyedTree`). That lists stay strictly ordered
rests on `PlacedOrder`: a window may come in below any set that holds, with a
member, all above it; `UpClosedSets` shows that every place the code computes is
such a set, the slot below the COW among them. The same fact gives `CowStaysOnTop`
(`TopPlaced`: what comes in below a set that holds the COW is not above it).
`LeavesNothing` needs `NoCycle`: the code destroys the subtrees of those owned
windows whose parent is not owned, and every owned window is below one of them
because a set of owned windows without such a top would be a cycle (`OwnedAllGo`).

**Composition.** Each handler of `InputFocus` is a conjunction with a request of
`WindowTree`, so each step is a step of the tree or leaves it alone, and what is proved
of the tree carries over. The focus
reverts to the nearest ancestor that will do; ancestors are a closed set in the
model, and that one of any set of them lies below all others is again `NoCycle`
(`NearestExists`). `RevertFacts` says what the walk returns, `FocusStep` what each
handler does to focus and grab.

**Scanout.** `PoolsOutliveFrames` speaks of unfinished frames only, but what keeps
their slots are three lists of which a frame moves from one to the next.
`SlotsHeld` says that the lists share no slot, that every frame on one has its
slot taken, and that every unfinished frame is on one: a slot the tick picks is
then no frame's. That drain_all forgets `deferred` keeps this true, since it waits
for the fences first; that it forgets the slots is harmless here and a leak in
`slot_leak`. `AcksMatchFlips` needs to know that the tick's buffer is not
Pending, which would be plain if it only took Free ones; but it also takes back
buffers of refused flips, after a reset may have freed them. `FailedHeld` says what
those are, and that no two have one buffer. `FlipsFollowed` relates the server's
phases to the kernel's flip, screen and unread events, as far as `outrun` and
`untracked` allow: the Pending buffer is flipping, or on the screen with its
event unread. From it follow that completions retire their own frame, that
commits are not made while one is under way and that no buffer in use is drawn
into. `InFlightKept` says that what was painted since the frame under way was drawn
is in the live damage, and counted in `again` where the frame's snapshot holds it
too, so that the ack takes nothing else away; with it `DamageCoversScreen` is
inductive. `LeastIn`, that the code's "first free" exists, rests on the
well-foundedness of `<` on the naturals.

**Grabs.** The inductive invariant `IInv` is what must hold between operations: the
types, the records of each grab agree (`Records`), a device frozen by its own state
has a grab (`Held`), and nothing is open to replay (`Calm`). Inside an operation
neither of the last two need hold: between a grab's end and the replays that
follow a device is open with events withheld, and process_disconnect drops grabs
before it thaws. So `Held` has a parameter, the devices excused for the moment, and
`Calm` is a conclusion about `ComputeFreezes`, not a hypothesis.

The replays are the core. A loop `f` is `Good(n)` when on every state it keeps the
records and the holds, conserves every key (`Flow`: withheld plus delivered), adds
nothing to what is withheld, and, if at most `n` is withheld, ends with its device
settled, without unsettling the pointer when it serves the keyboard. `FlushedGood`
shows that one turn around a `Good(n)` loop is `Good(n + 1)`; the turn may activate or
end a grab and run that whole loop inside, for both devices, before its own key is
delivered. The induction over `n` (`FlushGood`) is done with the well-foundedness of
the naturals and sets in place of predicates, since the provers cannot instantiate the library's
induction theorems; that the recursive functions exist, which those
theorems would give, is proved from the same fact (`Iterates`, `FlushUnfolds`,
`PlayUnfolds`). With it `Compute` settles both devices (`ComputeKeeps`), and each
handler is a chain of operations that keep `IInv`'s parts.

`LetsGo` follows the four ways a client can hold a device. For a disconnect, `Free`
(the client owns nothing and nothing is held on its behalf) survives every replay,
since replays give grabs to registered owners only, and its registrations are gone.
For AllowEvents with nothing withheld, `Quiet` does the same through the request's
own stages: a mode that arms a freeze plays nothing then, and a mode that plays the
held event leaves none armed.

**Only model-checked.** All liveness: fairness and ENABLED are out of the prover's
reach. Every invariant, action property and refinement of the passing runs is
proved. The walks over the tree are recursive in the code; they are closed sets in
the model so that they could be proved about.

## 5. Not modelled

Section 1 names the components without a module; `PROJECT.json` gives the reason
for each. Within the modelled ones:

- *Lifecycle*: authorisation data, the tables process_disconnect sweeps apart
  from windows and the rest; the destruction of a zombie's base. A retained
  client's windows are destroyed like anyone's, as in the code.
- *Pipeline*: the poll's other sources except as wake-ups; lengths, apart from
  "too long".
- *Outbound*: file descriptors passed with a reply.
- *Tree*: geometry (whether siblings overlap is a free choice), attributes, event
  masks, redirection to a window manager (such a request changes nothing),
  save sets (never read by the code), GrabServer (does nothing).
- *Focus*: request timestamps (each request may be ignored), focus events, key
  grabs, freezing.
- *Grabs*: XI 1.x device grabs and AllowDeviceEvents; the requests that register
  passive grabs (a press meets any registration); ChangeActivePointerGrab; motion,
  which is withheld and played like a button event and starts or ends nothing;
  confinement; timestamps (each request may be ignored); a focus of None, which
  drops a replayed key; whom an event of the pointer goes to.
- *Display*: more than one output, which share only the loop and
  `scene_structure_dirty`; outputs that vanish while suspended; the hardware
  cursor; Vulkan errors other than those of `MaxFaults`; what is drawn. The
  drawing engine's own rings and submit groups.

The repository has some 173,000 lines of implementation. Most of them are not of
the kind a model checker helps with: drawing (`kms/v2/backend.rs`, `engine.rs`,
`scene.rs` and the Vulkan layer turn requests into command buffers), the encoding
of requests and replies, tables changed by one request at a time, the mirror of
all that in the nested backend. The models cover the state machines among them
and not the bulk, so that the share of lines stays small.

Hazards of code not modelled yet, beside those in `PROJECT.json`:
a selection's owner that goes during a conversion (`process_request.rs:21059`),
glyph sets shared by reference (`resources.rs:2127`), synthetic key presses that
re-enter the path of real ones (`run.rs:1179`), screen saver, DPMS and IDLETIME over
one idle clock (`run.rs:1198`), presents that complete after their window is gone
(`run.rs:792`), the drawing engine's descriptor pools
(`descriptor_pool_ring.rs:190`), a drain of the channel that producers keep from
ending (`run.rs:567`), and pause and resume that replace each other
(`input_thread.rs:242`).

## 6. Plan

Done: lifecycle, pipeline, outbound path, tree with focus, grabs, and the display
path with seat and DPMS. Next, in this order:

1. `PresentCompletion`: the open frame, the engine's list, the batches waiting on a
   sync_file and a ticket, and the idle fences (`present_completion.rs`,
   `backend.rs:3958`, `:14807`, `engine.rs:1444`), against an abstract specification
   in which each present completes once, after the GPU has read its pixmap. It feeds
   `Scanout` (a present is a paint); the vblank queue of `present_scheduler.rs`
   comes with it.
2. `Selections`, with an abstract register ordered by time that it implements as
   far as an entry lives.
3. `Timers`: key repeat, screen saver, DPMS, SYNC alarms and IDLETIME over one
   clock and one poll deadline. Liveness: a due deadline is taken up.
4. `Crossings`: the Enter/Leave and Focus algorithms as operators over
   `WindowTree`, against the protocol's definition, over all small trees.
5. XI 1.x device grabs in `DeviceGrabs`, which freeze by the same fields, and its
   composition with `InputFocus`, where windows give the reason for `WindowsGone`.
6. `RenderResources`: reference-counted host objects and redirection counts.
7. `GpuReclaim`, watermarks against rings, and the input thread's pause.
8. `NestedHost`: sequence numbers, pending replies and deferred events.

Proofs for the present modules: every invariant, action property and refinement
that the passing runs check is proved, without assumptions beyond those on the
constants. What is left is the termination of the code's walks over a tree that is
not torn, which the closed sets of the model take for granted.
