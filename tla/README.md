# A TLA+ model of magicdesk-x11

magicdesk-x11 runs an X server inside an Android application. The *engine*
(`src/lorie/src/main/cpp/lorie/`) is an Xorg tree with its own DDX: it exports
windows as *outputs* that a *host* (the embedding application) shows on Android
surfaces, with the host as window manager, input source and clipboard. The two
talk over one stream socket, one shared-memory page with a cross-process mutex,
and shared graphics buffers. This directory holds TLA+ modules for the parts of
that machinery whose correctness depends on the order of events, TLC
configurations that check them on small instances, and proofs that TLAPS checks.

Paths below are relative to `src/lorie/src/main/cpp/lorie/` unless they begin
with `docs/` or `patches/`.

## 1. The system

Threads and processes:

| actor | runs | in the models |
|---|---|---|
| X server thread | dix, the DDX, every queued work item | all modules but `Session` |
| input thread | `handleLorieEvents()`: reads the host's socket | `ServerConnection` |
| server's Looper (choreographer) | queues `lorieRedraw` for every display frame | `GpuCopy`, `RedrawEvents`, `WindowPlacement`, `OutputFrames` |
| host Looper | the session: `session.cpp`, its callbacks | `Session`, `GpuCopy` |
| renderer worker | `Renderer::threadLoop()` | `GpuCopy`, `OutputFrames` |
| resource broker of a client | answers for the client's shared memory | `ResourceChannel` (external) |

One redraw (`lorieRedraw`, `InitOutput.c` 380-439) is, in this order: placement of
windows (`WindowPlacement`), the vblank clock (`RedrawEvents`), the window
catalog (`WindowModel`), cursor and shell catalog (`RedrawEvents`), frames
(`OutputFrames`), and the wake-up of the renderer (`GpuCopy`).

### Inventory

| component | state | operations | what is hard | what makes it correct |
|---|---|---|---|---|
| **Work queue** `workqueue.cpp` | a list, a 64-bit sequence | queue, pass, zombie pass, clear | producers on other threads; callbacks that re-enter it | FIFO; bounded passes; no item outlives its client; no starvation |
| **Output selections** `window_outputs.c` 32-341, `cursor.c` | per output: window, liveness, lender, size, held keys and buttons | bind, borrow, resize, release, pointer, key, text, blur; destruction hooks | several outputs share one keyboard and mouse; XIDs are reused; a borrowed family dies with its lender | devices report exactly what is held; one size owner; borrows are live |
| **Frames and layers** `window_outputs.c` 419-541, `window_family_geometry.c`, `renderer_outputs.cpp` | per window an image with damage; per output the layers sent, a revision, flags | paint, map, configure, destroy, bind, publish, draw | pixmap addresses come back; several flags stand for one change; numbers compared across bindings | what is on the surface is what X shows, or something still says otherwise |
| **Placement and size** `window_outputs.c` 344-417, `window_placement.h`, `window_size.h` | geometry of window, dialog and screen | client configures, host resizes, redraw arranges | the redraw's own moves trigger the next one; contradictory hints | one redraw settles it; everything stays reachable |
| **Families, focus, inspection** `window_family.h`, `window_inspection_walk.h`, `window_model.c` 80-207, 598-649 | the window tree, transient links, focus, grabs | belongs to, walk, activate, blur, inspect | cycles in client data; restacking what is walked; membership that depends on the focus | walks end and are exact; activation keeps order; blur ends the family's grabs only |
| **Server connection** `cmdentrypoint.cpp` | `conn_fd`, generation, partial header, completion descriptor | connect/replace, receive, error path, queued commands | two threads take one connection down; stale commands; descriptors in flight | descriptors have one owner; generations separate connections |
| **Session and command transport** `session.cpp`, `command_queue.h`, `output_commands.cpp`, `socket_io.h` | queue of partly sent messages with descriptors, partly read events | connect, disconnect, send, flush, receive | partial I/O, a full socket, peer loss anywhere, callbacks that send | an ordered stream of whole commands; whole events; no leaked descriptor |
| **GPU copies and renderer worker** `InitOutput.c`, `renderer.cpp`, `renderer_outputs.cpp`, `shared_lock.h`, `patches/xserver.patch` | ring in shared memory, pixel mutex, pins, import lists | schedule, execute, complete, acknowledge, access, retire buffers, draw | lost signals, GPU failure, a crash with the mutex held, index wrap | completed means executed; pins balance; no CPU/GPU race; copies are executed |
| **Buffers and pixmap storage** `buffer.c`, `InitOutput.c` | per pixmap: memory, descriptor, mapping, lock, DMA-BUF bracket | create, convert, lock, export, import, flip, send, destroy | any of several system calls fails half way | the pointer is into the storage there is; nothing leaks |
| **DMA copies** `dma_copy.c`, `InitOutput.c` 1100-1164 | Vulkan contexts, imports, staged tail | import, copy, done, quiesce | padding the file does not have; failure of submitted work | the right pixels, alone; a failed device is not used again |
| **Data exchange** `data_exchange.c` | transfers with deadlines, offers, a drag in, a drag out | offer, read, convert, INCR chunks, enter, move, drop, export, reset | timeouts against late answers, bounded slots, a drop that waits for two things | one answer per read; whole data; drags end |
| **Window catalog and state agreement** `window_model.c`, `fullscreen_state.h`, `maximized_state.h`, `window_interaction.h` | per window: what was published, requested and actual state, serials | client request, host confirm, destroy, refresh, observe | answers to older requests; XIDs used again; renderers that come back; a clock that wraps | the host's catalog is the X tree's; properties show what the host confirmed; stale serials are ignored |
| **Resource channel** `resource_channel.c`, `patches/xserver.patch` | pending admissions, one request per client, rights in hand | accept, admit, request, reply, expire, client gone | deadlines against late replies with descriptors | descriptors have one owner; sleepers wake |
| **Direct input** `direct_input.c` | touch slots, tools in proximity | touch, tablet, cancel, reset | full slots, tools that move between outputs | devices and tables agree |
| **Shell catalog, cursor, vblanks** `window_shell.c`, `cursor.c`, `InitOutput.c` 772-807 | records, owner, pending flags, a clock | configure, change, select, queue, redraw | a change between two redraws, owners or connections; a full catalog; a clock set back | what the host was told is current or marked; no early notification |
| devices, keymaps, XKB, video mode, density, icons, GLX table, shm | tables and property values | | | not protocol state |

`PROJECT.json` lists these as components with their status, and under "hazards"
the places where this code can go wrong in ways a test would hardly reach.

## 2. The modules

Definitions are named after the functions they model where TLA+ allows it;
`PROJECT.json` maps each to its lines. Operators commented "Mutant:" are broken
variants of the definition that follows them; no specification uses them.

**`WorkQueue`** models `workqueue.cpp` entire. `queue` is the list, `ticket` the
sequence number of each item, and `stack` the passes on the server thread's call
stack: a callback may close a client, which runs a zombie pass inside the pass
that called it. `Step` is one call of `take()`; what it takes and unlinks
happens under the mutex, the callback after it does not. Retries
(`CallbackRetry`) and producers (`QueueWorkProc`) append at any moment.
Assumed of callers: work is not queued, or asked to be retried, for a client
that is already being closed.

**`WindowOutputs`** models the selection half of `window_outputs.c` (lines
32-341), one action per command and per hook, and what other components do to
it: exported drags, contacts (as the set of outputs that have one), the shell's
admission and the cursor. A command that the code ignores is not a step.
**`WindowOutputsProofs`** holds its theorems and those of the families.

**`OutputFrames`** models the publishing half. An application window, its popup
and the screen can be shown, by views that own, borrow or separate. `images` is
the server's list (pixmap, damage, changed, redirected), `views` the selections,
`record` what the renderer has received and drawn. A pixmap is its address, one
of two, so an address is used again at once; `damageDestroyed()` is what keeps
the server from mistaking the new one for the old. Publication is one action,
with redirection and export failing at will.

**`WindowPlacement`** models `loriePrepareOutputs()` with the functions it calls:
what client hints amount to, the host's proposal within them, the centring of a
new dialog, the clamping of transients and the growth of the screen. One axis:
the code computes the two alike and apart.

**`WindowFamily`** models membership and its users. The window tree, transient
links, kinds and client leaders are chosen once, from all combinations for three
windows, cycles included; focus, stacking, grabs and visibility change. A tree is
the line of each window up to its top level, and the stacking is what a walk from
`lastChild` along `prevSib` meets; `StructuresAssumption` says which lines and
stackings are those of a tree, and TLC evaluates it for every structure of the
run. The loops of the code are recursive functions on the number of turns.
`LinkLimit` is the code's bound of 64 links, kept above what three windows need
(`WalkBudget`), as it is above any real depth.

**`ServerConnection`** models connection and loss at the server's end. The error
path of `handleLorieEvents()` is three steps and the replacement work of
`lorieServerConnect()` seven, because the two threads interleave between them.
Work runs in FIFO order, which is what `WorkQueue` shows. Descriptors are files
and not numbers: a late close shows up in `closedTwice`. `leases` is the set of
input leases by the connection they were taken for, and whether that one was the
current one. **`ServerConnectionProofs`** holds its theorems.

**`Session`** models the host's end: `append`, each branch of the `flush()` loop,
`watch`, `connect`, `disconnect`, `receive` and the payload functions. A message
is `HeaderSize` units, where a unit is any run of bytes that one system call may
move alone; a descriptor goes with one marker unit after its header.
**`CommandStream`** is the abstract promise (ordered, whole, exactly once, gone
with the connection) and `Session` implements it under the mapping
`open <- fd # 0, sent <- accepted, arrived <- Arrived`. **`SessionProofs`** holds
the theorems, the refinement among them.

**`GpuCopy`** models a Present copy from `present_execute_copy` to its
acknowledgement across three threads: scheduling and its early returns, the
ring, registration messages in order, the worker's loop from `shouldWait()` to
the release of retired buffers, GPU failure, CPU access and when it takes the
pixel mutex, destruction of pixmaps, disconnection and a crash. The condition
variable loses signals, as the real one does when its mutex is not held: the
worker is "sleepy" between its test and its sleep. **`GpuCopyProofs`** holds the
theorems.

**`PixmapStorage`** models the life of a pixmap's memory: `LorieBuffer`s of the
three types and the hooks that make, lock, convert, export, flip, import and
send them. Every action chooses where it fails; `live` counts the heap blocks,
descriptors, mappings, hardware references and Vulkan objects that exist.
**`DmaCopy`** extends it by the Vulkan copies: a source is a file of some size
with a driver that wants some padding, and a copy is computed pixel by pixel
from what was imported and what was staged. **`DmaCopyProofs`** holds the theorems
about both.

**`DataExchange`** models `data_exchange.c` entire: the table of transfers with
their tickets and deadlines, both directions, INCR chunks with the deferred
`propertyWork`, the XDND conversation with one target at a time and the
exported drag with its catcher. An action is one request, command, timer or work
item; a late one is an action taken late. **`DataExchangeProofs`** holds the
theorems.

**`WindowModel`** models `window_model.c` from its hooks and message handlers to
the refresh and the three confirm functions. `window` is the X window tree,
`records` the live records, `dead` those marked destroyed. What a refresh
publishes reaches the host's `catalog` at once: the host answers from what it
has received, so a late publication and a late answer look alike to the server,
and all delay is in `toServer`. `inc` and `epoch` identify windows and requests
without the serials that are being checked. **`WindowModelProofs`** holds the
theorems.

**`ResourceChannel`** models admission and the brokered attach: sockets, the
admission counter, a client put to sleep on its request, the reply with its
descriptors, and every way out of each. `installed` is the set of open
descriptors. **`DirectInput`** represents a device by what it was told (begins
less ends, presses less releases), so a lost or repeated event shows.
**`RedrawEvents`** models shell catalog, cursor and vblank queue with the redraw
that serves all three. **`DesktopProofs`** holds the theorems about `WorkQueue`,
`ResourceChannel`, `DirectInput`, `RedrawEvents`, `WindowPlacement` and
`OutputFrames`.

**`MCWindowOutputs`**, **`MCWindowModel`**, **`MCDataExchange`** and
**`MCDmaCopy`** add input sets, budgets and symmetry for TLC. **`MCDesktop`** puts
the last six modules into one state graph: they share no variable, so its first
state chooses which of them moves and a behaviour is a behaviour of that one.
The other runs instantiate their module by a configuration alone.

## 3. What is checked

Every property is defined at the end of its module with the lines and, where
there is one, the sentence of the docs it is about. Several are conjunctions of
named parts. Each module also defines `TypeOK` or keeps its types by its actions.

| run | module, cfg | shows | bounds | states |
|---|---|---|---|---|
| `work_queue` | `WorkQueue` | `QueueIsSound`, `PassIsBounded`, `NoDanglingClient`, `EveryItemIsServed` | 3 items, 2 clients, `MaxSequence` 5 | 481,774 |
| `outputs` | `MCWindowOutputs` | `LeasesMatchDevice`, `NothingIsLeftBehind`, `SelectionsAreSound`, `DragEndSparesOthers` | 3 outputs, 1 XID, 1 key, 1 button | 467,118 |
| `server_connection` | `ServerConnection` | `FilesAreClosedOnce`, `ConnectionsAreApart`, `CompletionFdIsClosed` | 2 connections, 1 descriptor, `MaxInbox` 1, `MaxWork` 2 | 1,234,037 |
| `session` | `Session` | `QueueIsAccounted`, `MessagesAreWhole`, `StreamSpec`, `AcceptedCommandsArrive` | 2 sessions, 2 greetings and `MaxCommands` 2, `MaxEvents` 2, queue of 2 messages, socket of 2 units | 423,119 |
| `window_model` | `MCWindowModel` | `CatalogIsExact`, `AtomsShowConfirmedState`, `AnswersAreCurrent`, `ActivationNeedsInput` | 2 XIDs of two clients, five budgets of up to 3 windows, serials modulo 32 from 28, clock modulo 8 from 7 | 2,052,270 |
| `gpu_copy` | `GpuCopy` | `RingIsIntact`, `CompletedMeansApplied`, `BuffersAreHeld`, `AccessRacesOnlyAbandonedCopies` | 3 buffers, ring of 2, indices modulo 4 from 3, `MaxSerial` 3, 1 session | 2,897,109 |
| `gpu_copy_live` | `GpuCopy`, `GpuCopyLive.cfg` | `PublishedCopyIsExecuted` | 2 buffers, ring of 1, indices modulo 2, `MaxSerial` 2, 2 sessions | 166,666 |
| `data_exchange` | `MCDataExchange` | `AnsweredOnce`, `TransfersAreWhole`, `ReadsAreAnswered`, `DragsAreSettled` | 2 slots, transfers of up to 2 chunks, 1 owner, 2 drag targets, seven budgets | 132,648 |
| `storage` | `MCDmaCopy` | `CpuAccessIsSound`, `ResourcesAreOwned`, `CopiesAreSound` | 2 pixmaps of 2 by 3 pixels, stride 3, files of 8 to 12, paddings 0, 3 and 5, 2 contexts | 549,234 |
| `desktop` | `MCDesktop` | the nine properties below | per component, below | 371,074 |

The properties of `desktop`: `RightsAreOwnedOnce`, `SleepersAreServed`
(`ResourceChannel`), `DevicesMatchTables` (`DirectInput`), `PlacementIsSound`
(`WindowPlacement`), `WalksAreExact`, `ActivationIsOrderly`,
`BlurEndsFamilyGrabs` (`WindowFamily`), `NewsIsPending` (`RedrawEvents`) and
`NoUpdateIsLost` (`OutputFrames`).

Why the bounds are enough for the cases that matter:

* *Work queue.* Three items are one that a pass holds, one living and one dead
  behind it, so a zombie pass nested in a callback unlinks from the middle; two
  clients let zombie passes nest twice; five tickets leave two retries.
* *Outputs.* Two outputs share a key, and one XID is destroyed and created again
  under an output that still names it. Lender, dependent and a rival view take
  three; `ThirdOutputIsQuiet` admits the third only while no input is in flight,
  for no input step reads or writes what sizes and families are decided on.
  Outputs are interchangeable; no liveness is checked with that symmetry.
* *Connection.* Two connections are an old and a new one. With one descriptor
  every position it can be in is reached; `MaxWork` 2 is a command and the reset
  behind it.
* *Session.* The two messages of `connect()` fill the queue when the peer does
  not read, so a command meets the byte bound, which is the one that binds in
  the code too (1 MiB of `lorieEvent`s is fewer than 4096). The socket is smaller
  than a message with its descriptor, so every write can stop at every place. One
  payload kind stands for four: `receive()` treats them alike.
* *Window model.* Each budget says how many windows, connections, requests,
  edits, answers and inputs may happen and is a mix that some case needs: three
  windows on two XIDs and two renderers; a late answer to a reused XID; two
  answers, or an answer and a second observe; a request, an edit and an answer
  across two renderers; two inputs and two activation requests. The serials wrap
  in every budget, and no more are drawn than the modulus.
* *GPU copies.* Three copies in a ring of two reuse a slot, and `StartIndex` 3
  makes the indices wrap at the first. `win` is a window's own pixmap, `src` a
  client's, `root` the screen's: the three cases of `lorieNeedsGpuLock()`. The
  live run has a second session, with buffers to be registered again.
* *Data exchange.* Two slots are full with two transfers and are reused by a
  third; two chunks are a first and a last. The budgets are reads of offers that
  are replaced or reset, conversions by clients that go, both kinds in one table,
  drags over two targets that read data, and exported drags.
* *Storage.* Two pixmaps are source and destination of a copy, or an old and a
  new screen. The file sizes and paddings give: fits; whole rows fit; not even
  one row fits. Pixmaps are interchangeable.
* *Resource channel.* Two connections and room for one admission; two segments,
  so that a late reply could be taken for the answer to the next request.
* *Direct input.* Two outputs with two fingers each compete for three slots.
* *Placement.* Positions on and left of the screen, extents below and above each
  other and the limits, a proposal beyond the largest size.
* *Families.* All trees and transient links of three windows with the kinds that
  matter; two grabbed devices are what one turn of the blur loop does to the next.
* *Redraw events.* Two shell windows in a catalog of one, two owners; two outputs
  under the pointer; one vblank, and late flips at every moment.
* *Frames.* `MaxChanges` 4 bounds the changes of each behaviour: enough for a
  window to be destroyed, created and painted under a binding, with its address
  used again.

Deadlock is checked for the work queue and the outputs. The others may stop: a
session ends, the server ends with `FatalError`, or a bound is reached.

### Fairness

* `WorkQueue`: the main loop calls `ProcessWorkQueue` again and again, `take()`
  returns, callbacks return. Nothing obliges a callback to succeed.
* `ServerConnection`: both threads run; `lorieWakeServer()` follows every queued
  item, and poll reports a readable or broken socket. Host and peer owe nothing.
* `Session`: the Looper polls, its callbacks return, and the server's input
  thread reads its socket. Host and server need not send anything.
* `GpuCopy`: weak fairness of the worker and of the server's straight-line code;
  strong fairness of the worker's lock (the server keeps releasing the mutex),
  of `lorieRedraw` (the choreographer queues one per frame) and of the session's
  reads, which other steps disable now and then.
* `DataExchange`: timers fire, deferred work runs, and a drag's target answers a
  position. Neither the selection's owner nor the host owes an answer.
* `ResourceChannel`: timers fire, and a client that is awake is dispatched. The
  broker owes nothing.

### Where code and documentation disagree

Two runs expect a violation; each is a "finding" in `PROJECT.json`.

* `outputs_revoked_input` (`RevokedOutputsHoldNoInput`): releasing a lender
  marks its dependent dead without releasing the keys the dependent holds, and
  the dependent's own key-up is then ignored. The key stays pressed until the
  dependent is released or rebound, against `docs/embedding.md` 337-339.
* `data_pending_drop` (`PendingDropIsAwaited`): a drop that waits can be left
  with nothing to wait for, so that FINISH (`docs/embedding.md` 365) never comes:
  `dropDrag()` sends the last position again after the data, and nothing is sent
  if that point is no longer over a window that takes drops (`data_exchange.c`
  567); and a transfer whose requestor is gone is released without
  `selectionFinished()` (680, 686-690).

### Exceptions that properties name

Where the code leaves a gap that no document promises to close, the property
states what does hold and its comment names the rest:

* `CatalogIsExact`: a window destroyed in the same frame as a *repeated* observe
  on one connection is not in the host's next snapshot and its removal is never
  sent (`window_model.c` 322, 346); a host that observes twice must forget what
  it knew.
* `SocketsAreClosedOnce`: a connection that fails between its registration and
  the store to `conn_fd` (`cmdentrypoint.cpp` 516-517) is closed by the input
  thread and left in `conn_fd`, to be closed again by the next replacement.
* `LeasesAreCurrent`: output commands carry no generation, so one of an old
  connection queued behind the replacement is applied after it.
* `DragsAreSettled`: drops in the situation of `data_pending_drop`.
* `MappingIsCurrent`: pixmaps whose unlock the kernel refused.
* `BlurEndsFamilyGrabs`: who belongs to the family by the focus alone is judged
  anew by every turn of the loop, and an earlier turn may have unmapped the popup
  that had the focus (`window_model.c` 634-646). Such a window keeps its grab when
  the focus left the family with the popup. The other way round it loses a grab
  that was not the family's: a popup whose parent is a transient of the owner has
  the focus on a child that names the root in `WM_TRANSIENT_FOR`; unmapping the
  popup takes the focus to the parent, into the family, and a popup of the same
  client follows it. That case takes five windows, more than the run has; the
  proof came upon it.
* `NewsIsPending`: a shell window that found the catalog full is not looked for
  again when records go, until something else changes.
* `NoUpdateIsLost`: an output's first frame after a rebind may carry the number
  of the last one drawn, and `drawOutputs()` (`renderer_outputs.cpp` 112) then
  takes it for drawn.

Three more behaviours that the models have and no property forbids: losing the
peer resets data exchange and completion descriptor but not the outputs, so what
the lost host held stays pressed until another connects (`cmdentrypoint.cpp`
169-177); `copyWaitingForBuffer` is cleared only in `threadLoop()`, so a worker
that found the missing buffer itself goes to sleep with nothing missing
(`renderer.cpp` 144-165); destroying a pixmap withdraws a texture that an unread
copy names, which then holds up the ring (`InitOutput.c` 1038).

## 4. What is proved

A theorem holds for every value of the constants that its module's assumptions
admit: any number of clients, windows, buffers or connections, any bound. Each
proof has the same plan. The property is not inductive alone, so a stronger
invariant is stated (and was checked by TLC on the instance of the run before it
was proved); a lemma says what each action, or each group of actions, does to
each part of it; the last step combines initial states and steps with `PTL`.
Actions that differ in detail and not in effect share a lemma about the effect
(`Amended` in the window model, `StorageFollows` in the storage, `ChannelStep`
in the resource channel).

| module | theorem | property |
|---|---|---|
| `DesktopProofs` | `TypeCorrect`, `QueueCorrect`, `ClientsAreReleased`, `PassesAreBounded` of the work queue | `TypeOK`, `QueueIsSound`, `NoDanglingClient`, `PassIsBounded` |
| `WindowOutputsProofs` | `LeasesCorrect`, `OutputsLeaveNothingBehind`, `SelectionsCorrect`, `DragEndCorrect` | `LeasesMatchDevice`, `NothingIsLeftBehind`, `SelectionsAreSound`, `DragEndSparesOthers` |
| `WindowOutputsProofs` | `FamilyInvariance`, `WalksSound`, `WalksCorrect`, `ActivationCorrect`, `BlurCorrect` of the families | `FamilyInv`, `WalksAreSound`, `WalksAreExact`, `ActivationIsOrderly`, `BlurEndsFamilyGrabs` |
| `ServerConnectionProofs` | `FilesCorrect`, `ConnectionsCorrect` | `FilesAreClosedOnce`, `ConnectionsAreApart` |
| `WindowModelProofs` | `TypesCorrect`, `AtomsCorrect`, `CatalogCorrect`, `AnswersCorrect`, `ActivationCorrect` | `TypeOK`, `AtomsShowConfirmedState`, `CatalogIsExact`, `AnswersAreCurrent`, `ActivationNeedsInput` |
| `GpuCopyProofs` | `RingCorrect`, `CompletionCorrect`, `BuffersCorrect`, `AccessCorrect` | `RingIsIntact`, `CompletedMeansApplied`, `BuffersAreHeld`, `AccessRacesOnlyAbandonedCopies` |
| `DmaCopyProofs` | `AccessCorrect`, `CopiesCorrect`, `OwnershipCorrect` | `CpuAccessIsSound`, `CopiesAreSound`, `ResourcesAreOwned` |
| `SessionProofs` | `TypesCorrect`, `AccountsCorrect`, `MessagesCorrect`, `StreamImplemented` | `TypeOK`, `QueueIsAccounted`, `MessagesAreWhole`, `StreamSpec` |
| `DataExchangeProofs` | `TypesCorrect`, `AnswersCorrect`, `TransfersCorrect` | `TypeOK`, `AnsweredOnce`, `TransfersAreWhole` |
| `DesktopProofs` | `DirectCorrect`, `NewsCorrect`, `PlacementCorrect`, `FramesCorrect`, `ChannelCorrect` | `DevicesMatchTables`, `NewsIsPending`, `PlacementIsSound`, `NoUpdateIsLost`, `RightsAreOwnedOnce` |

**Work queue**, from `WorkQueueAssumption` (null pointers are no items or
clients, and the bound is a number). `QueueInv` is
`TypeOK /\ Ordered /\ NoOvertaking /\ HeldItemsAreUnlinked /\ CounterIsNewest /\
HeldItemsAreAllocated`. `CounterIsNewest` is needed because an append keeps the
list ordered, and `served` below it, only if no ticket or snapshot exceeds the
counter; `HeldItemsAreAllocated` because a producer could otherwise be given an
item that a callback is running for. `NoOvertaking` needs `Ordered`: an ordinary
pass takes the head, and the head is the oldest. `NoDanglingClient` follows from
`Covered`: an item of a closed client lies within the snapshot of a zombie pass
of that client which is still on the stack, because the client is marked before
the snapshot is taken, and a pass that ends has walked past everything its
snapshot covers. `PassIsBounded` needs a budget: what a pass has called and what
it can still meet below its snapshot are no more than it found.

**Outputs**, from `OutputsAssumption`. `OutputsInv` is
`TypeOK /\ InputInv /\ TermsInv`. `InputInv` is what input steps can disturb
(leases, their holders, freed outputs), `TermsInv` what only the life cycle can:
the list links every bound output once, a window has one size owner, a sized view
has an owner, a dependent has a living lender of its family. A binding releases
and then selects, so `TermsOf` is stated of any selections, those between the two
halves included.

**Families**, from `FamilyAssumption` (finitely many windows; the names of no
window are none) and `StructuresAssumption` (lines and stackings are those of a
tree, and the owner is a top-level window). `FamilyInv` says that the structure is
the one chosen and membership what the walk answered to it (`Settled`), that a
realized window has realized ancestors and the focus is on a realized window
(`Standing`), and that the stacking is still a walk of the tree: every window once,
a subtree without a gap (`IsStacking`). The last is what raising has to keep, and
what the tree links of the inspection are read from; `Standing` is what makes the
focus revert to a window that can have it. Every loop of the model is a recursive
function over a number of turns. `Turns` shows that such a function has the values
of its equation, `Counting` is the induction over the turns (by the least number
for which a claim would fail, as in `SessionProofs`), and what a loop computes is
a claim about its n-th turn:

* *Walks.* The walk of `lorieWindowFamilyContains()` goes up the line of a station,
  then to the station its nearest link names. That it stops only at stations is
  `WalksSound`, for any budget. That it reaches all of them, cycles or not, needs
  `WalkBudget`: there are at most as many stations as windows, for the set of
  stations stops growing the first time it does not grow, and a line costs no more
  links than its length. `WalksCorrect` has this as a hypothesis, and `MCDesktop`
  assumes it (`BudgetSuffices`), so TLC evaluates it. With the code's 64 links it
  says, for instance, sixteen windows nested four deep; beyond it a member may be
  overlooked, and that is what the bound is for. The inspection is shown to go from
  each window of the stacking to the next, so its n-th turn has seen the first n.
* *Activation.* What `Kept` keeps is in order and complete; one `Raised` moves a
  subtree to the end and leaves the order of all other pairs; the n-th turn has the
  first n members' subtrees on top, later ones above.
* *Blur.* `Blurred` relates each turn's state to the one at the start: what is
  realized and grabbed only shrinks, a grab that ended was the family's, lay in
  one of its popups or is in the exception above, and the focus has moved only if
  its window was unmapped. None of this is undone by a later turn (`Further`).

**Server connection**, from `ConnectionAssumption`. `ServerInv` says where a
descriptor is: sent if and only if it is in one of five places (a socket, queued
work, the completion slot, data exchange, closed) and in no two of them; how a
socket gets from the queue to `conn_fd` (`ConnectionsComeOnce`,
`SocketsAreInstalled`); and that queued work is never of a later generation,
while a command of the present one was read from the socket listened to
(`GenerationsMatch`).

**Session**, from `SessionAssumption` (sizes are positive, bounds are numbers).
`SessionInv` is `ConnInv /\ OutInv /\ InInv`, and the two directions are proved
apart. *Commands:* the stream is whole from step to step only because the queue
is the tail of what was accepted, and because no message but the first is sent in
part, its descriptor after its bytes (`QueueShape`). `StreamOf` and `Unsent` join
sequences of sequences, so what `FlattenSeq` does to an append, a tail and a
concatenation has to be proved first, by induction: not by the library's theorem,
whose operator parameter no prover here instantiates, but by the least number for
which a claim would fail (`LeastNumber`, from the well-foundedness of `<`).
*Events:* `UnitsAreOrdered` says that the units in the socket follow each other
through and across events, and `CursorInv` that the first of them is the one
which the header, the pending flag and the counts make `receive()` expect;
`PartsInv`, from which `EventsAreWhole` follows, would not be kept without them.
*Refinement:* `StreamIsInjective` (no unit occurs twice in a stream) makes
`Arrived` grow by one at most with each read, and only to the number of accepted
commands; every other step is `Open`, `Close`, `Send` or a stutter.

**Window model**, from `ConstantsAssumption`, whose last clauses say that fewer
serials are drawn and fewer milliseconds pass than the counters can tell apart.
To the types and `AtomsShowConfirmedState`, `ModelInv` adds: a record is of the
window that has the XID now; a record that is published and not marked is what
the host has, and what the host has is published, destroyed or in doubt
(`PublishedIsKnown`); a clean model has no stale record (`CleanIsPublished`);
nothing is in flight or published before a host observes (`SessionsAreApart`); no
serial is shown that was not drawn (`SerialsAreDrawn`), and one that a record
shares with the catalog or with a command in flight means the same window and the
same request (`SerialsIdentify`); the stamp of the last input is that of the input
nobody has used (`InputIsAuthority`). `CatalogIsExact` is then a consequence;
`AnswersAreCurrent` is `SerialsIdentify` applied to the command at the head of the
queue; `ActivationNeedsInput` is `InputIsAuthority` and arithmetic, that the
difference of two wrapped clocks is the time that passed. The arithmetic of the
serial counter, which skips zero when it wraps, is `SerialsAdvance`.

**GPU copies**, from `GpuCopyAssumption` and `NoneAssumption` (`None` is no
copy). The first says that the capacity divides the index range, as 64 divides
2^32 in the code: without it entries would be overwritten at the wrap. `CopyInv`
says that the unread entries are the newest copies (`RingHolds`), that everything
before them was applied (`ReadIsApplied`), that an unread copy has its operation
or was abandoned, that every waiting operation pins its buffers, that who is in a
locked section owns the mutex and an access without it is to a buffer without
pins (`LockIsOwned`), and that the buffers of the copy on the GPU are kept
(`GpuHolds`).

**Storage and DMA copies**, from `PixmapsAssumption`, `BuffersAssumption` and
`ImageAssumption` (the stride is no less than the width). `DmaInv` has the
soundness of one buffer (what its fields may say of each other), the screen's and
the root's pixmaps, the imports and what the copy under way has prepared
(`CopyIsPrepared`), that the CPU stays away from its destination, and
`ResourcesAreOwned`, where resources are counted: the proof follows the
cardinalities of the sets of owners of each kind as one owner comes, goes or
moves. `CopiesAreSound` also needs that rows which are imported whole lie inside
the file, for any stride, size and padding.

**Resource channel**, from `ChannelAssumption`. `ChannelInv` says that a channel
which is open carries the request it waits for or the answer to it, and nothing
otherwise, so that a late reply is never taken for the next; that admissions are
counted; and that the open descriptors are those the connections own.

**Direct input**, from `DirectAssumption`. `DirectInv`: the tables and the devices
agree (`ContactsInv`, `ToolsInv`), and a tool that is near an output has its
device (`StyliExist`). The last part is needed because `tabletRelease()` clears
the table even when the device does not exist, and tells nobody. A tablet event
releases up to two tools before it presses, so `ReleaseFacts` and
`ReleasedIfFacts` speak of the intermediate states.

**Redraw events**, from `RedrawAssumption`, which says that the shell windows are
finitely many. `NewsInv` speaks of the server and the host together: the host's
catalog is the server's even while nobody is owner (`ShellInv`), and records are
counted, because the refresh stops at a full table. That the clock goes back
after a late page flip does not matter to `VblankInv`, for who was notified keeps
the frame of the notification.

**Placement**, from `PlacementAssumption`. The settling of one redraw rests on
three lemmas: whatever hints a client sends, contradictory ones included, amount
to limits that some size satisfies (`LimitsAreSatisfiable`); a dialog placed once
is placed for good (`PlacedDialog`); a canvas that grew to the edge of the family
does not grow again (`GrownCanvas`). The invariant needs no more than the types
and the satisfiable limits.

**Frames**, from `FramesAssumption` (a binding names outputs and windows there
are). `FramesInv`: an image that is not marked watches the pixmap its window
draws to (`ImagesInv`), so drawing that no publication has seen is in a mark or
in damage; an output that is not marked has at the renderer what was last sent
(`SentInv`); frames of a binding are numbered upwards (`NumbersInv`), hence a
picture is either about to be replaced or the frame, but for windows whose images
are marked (`PictureInv`); the geometry of a live family is told or pending
(`FamilyInv`). Publication touches every output and image at once, so
`PublishedOutput` follows one output through it and `PublishStep` joins them.

**Data exchange**, from `ConstantsAssumption`. `ExchangeInv` is
`TypesInv /\ OffersInv /\ TableInv`, and `TableInv` has four parts. `SlotsInv`
accounts for the pieces of each transfer: what was received is what the owner
wrote but for the piece still on the window (`ReceivesInOrder`), and what was
sent is what the client has read and the piece on its window (`SendsInOrder`).
That is kept only if work runs when the property is the one it was queued for,
which is `WorkInv`: an item whose ticket is still the slot's belongs to a
transfer in pieces that is marked queued, no two items belong to one transfer,
and a sending one has no property on the window. Tickets are never given twice,
so work left behind by a released slot is for nobody, whoever has the slot now.
`ReadsInv` is why no READ is answered twice: while a slot serves it, it has no
answer, and no other slot serves it. `DragIsSound` counts a drop as finished,
pending or due at one target, so a FINISH always uses up a DROP (`HasDrop`). The
handlers that several actions share have a lemma each (`Failed`, `Received`,
`Sent`, `SelectionChanged`).

Only model-checked:

* liveness under fairness (`EveryItemIsServed`, `CompletionFdIsClosed`,
  `AcceptedCommandsArrive`, `PublishedCopyIsExecuted`, `ReadsAreAnswered`,
  `DragsAreSettled`, `SleepersAreServed`), which this prover does not reach;
* `TypeOK` of `GpuCopy`, whose type of the socket's messages is kept by
  `SelectSeq`, a recursive definition of the standard module; the proofs use
  `CopyTypes`.

All other properties of the passing runs, invariants, action properties and the
refinement, are theorems.

## 5. What the models leave out

* Allocation failure in the error path's `QueueWorkProc()`, in a bind's
  `calloc()`, in the redraw's records and in `propertyChanged()` of the data
  exchange; other allocation failures are failure steps.
* Reuse of descriptor *numbers* (`sendData()` reads `conn_fd` several times while
  the input thread may close it).
* The time after a renderer died with the pixel mutex: the server then ends with
  `FatalError` (`LockFails`) or waits for a mutex that nobody releases; no
  document promises more.
* Calls of connect or destroy from inside a session callback.
* The legacy input events of `cmdentrypoint.cpp` (stylus, touch, mouse, key),
  which no host in the repository sends.
* Data exchange: the host answers a REQUEST once, ENTERs before it moves or
  drops, and does not move after a DROP; clients follow ICCCM. Hit testing is a
  choice of target.
* Storage: memory of its own (`mem`) only for pixmaps without a buffer; drivers
  that lack a destroy function; reference counts above one, which are
  `GpuCopy`'s.
* Placement: families of more than 32 layers are not placed beyond the 32nd; a
  guest window manager places its windows itself.
* Frames: an export that fails is not tried again until the window changes; a
  frame for an output without a surface is dropped by the renderer, so the host
  is assumed to give the surface first.
* How the server takes the manager selection at startup, close requests and
  gestures; what an inspection says of each window.
* Reuse of a serial after 2^32 requests, and an input older than 2^32
  milliseconds.
* Pixels of cursors and icons, formats, keymaps, and the wording of what is
  logged. `InputXKB.c` and `fbconfigs.h` are tables, and `shm/shmem.c` and
  `xshmfence.c` libraries: they keep no protocol state of this program.
* The components marked `not_modelled` in `PROJECT.json`, each with its reason.

## 6. What could come next

The properties that remain with TLC alone are the seven of liveness, and `TypeOK`
of the GPU copies. Liveness under fairness and `ENABLED` are outside what the
prover handles, so a proof of these would have to wait for another tool. What they
rest on is proved: the order and the bound of a pass (`EveryItemIsServed`), the
place of every descriptor (`CompletionFdIsClosed`), the refinement of
`CommandStream` (`AcceptedCommandsArrive`), the ring (`PublishedCopyIsExecuted`),
the table of transfers (`ReadsAreAnswered`, `DragsAreSettled`) and the channel
(`SleepersAreServed`).

The hazards of `PROJECT.json` without a property, each with its note, are the
places where the model would grow first: descriptor numbers, and the time after
the renderer died with the pixel mutex.
