------------------------------ MODULE GpuCopy ------------------------------
(***************************************************************************)
(* Present copies offloaded to the renderer's GPU: the ring of copies in   *)
(* shared memory, the pixel mutex, the buffers the renderer has imported,  *)
(* and how a copy is scheduled, executed, completed and acknowledged       *)
(* (InitOutput.c, cmdentrypoint.cpp, renderer.cpp, and the Present hooks   *)
(* of patches/xserver.patch).                                              *)
(*                                                                         *)
(* Threads: the X server thread; the renderer worker; the renderer         *)
(* session's handler thread, which applies buffer messages in the order    *)
(* they were sent.  The worker sleeps on a condition variable whose mutex  *)
(* the server cannot take, so the server's signal is lost on a worker that *)
(* has decided to sleep and does not sleep yet ("sleepy").                 *)
(*                                                                         *)
(* A buffer stands for a pixmap and the LorieBuffer behind it.  Whether an *)
(* output needs to be drawn is a free choice.                              *)
(* history: applied, abandoned.                                            *)
(***************************************************************************)
EXTENDS Naturals, Sequences, FiniteSets

CONSTANTS
    Buffers,        \* pixmaps, the screen's among them
    Root,           \* the screen pixmap
    Presented,      \* pixmaps that clients present; the others belong to windows
    None,
    Capacity,       \* LORIE_GPU_COPY_QUEUE_CAPACITY
    IndexModulus,   \* where writeIndex and readIndex wrap (2^32 in the code)
    StartIndex,     \* where the indices stand after earlier copies, all executed
    MaxSerial,      \* bound on scheduled copies, counted from there
    MaxSessions     \* bound on renderer sessions

ASSUME GpuCopyAssumption ==
    /\ Root \in Buffers /\ None \notin Buffers
    /\ Presented \subseteq Buffers \ {Root}
    /\ Capacity \in Nat \ {0} /\ IndexModulus \in Nat \ {0}
    /\ IndexModulus % Capacity = 0 /\ IndexModulus > Capacity
    /\ StartIndex \in 0..(IndexModulus - 1)
    /\ MaxSerial \in Nat /\ MaxSessions \in Nat

VARIABLES
    \* the X server thread
    pixmaps,          \* pixmaps that exist
    pending,          \* gpuCopyPending of each buffer, rootGpuCopyPending of Root
    registered,       \* registeredBuffers
    vblanks,          \* Present operations that wait for their copy
    scheduling,       \* the copy lorieTryScheduleGpuCopy has let through
    access,           \* the pixmap under CPU access, and whether it took the lock
    serial,           \* gpuCopySerialCounter
    fatal,            \* the server ended with FatalError
    \* shared memory
    lock,             \* owner of the pixel mutex
    writeIndex, readIndex, entries, completedSerial,
    surfaceAvailable,
    \* the connection
    alive, wire, sessions,
    \* the renderer
    worker,           \* where the worker is
    attached,         \* the worker has mapped the shared state
    hostSurface,      \* the host gave the renderer a surface
    added, buffers, removed,
    copyWaitingForBuffer, connectionFailed,
    completed,        \* local of applyPendingGpuCopiesLocked
    \* history
    applied,          \* copies the GPU has finished
    abandoned         \* copies acknowledged before they were completed

serverVars == <<pixmaps, pending, registered, vblanks, scheduling, access, serial, fatal, abandoned>>
ringVars == <<writeIndex, readIndex, entries, completedSerial>>
linkVars == <<alive, wire, sessions>>
hostVars == <<attached, hostSurface>>
importVars == <<added, buffers, removed>>
rendererVars == <<worker, hostVars, importVars, copyWaitingForBuffer, connectionFailed,
                  completed, applied>>

vars == <<serverVars, lock, ringVars, surfaceAvailable, linkVars, rendererVars>>

Copy == [serial : Nat, src : Buffers, dst : Buffers]

Messages == [type : {"add", "remove"}, buffer : Buffers] \cup [type : {"state"}]

Access == [buffer : Buffers, locked : BOOLEAN]

ASSUME NoneAssumption == None \notin Copy

WorkerSteps == {"check", "sleepy", "waiting", "apply", "copy", "gpu", "finish", "draw", "drawing",
                "release", "dead"}

TypeOK ==
    /\ pixmaps \in SUBSET Buffers
    /\ pending \in [Buffers -> Nat]
    /\ registered \in SUBSET Buffers
    /\ vblanks \in SUBSET Copy
    /\ scheduling \in [src : Buffers, dst : Buffers] \cup {None}
    /\ access \in Access \cup {None}
    /\ serial \in Nat
    /\ fatal \in BOOLEAN
    /\ lock \in {"free", "server", "worker"}
    /\ writeIndex \in 0..(IndexModulus - 1)
    /\ readIndex \in 0..(IndexModulus - 1)
    /\ entries \in [0..(Capacity - 1) -> Copy \cup {None}]
    /\ completedSerial \in Nat
    /\ surfaceAvailable \in BOOLEAN
    /\ alive \in BOOLEAN
    /\ wire \in Seq(Messages)
    /\ sessions \in Nat
    /\ worker \in WorkerSteps
    /\ attached \in BOOLEAN
    /\ hostSurface \in BOOLEAN
    /\ added \in SUBSET Buffers
    /\ buffers \in SUBSET Buffers
    /\ removed \in SUBSET Buffers
    /\ copyWaitingForBuffer \in BOOLEAN
    /\ connectionFailed \in BOOLEAN
    /\ completed \in Nat
    /\ applied \in SUBSET Nat
    /\ abandoned \in SUBSET Nat

Init ==
    /\ pixmaps = Buffers
    /\ pending = [b \in Buffers |-> 0]
    /\ registered = {}
    /\ vblanks = {}
    /\ scheduling = None
    /\ access = None
    /\ serial = 0
    /\ fatal = FALSE
    /\ lock = "free"
    /\ writeIndex = StartIndex /\ readIndex = StartIndex
    /\ entries = [k \in 0..(Capacity - 1) |-> None]
    /\ completedSerial = 0
    /\ surfaceAvailable = FALSE
    /\ alive = FALSE
    /\ wire = <<>>
    /\ sessions = 0
    /\ worker = "dead"
    /\ attached = FALSE
    /\ hostSurface = FALSE
    /\ added = {} /\ buffers = {} /\ removed = {}
    /\ copyWaitingForBuffer = FALSE
    /\ connectionFailed = FALSE
    /\ completed = 0
    /\ applied = {}
    /\ abandoned = {}

-----------------------------------------------------------------------------

\* pthread_cond_signal: wakes a worker that sleeps, and is lost otherwise.
Woken == IF worker = "waiting" THEN "check" ELSE worker

Queued == (writeIndex + IndexModulus - readIndex) % IndexModulus

\* The entry the worker looks at.
Front == entries[readIndex % Capacity]

\* The server thread is between requests.
Free == scheduling = None /\ access = None /\ ~fatal

lorieRendererAvailable == surfaceAvailable

Stalled == ~alive \/ ~lorieRendererAvailable

-----------------------------------------------------------------------------
\* The X server: scheduling a copy.

\* Mutant: the ring takes one entry too many.
QueueFullLate == Queued > Capacity

QueueFull == Queued >= Capacity

\* lorieTryScheduleGpuCopy() up to its last early return.
TrySchedule(src, dst) ==
    /\ Free
    /\ {src, dst} \subseteq pixmaps
    /\ alive /\ lorieRendererAvailable
    /\ ~QueueFull
    /\ serial < MaxSerial
    /\ scheduling' = [src |-> src, dst |-> dst]
    /\ UNCHANGED <<pixmaps, pending, registered, vblanks, access, serial, fatal, abandoned, lock,
                   ringVars, surfaceAvailable, linkVars, rendererVars>>

\* lorieRegisterBuffer() of src and then, unless it is the screen, of dst.
RegisterBuffers(src, dst) ==
    LET new == SelectSeq(<<src, dst>>, LAMBDA b : alive /\ b \notin registered \cup {Root})
    IN  /\ registered' = registered \cup {new[k] : k \in DOMAIN new}
        /\ wire' = wire \o [k \in DOMAIN new |-> [type |-> "add", buffer |-> new[k]]]

\* The rest of it: register and pin the buffers, publish the entry, signal the
\* worker.  If the vblank cannot be queued again the copy is acknowledged at
\* once although it is in flight.
PublishCopy ==
    /\ scheduling # None
    /\ LET c == [serial |-> serial + 1, src |-> scheduling.src, dst |-> scheduling.dst]
       IN  /\ RegisterBuffers(c.src, c.dst)
           /\ entries' = [entries EXCEPT ![writeIndex % Capacity] = c]
           /\ serial' = c.serial
           /\ \/ /\ pending' = [b \in Buffers |->
                                  IF b \in {c.src, c.dst} THEN pending[b] + 1 ELSE pending[b]]
                 /\ vblanks' = vblanks \cup {c}
                 /\ abandoned' = abandoned
              \/ /\ abandoned' = abandoned \cup {c.serial}
                 /\ UNCHANGED <<pending, vblanks>>
    /\ writeIndex' = (writeIndex + 1) % IndexModulus
    /\ worker' = Woken
    /\ scheduling' = None
    /\ UNCHANGED <<pixmaps, access, fatal, lock, readIndex, completedSerial, surfaceAvailable,
                   alive, sessions, hostVars, importVars, copyWaitingForBuffer,
                   connectionFailed, completed, applied>>

-----------------------------------------------------------------------------
\* The X server: completion.

lorieGpuCopyIsDone(s) == completedSerial >= s

Uses(c, b) == b \in {c.src, c.dst}

\* Mutant: only the source is unpinned.
AckSource(S) ==
    /\ vblanks' = vblanks \ S
    /\ pending' = [b \in Buffers |-> pending[b] - Cardinality({c \in S : c.src = b})]
    /\ abandoned' = abandoned \cup {c.serial : c \in {d \in S : d.serial > completedSerial}}

\* lorieGpuCopyAck() of the copies in S, whose vblanks end.
lorieGpuCopyAck(S) ==
    /\ vblanks' = vblanks \ S
    /\ pending' = [b \in Buffers |-> pending[b] - Cardinality({c \in S : Uses(c, b)})]
    /\ abandoned' = abandoned \cup {c.serial : c \in {d \in S : d.serial > completedSerial}}

\* Copies that present_execute_copy acknowledges: done, or given up.
Settled == {c \in vblanks : lorieGpuCopyIsDone(c.serial) \/ Stalled}

\* The completion eventfd runs lorieRecheckGpuCopies().
Recheck ==
    /\ Free
    /\ Settled # {}
    /\ lorieGpuCopyAck(Settled)
    /\ UNCHANGED <<pixmaps, registered, scheduling, access, serial, fatal, lock, ringVars,
                   surfaceAvailable, linkVars, rendererVars>>

\* Mutant: a redraw does not signal the renderer.
RedrawQuietly ==
    /\ Free
    /\ lorieGpuCopyAck(Settled)
    /\ worker' = worker
    /\ UNCHANGED <<pixmaps, registered, scheduling, access, serial, fatal, lock, ringVars,
                   surfaceAvailable, linkVars, hostVars, importVars, copyWaitingForBuffer,
                   connectionFailed, completed, applied>>

\* lorieRedraw(), once per display frame: it polls the vblanks and signals the
\* renderer if that has a surface (nothing clears drawRequested).
lorieRedraw ==
    /\ Free
    /\ lorieGpuCopyAck(Settled)
    /\ worker' = IF Stalled THEN worker ELSE Woken
    /\ UNCHANGED <<pixmaps, registered, scheduling, access, serial, fatal, lock, ringVars,
                   surfaceAvailable, linkVars, hostVars, importVars, copyWaitingForBuffer,
                   connectionFailed, completed, applied>>

\* present_vblank_scrap() and present_vblank_destroy(): the window goes.
Scrap(c) ==
    /\ Free
    /\ c \in vblanks
    /\ lorieGpuCopyAck({c})
    /\ UNCHANGED <<pixmaps, registered, scheduling, access, serial, fatal, lock, ringVars,
                   surfaceAvailable, linkVars, rendererVars>>

lorieUnregisterBuffer(b) ==
    IF alive /\ b \in registered
    THEN /\ registered' = registered \ {b}
         /\ wire' = Append(wire, [type |-> "remove", buffer |-> b])
    ELSE UNCHANGED <<registered, wire>>

\* lorieExaDestroyPixmap(): a vblank keeps its source pixmap, the pixmap of a
\* destination window goes when the window is unmapped or resized.
DestroyPixmap(b) ==
    /\ Free
    /\ b \in pixmaps \ {Root}
    /\ \A c \in vblanks : c.src # b
    /\ pixmaps' = pixmaps \ {b}
    /\ lorieUnregisterBuffer(b)
    /\ UNCHANGED <<pending, vblanks, scheduling, access, serial, fatal, abandoned, lock, ringVars,
                   surfaceAvailable, alive, sessions, rendererVars>>

-----------------------------------------------------------------------------
\* The X server: CPU access.

\* Mutant: reads of a pixmap never need the lock.
NeedsLockForRoot(b, dest) == b = Root /\ dest

\* lorieNeedsGpuLock() for a pixmap that is not exported to an output.
lorieNeedsGpuLock(b, dest) == (b = Root /\ dest) \/ pending[b] > 0

\* loriePrepareAccess().
PrepareAccess(b, dest) ==
    /\ Free
    /\ b \in pixmaps
    /\ LET locked == lorieNeedsGpuLock(b, dest)
       IN  /\ locked => lock = "free"
           /\ lock' = IF locked THEN "server" ELSE lock
           /\ access' = [buffer |-> b, locked |-> locked]
    /\ UNCHANGED <<pixmaps, pending, registered, vblanks, scheduling, serial, fatal, abandoned,
                   ringVars, surfaceAvailable, linkVars, rendererVars>>

\* lorieFinishAccess() releases what PrepareAccess took.
FinishAccess ==
    /\ access # None
    /\ lock' = IF access.locked THEN "free" ELSE lock
    /\ access' = None
    /\ UNCHANGED <<pixmaps, pending, registered, vblanks, scheduling, serial, fatal, abandoned,
                   ringVars, surfaceAvailable, linkVars, rendererVars>>

\* lorieServerLock(): the timed wait sees the peer gone and ends the server.
LockFails(b, dest) ==
    /\ Free
    /\ b \in pixmaps /\ lorieNeedsGpuLock(b, dest)
    /\ lock = "worker" /\ ~alive
    /\ fatal' = TRUE
    /\ UNCHANGED <<pixmaps, pending, registered, vblanks, scheduling, access, serial, abandoned,
                   lock, ringVars, surfaceAvailable, linkVars, rendererVars>>

-----------------------------------------------------------------------------
\* The renderer's session thread and its host.

\* A new session, of the renderer that detached from the last one or of a new
\* process: the server forgets what was registered, sends the shared state and
\* the screen, and leaves the ring as it is.
Connect ==
    /\ Free
    /\ ~alive /\ ~attached /\ sessions < MaxSessions
    /\ alive' = TRUE
    /\ sessions' = sessions + 1
    /\ registered' = {Root}
    /\ wire' = <<[type |-> "state"], [type |-> "add", buffer |-> Root]>>
    /\ worker' = IF worker = "dead" THEN "check" ELSE worker
    /\ UNCHANGED <<pixmaps, pending, vblanks, scheduling, access, serial, fatal, abandoned, lock,
                   ringVars, surfaceAvailable, hostVars, importVars, copyWaitingForBuffer,
                   connectionFailed, completed, applied>>

\* The socket closes; what was in it is lost.
Disconnect ==
    /\ alive
    /\ alive' = FALSE
    /\ wire' = <<>>
    /\ UNCHANGED <<serverVars, lock, ringVars, surfaceAvailable, sessions, rendererVars>>

\* The worker takes over a change of the shared state, at the head of its loop.
setSharedState(mapped) ==
    /\ worker \in {"check", "waiting"}
    /\ attached' = mapped
    /\ surfaceAvailable' = (mapped /\ hostSurface)
    /\ copyWaitingForBuffer' = FALSE
    /\ connectionFailed' = FALSE

\* disconnect(): the session thread waits until the worker has let go of the
\* shared state, then retires every buffer.
Detach ==
    /\ ~alive /\ attached
    /\ setSharedState(FALSE)
    /\ added' = {} /\ buffers' = {} /\ removed' = removed \cup buffers
    /\ worker' = "release"
    /\ UNCHANGED <<serverVars, lock, ringVars, linkVars, hostSurface, completed, applied>>

\* The renderer process dies, with whatever lock it holds.
Crash ==
    /\ worker # "dead"
    /\ worker' = "dead"
    /\ alive' = FALSE
    /\ wire' = <<>>
    /\ attached' = FALSE /\ hostSurface' = FALSE
    /\ added' = {} /\ buffers' = {} /\ removed' = {}
    /\ copyWaitingForBuffer' = FALSE /\ connectionFailed' = FALSE
    /\ UNCHANGED <<serverVars, lock, ringVars, surfaceAvailable, sessions, completed, applied>>

\* receive() of the shared state.
ReceiveState ==
    /\ wire # <<>> /\ Head(wire).type = "state"
    /\ wire' = Tail(wire)
    /\ setSharedState(TRUE)
    /\ worker' = Woken
    /\ UNCHANGED <<serverVars, lock, ringVars, alive, sessions, hostSurface, importVars,
                   completed, applied>>

\* Mutant: a removed buffer is freed by the session thread.
RemoveNow(b) == added' = added \ {b} /\ buffers' = buffers \ {b} /\ removed' = removed

\* Renderer::removeBuffer(): the worker frees what it may be using.
removeBuffer(b) ==
    /\ added' = added \ {b}
    /\ IF b \notin added /\ b \in buffers
       THEN buffers' = buffers \ {b} /\ removed' = removed \cup {b}
       ELSE UNCHANGED <<buffers, removed>>

\* Renderer::addBuffer().
addBuffer(b) == added' = added \cup {b} /\ UNCHANGED <<buffers, removed>>

\* receive() of a buffer message, applied with stateLock held.
ReceiveBuffer ==
    /\ wire # <<>> /\ Head(wire).type # "state" /\ worker \notin {"sleepy", "dead"}
    /\ wire' = Tail(wire)
    /\ LET m == Head(wire) IN IF m.type = "add" THEN addBuffer(m.buffer) ELSE removeBuffer(m.buffer)
    /\ worker' = Woken
    /\ UNCHANGED <<serverVars, lock, ringVars, surfaceAvailable, alive, sessions, hostVars,
                   copyWaitingForBuffer, connectionFailed, completed, applied>>

\* The worker has taken the last surface change over.
SurfaceSettled == attached => hostSurface = surfaceAvailable

\* Renderer::setOutputSurface() waits for the worker to take the change over.
setOutputSurface ==
    /\ worker \notin {"sleepy", "dead"}
    /\ SurfaceSettled
    /\ hostSurface' = ~hostSurface
    /\ worker' = Woken
    /\ UNCHANGED <<serverVars, attached, lock, ringVars, surfaceAvailable, linkVars, importVars,
                   copyWaitingForBuffer, connectionFailed, completed, applied>>

-----------------------------------------------------------------------------
\* The renderer worker.

shouldWait ==
    /\ added = {} /\ removed = {} /\ SurfaceSettled
    /\ connectionFailed \/ copyWaitingForBuffer \/ ~attached \/ readIndex = writeIndex

\* An output may have a newer frame than the one drawn.
MayDraw == attached /\ ~connectionFailed /\ ~copyWaitingForBuffer /\ surfaceAvailable

\* The worker is about to sleep and still holds stateLock.
DecideToWait ==
    /\ worker = "check" /\ shouldWait
    /\ worker' = "sleepy"
    /\ UNCHANGED <<serverVars, lock, ringVars, surfaceAvailable, linkVars, hostVars, importVars,
                   copyWaitingForBuffer, connectionFailed, completed, applied>>

CondWait ==
    /\ worker = "sleepy"
    /\ worker' = "waiting"
    /\ UNCHANGED <<serverVars, lock, ringVars, surfaceAvailable, linkVars, hostVars, importVars,
                   copyWaitingForBuffer, connectionFailed, completed, applied>>

\* threadLoop() with stateLock held: surfaces and added buffers are taken over.
TakeOver ==
    /\ worker = "check" /\ (~shouldWait \/ MayDraw)
    /\ surfaceAvailable' = IF attached THEN hostSurface ELSE surfaceAvailable
    /\ buffers' = buffers \cup added
    /\ added' = {}
    /\ copyWaitingForBuffer' = (copyWaitingForBuffer /\ added = {})
    /\ worker' = "apply"
    /\ UNCHANGED <<serverVars, lock, ringVars, linkVars, hostVars, removed, connectionFailed,
                   completed, applied>>

\* applyPendingGpuCopies() up to the lock.
SkipCopies ==
    /\ worker = "apply"
    /\ ~attached \/ connectionFailed \/ readIndex = writeIndex
    /\ worker' = "draw"
    /\ UNCHANGED <<serverVars, lock, ringVars, surfaceAvailable, linkVars, hostVars, importVars,
                   copyWaitingForBuffer, connectionFailed, completed, applied>>

LockCopies ==
    /\ worker = "apply"
    /\ attached /\ ~connectionFailed /\ readIndex # writeIndex
    /\ lock = "free"
    /\ lock' = "worker"
    /\ completed' = 0
    /\ worker' = "copy"
    /\ UNCHANGED <<serverVars, ringVars, surfaceAvailable, linkVars, hostVars, importVars,
                   copyWaitingForBuffer, connectionFailed, applied>>

\* lockSharedState(): the server is gone.
LockCopiesFails ==
    /\ worker = "apply"
    /\ attached /\ ~connectionFailed /\ readIndex # writeIndex
    /\ lock # "free" /\ ~alive
    /\ connectionFailed' = TRUE
    /\ worker' = "draw"
    /\ UNCHANGED <<serverVars, lock, ringVars, surfaceAvailable, linkVars, hostVars, importVars,
                   copyWaitingForBuffer, completed, applied>>

\* findBuffer() takes over what was added meanwhile.
Imported(b) == b \in buffers \cup added

FindBuffers(S) ==
    /\ buffers' = buffers \cup (added \cap S)
    /\ added' = added \ S
    /\ removed' = removed

\* The next entry, if the renderer has its buffers, goes to the GPU.
BeginCopy ==
    /\ worker = "copy" /\ readIndex # writeIndex
    /\ Imported(Front.src) /\ Imported(Front.dst)
    /\ FindBuffers({Front.src, Front.dst})
    /\ worker' = "gpu"
    /\ UNCHANGED <<serverVars, lock, ringVars, surfaceAvailable, linkVars, hostVars,
                   copyWaitingForBuffer, connectionFailed, completed, applied>>

\* The entry stays at the front until its buffers are registered.
MissBuffer ==
    /\ worker = "copy" /\ readIndex # writeIndex
    /\ ~(Imported(Front.src) /\ Imported(Front.dst))
    /\ FindBuffers({Front.src, Front.dst})
    /\ copyWaitingForBuffer' = TRUE
    /\ worker' = "finish"
    /\ UNCHANGED <<serverVars, lock, ringVars, surfaceAvailable, linkVars, hostVars,
                   connectionFailed, completed, applied>>

DrainedCopies ==
    /\ worker = "copy" /\ readIndex = writeIndex
    /\ worker' = "finish"
    /\ UNCHANGED <<serverVars, lock, ringVars, surfaceAvailable, linkVars, hostVars, importVars,
                   copyWaitingForBuffer, connectionFailed, completed, applied>>

\* submit() returns when the GPU has finished.
EndCopy ==
    /\ worker = "gpu"
    /\ completed' = Front.serial
    /\ readIndex' = (readIndex + 1) % IndexModulus
    /\ applied' = applied \cup {Front.serial}
    /\ worker' = "copy"
    /\ UNCHANGED <<serverVars, lock, writeIndex, entries, completedSerial, surfaceAvailable,
                   linkVars, hostVars, importVars, copyWaitingForBuffer, connectionFailed>>

\* Mutant: a failed copy is acknowledged with the rest of its batch.
FailCopyAcknowledged ==
    /\ worker = "gpu"
    /\ completed' = Front.serial
    /\ connectionFailed' = TRUE
    /\ alive' = FALSE
    /\ wire' = <<>>
    /\ worker' = "finish"
    /\ UNCHANGED <<serverVars, lock, ringVars, surfaceAvailable, sessions, hostVars, importVars,
                   copyWaitingForBuffer, applied>>

\* The GPU fails: the session ends and the entry stays.
FailCopy ==
    /\ worker = "gpu"
    /\ connectionFailed' = TRUE
    /\ alive' = FALSE
    /\ wire' = <<>>
    /\ worker' = "finish"
    /\ UNCHANGED <<serverVars, lock, ringVars, surfaceAvailable, sessions, hostVars, importVars,
                   copyWaitingForBuffer, completed, applied>>

\* The batch is published and the mutex released.
FinishCopies ==
    /\ worker = "finish"
    /\ completedSerial' = IF completed # 0 THEN completed ELSE completedSerial
    /\ lock' = "free"
    /\ worker' = "draw"
    /\ UNCHANGED <<serverVars, writeIndex, readIndex, entries, surfaceAvailable, linkVars,
                   hostVars, importVars, copyWaitingForBuffer, connectionFailed, completed, applied>>

\* drawOutputs() once the copies are done: nothing to draw, or not now.
SkipDraw ==
    /\ worker = "draw"
    /\ worker' = "release"
    /\ UNCHANGED <<serverVars, lock, ringVars, surfaceAvailable, linkVars, hostVars, importVars,
                   copyWaitingForBuffer, connectionFailed, completed, applied>>

\* An output is drawn under the mutex from the buffers of its layers.
LockDraw ==
    /\ worker = "draw" /\ MayDraw
    /\ lock = "free"
    /\ lock' = "worker"
    /\ worker' = "drawing"
    /\ \E S \in SUBSET added : FindBuffers(S)
    /\ UNCHANGED <<serverVars, ringVars, surfaceAvailable, linkVars, hostVars,
                   copyWaitingForBuffer, connectionFailed, completed, applied>>

EndDraw ==
    /\ worker = "drawing"
    /\ lock' = "free"
    /\ worker' = "release"
    /\ UNCHANGED <<serverVars, ringVars, surfaceAvailable, linkVars, hostVars, importVars,
                   copyWaitingForBuffer, connectionFailed, completed, applied>>

\* A surface or its drawing fails, or the server is gone when the mutex is
\* wanted: the session ends.
FailDraw ==
    /\ MayDraw
    /\ worker = "drawing" \/ worker = "draw"
    /\ lock' = IF worker = "drawing" THEN "free" ELSE lock
    /\ connectionFailed' = TRUE
    /\ alive' = FALSE
    /\ wire' = <<>>
    /\ worker' = "release"
    /\ UNCHANGED <<serverVars, ringVars, surfaceAvailable, sessions, hostVars, importVars,
                   copyWaitingForBuffer, completed, applied>>

\* The end of threadLoop's body: what was retired is freed.
ReleaseRemoved ==
    /\ worker = "release"
    /\ removed' = {}
    /\ worker' = "check"
    /\ UNCHANGED <<serverVars, lock, ringVars, surfaceAvailable, linkVars, hostVars, added,
                   buffers, copyWaitingForBuffer, connectionFailed, completed, applied>>

-----------------------------------------------------------------------------

Worker ==
    \/ DecideToWait \/ CondWait \/ TakeOver \/ SkipCopies \/ LockCopies \/ LockCopiesFails
    \/ BeginCopy \/ MissBuffer \/ DrainedCopies \/ EndCopy \/ FailCopy \/ FinishCopies
    \/ SkipDraw \/ LockDraw \/ EndDraw \/ FailDraw \/ ReleaseRemoved

Next ==
    \/ \E src \in Presented, dst \in Buffers \ Presented : TrySchedule(src, dst)
    \/ PublishCopy
    \/ Recheck
    \/ lorieRedraw
    \/ \E c \in vblanks : Scrap(c)
    \/ \E b \in Buffers : DestroyPixmap(b)
    \/ \E b \in Buffers, dest \in BOOLEAN : PrepareAccess(b, dest) \/ LockFails(b, dest)
    \/ FinishAccess
    \/ Connect
    \/ Disconnect
    \/ Detach
    \/ Crash
    \/ ReceiveState
    \/ ReceiveBuffer
    \/ setOutputSurface
    \/ Worker

Spec == Init /\ [][Next]_vars

(***************************************************************************)
(* The worker runs when it can and is not starved on a mutex the server    *)
(* keeps releasing, the choreographer queues a redraw for every display    *)
(* frame, a CPU access and a scheduled copy are straight code, and the     *)
(* session thread reads its socket.                                        *)
(***************************************************************************)
FairSpec ==
    /\ Spec
    /\ WF_vars(Worker)
    /\ SF_vars(LockCopies)
    /\ SF_vars(lorieRedraw)
    /\ WF_vars(PublishCopy)
    /\ WF_vars(FinishAccess)
    /\ SF_vars(ReceiveState)
    /\ SF_vars(ReceiveBuffer)

-----------------------------------------------------------------------------

\* The unread entries, oldest first.
Unread == [k \in 1..Queued |-> entries[((readIndex + k - 1) % IndexModulus) % Capacity]]

\* InitOutput.c:881-926, renderer.cpp:157-190: the unread entries are the
\* newest scheduled copies, in order and none overwritten, across the wrap of
\* both indices.
RingIsIntact ==
    /\ Queued <= Capacity
    /\ \A k \in 1..Queued : Unread[k] # None /\ Unread[k].serial = serial - Queued + k

\* renderer.cpp:183-217, "ending connection without acknowledging buffer
\* reuse": a serial counts as completed only when the GPU finished it, and
\* everything before it.
CompletedMeansApplied == 1..completedSerial \subseteq applied

\* InitOutput.c:888-913, 939-952, "or the extra buffer references leak
\* forever": a buffer is pinned once for each Present operation that waits for
\* a copy from or to it.
PinsMatchOperations == \A b \in Buffers : pending[b] = Cardinality({c \in vblanks : Uses(c, b)})

\* InitOutput.c:1051, "Whether a CPU access to pPix could race a GPU write":
\* while the GPU executes a copy the server does not access its buffers,
\* unless the copy was acknowledged before it completed (the window went, or
\* the renderer seemed stalled).
AccessRacesOnlyAbandonedCopies ==
    worker = "gpu" /\ access # None /\ Uses(Front, access.buffer) => Front.serial \in abandoned

\* renderer.cpp:149, "Only this worker frees imported buffers, including those
\* concurrently retired": the buffers of the copy on the GPU are imported or
\* retired, never freed.
CopiedBuffersAreHeld == worker = "gpu" => {Front.src, Front.dst} \subseteq buffers \cup removed

\* InitOutput.c:888-952, renderer.cpp:122-149: no buffer of a copy is freed
\* while either side needs it, and none is kept afterwards.
BuffersAreHeld == PinsMatchOperations /\ CopiedBuffersAreHeld

\* The worker holds the mutex no more, but nobody released it.
LockIsAbandoned == lock = "worker" /\ worker \notin {"copy", "gpu", "finish", "drawing"}

FrontIsImported == readIndex # writeIndex /\ Imported(Front.src) /\ Imported(Front.dst)

\* InitOutput.c:380-439, 927, renderer.cpp:222-236: a published copy whose
\* buffers the renderer has is executed although the signal that announced it
\* can be lost, as long as the session and its surface last and the worker is
\* not waiting for a buffer.
PublishedCopyIsExecuted ==
    \A s \in 1..MaxSerial :
        (FrontIsImported /\ Front.serial = s /\ alive)
        ~> \/ s \in applied \/ ~FrontIsImported \/ copyWaitingForBuffer
           \/ ~alive \/ ~surfaceAvailable \/ LockIsAbandoned \/ fatal
=============================================================================
