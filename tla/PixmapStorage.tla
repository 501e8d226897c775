--------------------------- MODULE PixmapStorage ---------------------------
(***************************************************************************)
(* The storage behind pixmaps: LorieBuffers (buffer.c) and the EXA, DRI3   *)
(* and Present hooks of InitOutput.c that create, map, convert, export,    *)
(* flip and destroy them, on the X server thread; and the buffers the      *)
(* renderer receives over the socket.                                      *)
(*                                                                         *)
(* Every call may fail at every system call it makes.  An action is one    *)
(* whole call, error path included; what it holds where it fails and what  *)
(* the error path gives back are separate operators.                       *)
(*                                                                         *)
(* Reference counts above one belong to GPU copies (module GpuCopy).  A    *)
(* REGULAR buffer is never in a copy nor shown by the renderer, so the     *)
(* guards of LorieBuffer_makeDmaBuf about them hold.                       *)
(***************************************************************************)
EXTENDS Integers, FiniteSets

CONSTANTS
    Pixmaps,
    NoPixmap

\* Memory holds finitely many pixmaps.
ASSUME PixmapsAssumption == NoPixmap \notin Pixmaps /\ IsFiniteSet(Pixmaps)

VARIABLES
    legacy,           \* root.legacyDrawing: no AHardwareBuffers
    pix,              \* LoriePixmapPriv with its LorieBuffer and the pixmap's pitch
    live,             \* resources the processes hold, by kind
    peer,             \* a buffer the renderer received: its type
    screen,           \* the screen pixmap
    root,             \* the root window's pixmap; a flipped one, or the screen's
    dead              \* FatalError

storageVars == <<legacy, pix, live, peer, screen, root, dead>>

Types == {"none", "regular", "fd", "hw"}

\* The states of a pixmap and its buffer.
Buffers == [type : Types, dma : BOOLEAN, stride : {"tight", "aligned"}, pitch : {"tight", "aligned"},
            held : BOOLEAN, sync : BOOLEAN, ptr : Types, lost : BOOLEAN, mem : BOOLEAN,
            imported : BOOLEAN, access : BOOLEAN, wasLocked : BOOLEAN]

ASSUME BuffersAssumption == NoPixmap \notin Buffers

BufferResources == {"heap", "fd", "map", "hw"}

\* A pixmap without a buffer.  ptr is priv->locked (the storage it points into),
\* held is buffer->locked, sync an open DMA_BUF_SYNC_START, lost that an unlock failed.
Empty == [type |-> "none", dma |-> FALSE, stride |-> "tight", pitch |-> "tight",
          held |-> FALSE, sync |-> FALSE, ptr |-> "none", lost |-> FALSE, mem |-> FALSE,
          imported |-> FALSE, access |-> FALSE, wasLocked |-> FALSE]

Exists(p) == pix[p] # NoPixmap
Quiet == ~dead /\ \A p \in Pixmaps : Exists(p) => ~pix[p].access

---------------------------------------------------------------------------
(* buffer.c *)

\* What a LorieBuffer of a type owns, and so what __LorieBuffer_free() gives back.
Owned(type) == CASE type = "regular" -> {"heap"}
                 [] type = "fd" -> {"fd", "map"}
                 [] type = "hw" -> {"hw"}
                 [] OTHER -> {}

\* live after some resources were acquired and others given back.
Trade(gain, lose) ==
    live' = [r \in DOMAIN live |->
                live[r] + (IF r \in gain THEN 1 ELSE 0) - (IF r \in lose THEN 1 ELSE 0)]

\* LorieBuffer_createRegion(): ASharedMemory, then memfd, then ashmem; an attempt
\* that fails half way closes its descriptor.
createRegion == {{}, {"fd"}}

\* Where allocate() can fail: what it holds when it jumps to fail.  handed is what the
\* caller gave it to own (takeFd, buf).
FailurePoints(type, handed) ==
    CASE type = "regular" -> {{}, {"heap"}}
      [] type = "fd" -> {handed, {"fd"}, {"fd", "map"}}
      [] type = "hw" -> {handed}

\* mutant: the error path forgets the mapping.
UndoButMapping(type, holds) == {r \in holds : r \in {"fd", "hw"} \/ type = "regular"}

\* allocate(), label fail.
Undo(type, holds) == {r \in holds : r \in {"map", "fd", "hw"} \/ type = "regular"}

\* allocate(): what is left held, and whether a buffer was returned.
allocate(type, handed) ==
    {[ok |-> TRUE, left |-> Owned(type)]}
    \cup {[ok |-> FALSE, left |-> holds \ Undo(type, holds)] : holds \in FailurePoints(type, handed)}

Failed == [ok |-> FALSE, left |-> {}]

\* LorieBuffer_allocate(): without a region there is no call; without an AHardwareBuffer
\* allocate() fails with nothing to give back.
LorieBuffer_allocate(type) ==
    CASE type = "regular" -> allocate(type, {})
      [] type = "fd" -> UNION {IF region = {} THEN {Failed} ELSE allocate(type, region) :
                               region \in createRegion}
      [] type = "hw" -> {Failed} \cup allocate(type, {"hw"})

\* LorieBuffer_lock(): the outcomes, with the pointer in ptr.
Lock(b) ==
    IF b.held THEN {[b EXCEPT !.ptr = b.type]}
    ELSE {[b EXCEPT !.held = TRUE, !.sync = b.dma, !.ptr = b.type]}
         \cup (IF b.dma \/ b.type = "hw" THEN {[b EXCEPT !.ptr = "none"]} ELSE {})

\* mutant: unlocking a DMA-BUF does not end the CPU access.
UnlockWithoutEnd(b) == {[b EXCEPT !.held = FALSE]}

\* LorieBuffer_unlock() leaves the pointer of the caller alone.  It clears the lock even
\* when the kernel refuses.
Unlock(b) ==
    IF ~b.held THEN {b}
    ELSE {[b EXCEPT !.held = FALSE, !.sync = FALSE]}
         \cup (IF b.dma \/ b.type = "hw" THEN {[b EXCEPT !.held = FALSE, !.lost = TRUE]} ELSE {})

\* LorieBuffer_makeDmaBuf(): the buffer after it, and what was traded.
makeDmaBuf(b) ==
    {[ok |-> b.dma, buffer |-> b, gain |-> {}, lose |-> {}]}
    \cup IF b.type # "regular" \/ b.held THEN {}
         ELSE {[ok |-> TRUE, gain |-> {"fd", "map"}, lose |-> {"heap"},
                buffer |-> [b EXCEPT !.type = "fd", !.dma = TRUE, !.stride = "aligned"]]}

\* LorieBuffer_convert(): it succeeds whole, or changes nothing.
convert(b, type) ==
    {[buffer |-> b, gain |-> {}, lose |-> {}]}
    \cup IF b.type # "regular" THEN {}
         ELSE {[buffer |-> [b EXCEPT !.type = type, !.held = FALSE,
                                     !.stride = IF type = "hw" THEN "aligned" ELSE b.stride],
                gain |-> Owned(type), lose |-> Owned("regular")]}

\* ancil_recv_fd() with n descriptors in the message: those it leaves open.
ancil_recv_fd(n, whole) == IF n = 1 /\ whole THEN {"fd"} ELSE {}

\* LorieBuffer_recvHandleFromUnixSocket(): metadata that is refused leaves the message
\* unread; an AHardwareBuffer that does not match its metadata is released.
received(type) ==
    {Failed} \cup
    IF type = "fd"
    THEN UNION {IF fd = {} THEN {Failed} ELSE allocate("fd", fd) :
                fd \in {ancil_recv_fd(n, whole) : n \in 0..2, whole \in BOOLEAN}}
    ELSE allocate("hw", {"hw"})

---------------------------------------------------------------------------
(* EXA *)

Put(p, b) == pix' = [pix EXCEPT ![p] = b]

\* The type of a pixmap that is meant to be shared with the renderer.
SharedType == IF legacy THEN "fd" ELSE "hw"

New(type) == [Empty EXCEPT !.type = type,
                           !.stride = IF type = "hw" THEN "aligned" ELSE "tight",
                           !.pitch = IF type = "hw" THEN "aligned" ELSE "tight"]

\* lorieCreatePixmap(): a pixmap of no size has no buffer; the others are mapped at once.
lorieCreatePixmap(p, type) ==
    /\ Quiet /\ ~Exists(p)
    /\ \/ /\ Put(p, Empty) /\ UNCHANGED live
       \/ \E a \in LorieBuffer_allocate(type) :
             /\ Trade(a.left, {})
             /\ IF a.ok THEN \E b \in Lock(New(type)) : Put(p, b) ELSE UNCHANGED pix
    /\ UNCHANGED <<legacy, peer, screen, root, dead>>

\* lorieModifyPixmapHeader() with data: the X server gives memory of its own (MIT-SHM,
\* scratch headers) to pixmaps it created without a size.
lorieModifyPixmapHeader(p) ==
    /\ Quiet /\ Exists(p) /\ pix[p].type = "none"
    /\ Put(p, [pix[p] EXCEPT !.mem = TRUE])
    /\ UNCHANGED <<legacy, live, peer, screen, root, dead>>

\* loriePrepareAccess(), its mapping half; the pixel mutex is in GpuCopy.
loriePrepareAccess(p) ==
    /\ Quiet /\ Exists(p)
    /\ LET b == pix[p]
       IN IF b.ptr = "none" /\ ~b.mem
          THEN /\ b.type # "none"
               /\ \E c \in Lock(b) :
                     Put(p, IF b.held \/ ~c.held THEN c
                            ELSE [c EXCEPT !.access = TRUE, !.wasLocked = FALSE])
          ELSE Put(p, [b EXCEPT !.access = TRUE, !.wasLocked = TRUE])
    /\ UNCHANGED <<legacy, live, peer, screen, root, dead>>

\* lorieFinishAccess().  wasLocked is read only here, so it is cleared here.
lorieFinishAccess(p) ==
    /\ ~dead /\ Exists(p) /\ pix[p].access
    /\ IF pix[p].wasLocked THEN Put(p, [pix[p] EXCEPT !.access = FALSE, !.wasLocked = FALSE])
       ELSE \E b \in Unlock(pix[p]) : Put(p, [b EXCEPT !.ptr = "none", !.access = FALSE])
    /\ UNCHANGED <<legacy, live, peer, screen, root, dead>>

---------------------------------------------------------------------------
(* Sharing with the renderer and with clients *)

\* Unlock and lock again, keeping a pointer that follows the mapping.  A buffer that
\* cannot be locked again ends the server.
Remap(p, b) ==
    \E u \in Unlock(b) : \E c \in Lock(u) : Put(p, c) /\ dead' = ~c.held

\* mutant: the pixmap keeps its pointer across the conversion.
SampleableInPlace(b, type) ==
    {[c EXCEPT !.buffer.pitch = c.buffer.stride] : c \in convert(b, type)}

\* lorieEnsureGpuSampleable(): a converted buffer has a new pitch and a new mapping.
Sampleable(b, type) ==
    UNION {IF c.buffer.type = "regular" \/ b.type # "regular" THEN {c}
           ELSE {[c EXCEPT !.buffer = [l EXCEPT !.pitch = l.stride]] : l \in Lock(c.buffer)} :
           c \in convert(b, type)}

\* lorieExportPixmap(): what a window output shows.  That it is exported only matters to the
\* pixel mutex.
lorieExportPixmap(p) ==
    /\ Quiet /\ Exists(p) /\ pix[p].type # "none"
    /\ \E c \in IF pix[p].dma \/ pix[p].mem THEN {[buffer |-> pix[p], gain |-> {}, lose |-> {}]}
                ELSE Sampleable(pix[p], SharedType) :
          LET b == c.buffer
              shown == b.dma \/ (b.type = SharedType /\ ~b.mem)
          IN /\ Trade(c.gain, c.lose)
             /\ IF shown /\ b.ptr # "none" THEN Remap(p, b) ELSE Put(p, b) /\ UNCHANGED dead
    /\ UNCHANGED <<legacy, peer, screen, root>>

\* lorieSetWindowPixmap() of the root window: the old pixmap is unmapped, the new one
\* mapped, for as long as it is the root's.
lorieSetWindowPixmap(old, new, buffers) ==
    {[buffers EXCEPT ![old] = u, ![new] = n] :
        u \in IF buffers[old].type = "none" \/ buffers[old].ptr = "none" THEN {buffers[old]}
              ELSE {[b EXCEPT !.ptr = "none"] : b \in Unlock(buffers[old])},
        n \in IF buffers[new].type = "none" \/ buffers[new].ptr # "none" THEN {buffers[new]}
              ELSE Lock(buffers[new])}

\* loriePresentFlip() and the flip: the pixmap becomes the root's.
loriePresentFlip(p, forced) ==
    /\ Quiet /\ Exists(p) /\ screen # NoPixmap /\ root = screen /\ p # screen
    /\ pix[p].type # "none" /\ ~pix[p].mem
    /\ ~(pix[p].type = "fd" /\ pix[p].imported /\ ~forced)
    /\ \E c \in Sampleable(pix[p], SharedType) :
          /\ Trade(c.gain, c.lose)
          /\ IF c.buffer.type \in {"fd", "hw"}
             THEN /\ pix' \in lorieSetWindowPixmap(root, p, [pix EXCEPT ![p] = c.buffer])
                  /\ root' = p
             ELSE Put(p, c.buffer) /\ UNCHANGED root
    /\ UNCHANGED <<legacy, peer, screen, dead>>

\* loriePresentUnflip(), present_restore_screen_pixmap().
Unflip ==
    /\ Quiet /\ root # screen
    /\ pix' \in lorieSetWindowPixmap(root, screen, pix) /\ root' = screen
    /\ UNCHANGED <<legacy, live, peer, screen, dead>>

\* lorieCreateScreenResources().
lorieCreateScreenResources(p) ==
    /\ Quiet /\ screen = NoPixmap /\ ~Exists(p)
    /\ \E b \in Lock(New(SharedType)) : Put(p, b)
    /\ Trade(Owned(SharedType), {})
    /\ screen' = p /\ root' = p
    /\ UNCHANGED <<legacy, peer, dead>>

\* lorieRRScreenSetSize(), its pixmaps: the screen gets a new one, the root window follows,
\* the old one goes.  A flip is undone first, as by Unflip.
Resized(p) ==
    {[after EXCEPT ![screen] = NoPixmap] :
        after \in UNION {lorieSetWindowPixmap(screen, p, [pix EXCEPT ![p] = b]) :
                         b \in Lock(New(SharedType))}}

\* lorieRedraw(), its mapping half: damage makes it map the root's pixmap again.
Redraw ==
    /\ Quiet /\ root # NoPixmap /\ pix[root].type # "none" /\ pix[root].ptr # "none"
    /\ Remap(root, pix[root])
    /\ UNCHANGED <<legacy, live, peer, screen, root>>

\* loriePixmapFromFds() with one of the linear modifiers: the client's descriptor is
\* duplicated; it may be a DMA-BUF or not.
ImportLinear(p, stride, dma) ==
    /\ Quiet /\ ~Exists(p)
    /\ \E a \in allocate("fd", {}) :
          /\ Trade(a.left, {})
          /\ IF a.ok THEN Put(p, [New("fd") EXCEPT !.dma = dma, !.imported = TRUE,
                                                   !.stride = stride, !.pitch = stride])
             ELSE UNCHANGED pix
    /\ UNCHANGED <<legacy, peer, screen, root, dead>>

\* loriePixmapFromFds() with an AHardwareBuffer's socket: a buffer of another size is
\* destroyed with its pixmap.
ImportHardware(p, fits) ==
    /\ Quiet /\ ~Exists(p)
    /\ \E a \in {Failed} \cup allocate("hw", {"hw"}) :
          IF a.ok /\ ~fits THEN Trade(a.left, Owned("hw")) /\ UNCHANGED pix
          ELSE /\ Trade(a.left, {})
               /\ IF a.ok THEN Put(p, [New("hw") EXCEPT !.imported = TRUE]) ELSE UNCHANGED pix
    /\ UNCHANGED <<legacy, peer, screen, root, dead>>

\* lorieFdsFromPixmap() and lorieFdFromPixmap().  What the caller gets is a duplicate, its
\* own; one that DRI3 1.0 cannot describe is closed again.
lorieFdsFromPixmap(p) ==
    /\ Quiet /\ Exists(p) /\ pix[p].type # "none" /\ ~pix[p].mem
    /\ \E u \in IF pix[p].ptr = "none" THEN {pix[p]} ELSE Unlock(pix[p]) :
          IF u.lost /\ ~pix[p].lost
          THEN Put(p, u) /\ UNCHANGED <<live, dead>>
          ELSE \E d \in makeDmaBuf([u EXCEPT !.ptr = "none"]) :
                IF ~d.ok
                THEN /\ IF pix[p].ptr = "none" THEN Put(p, d.buffer) /\ UNCHANGED dead
                        ELSE \E l \in Lock(d.buffer) : Put(p, l) /\ dead' = ~l.held
                     /\ UNCHANGED live
                ELSE /\ Put(p, [d.buffer EXCEPT !.pitch = d.buffer.stride])
                     /\ Trade(d.gain, d.lose)
                     /\ UNCHANGED dead
    /\ UNCHANGED <<legacy, peer, screen, root>>

\* LorieBuffer_sendHandleToUnixSocket() and the renderer's receipt.
SendBuffer(p) ==
    /\ ~dead /\ Exists(p) /\ pix[p].type \in {"fd", "hw"} /\ peer = "none"
    /\ \E a \in received(pix[p].type) :
          /\ Trade(a.left, {})
          /\ peer' = IF a.ok THEN pix[p].type ELSE peer
    /\ UNCHANGED <<legacy, pix, screen, root, dead>>

\* The renderer drops its last reference.
PeerReleases ==
    /\ peer # "none" /\ peer' = "none"
    /\ Trade({}, Owned(peer))
    /\ UNCHANGED <<legacy, pix, screen, root, dead>>

---------------------------------------------------------------------------
StorageInit ==
    /\ legacy \in BOOLEAN
    /\ pix = [p \in Pixmaps |-> NoPixmap]
    /\ peer = "none"
    /\ screen = NoPixmap /\ root = NoPixmap
    /\ dead = FALSE

StorageNext ==
    \/ \E p \in Pixmaps :
          \/ \E type \in {"regular", SharedType} : lorieCreatePixmap(p, type)
          \/ lorieModifyPixmapHeader(p)
          \/ loriePrepareAccess(p) \/ lorieFinishAccess(p)
          \/ lorieExportPixmap(p)
          \/ \E forced \in BOOLEAN : loriePresentFlip(p, forced)
          \/ lorieCreateScreenResources(p)
          \/ \E stride \in {"tight", "aligned"}, dma \in BOOLEAN : ImportLinear(p, stride, dma)
          \/ \E fits \in BOOLEAN : ImportHardware(p, fits)
          \/ lorieFdsFromPixmap(p)
          \/ SendBuffer(p)
    \/ Unflip \/ Redraw \/ PeerReleases

---------------------------------------------------------------------------
(* Properties *)

\* The pointer a pixmap keeps is into the storage its buffer has now, the buffer counts
\* as locked, and the pixmap's pitch is the buffer's, through every conversion, export,
\* flip and failure (unless the kernel refused to end an earlier mapping).
MappingIsCurrent ==
    \A p \in Pixmaps : Exists(p) /\ pix[p].type # "none" /\ ~pix[p].mem /\ ~pix[p].lost =>
        /\ pix[p].ptr # "none" => pix[p].held /\ pix[p].ptr = pix[p].type
        /\ pix[p].held => pix[p].ptr # "none"
        /\ pix[p].pitch = pix[p].stride

\* CPU access to a DMA-BUF is bracketed: a START is open exactly while the buffer is
\* locked, and always during an access.
DmaAccessIsBracketed ==
    \A p \in Pixmaps : Exists(p) /\ pix[p].dma /\ ~pix[p].lost =>
        /\ pix[p].sync = pix[p].held
        /\ pix[p].access /\ ~pix[p].mem => pix[p].sync

\* buffer.c:379-436, InitOutput.c:125-157, 1061-1094, 1250-1296: what the CPU
\* uses is there and announced to the kernel, whatever failed before.
CpuAccessIsSound == MappingIsCurrent /\ DmaAccessIsBracketed

=============================================================================
