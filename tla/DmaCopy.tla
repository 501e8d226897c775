------------------------------ MODULE DmaCopy ------------------------------
(***************************************************************************)
(* Copies from a client's DMA-BUF into an AHardwareBuffer with Vulkan      *)
(* (dma_copy.c), as EXA's copy hooks use them (InitOutput.c), on top of    *)
(* the storage of the two pixmaps.                                         *)
(*                                                                         *)
(* A context (Vulkan instance, device, command buffer, fence) is made on   *)
(* first use; each pixmap is imported into it at most once.  A driver may  *)
(* want padding the file does not have: then only the rows that fit are    *)
(* imported and the others, the tail, are staged by the CPU in every copy. *)
(* Positions and sizes are in pixels.                                      *)
(***************************************************************************)
EXTENDS PixmapStorage

CONSTANTS
    Width, Height, Stride, Offset,   \* the client's image
    FileSizes,                       \* st_size of its descriptor
    Paddings,                        \* what the driver wants beyond a buffer's size
    MaxContexts                      \* bound on contexts, one per server generation

ASSUME ImageAssumption ==
    /\ Width \in Nat \ {0} /\ Height \in Nat \ {0} /\ Stride \in Nat /\ Stride >= Width
    /\ Offset \in Nat /\ FileSizes \subseteq Nat /\ Paddings \subseteq Nat
    /\ MaxContexts \in Nat \ {0}

VARIABLES
    contexts,         \* [refs, failed] of each context; no references: freed
    dmaCopy,          \* pvfb->dmaCopy, 0 when there is none
    attempted,        \* pvfb->dmaCopyAttempted
    sources, destinations,   \* what each pixmap was imported as
    copying,          \* the copy, from PrepareCopy to DoneCopy
    inFlight,         \* GPU work that may still be running
    misplaced         \* history: pixels that did not come from where they should

dmaVars == <<contexts, dmaCopy, attempted, sources, destinations, copying, inFlight, misplaced>>
vars == <<storageVars, dmaVars>>

Contexts == 1..MaxContexts
ContextResources == {"library", "instance", "device", "pool", "fence"}
NoCopy == [step |-> "none", src |-> NoPixmap, dst |-> NoPixmap, wasLocked |-> FALSE]
Untried == [state |-> "untried", context |-> 0, rows |-> 0, fits |-> TRUE]
Refused == [Untried EXCEPT !.state = "refused"]
Imported(c, rows, fits) == [state |-> "imported", context |-> c, rows |-> rows, fits |-> fits]

---------------------------------------------------------------------------
(* dma_copy.c *)

\* dmaCopyCreate() up to its first failure; the last one is success.
CreationPoints ==
    {{}, {"library"}, {"library", "instance"}, {"library", "instance", "device"},
     {"library", "instance", "device", "pool"}, ContextResources}

\* dmaCopyRelease() of the last reference gives back whatever was made, in this order
\* of dependence: fence, pool, device, instance, library.
Dismantled(made) == {r \in ContextResources : r \in made}

\* dmaCopyReady().
dmaCopyReady(c) == c # 0 /\ ~contexts[c].failed

\* The buffer an image of so many rows needs.
ImageSize(rows) == Offset + (rows - 1) * Stride + Width

\* dmaCopyImportSource(): how many rows to import from a file, 0 when it is refused.
gpuRows(size, padding) ==
    LET fitting == (size - padding - Offset - Width) \div Stride + 1
    IN IF ImageSize(Height) > size THEN 0
       ELSE IF ImageSize(Height) + padding <= size THEN Height
       ELSE IF padding + Offset + Width >= size \/ fitting >= Height THEN 0
       ELSE fitting

\* createTail().
tailSize(rows) == (Height - rows - 1) * Stride + Width

SourceOwns(rows) == {"srcbuf", "srcmem"}
                    \cup IF rows < Height THEN {"tailbuf", "tailmem", "tailmap"} ELSE {}

\* Where the import can fail once its record exists.
SourcePoints(rows) ==
    {{}, {"srcbuf"}, {"srcbuf", "srcmem"}}
    \cup IF rows < Height
         THEN {{"srcbuf", "tailbuf"}, {"srcbuf", "tailbuf", "tailmem"}, SourceOwns(rows) \ {"srcmem"},
               SourceOwns(rows)}
         ELSE {}

DestinationOwns == {"dstimg", "dstmem", "dsthw"}
DestinationPoints == {{"dsthw"}, {"dsthw", "dstimg"}, DestinationOwns}

\* dmaCopyReleaseSource(), dmaCopyReleaseDestination(): what a record holds.
Freed(holds) == {r \in holds : r \in SourceOwns(1) \cup DestinationOwns \cup {"srcbuf", "srcmem"}}

\* mutant: the tail is addressed from the top of the image.
recordCopyFromTop(rows, sx, sy, x, y, tail, staged) ==
    LET at == (IF tail THEN 0 ELSE Offset) + (sy + y) * Stride + sx + x
    IN IF tail THEN IF staged /\ at \in 0..(tailSize(rows) - 1) THEN Offset + rows * Stride + at ELSE -1
       ELSE IF at \in 0..(ImageSize(rows) - 1) THEN at ELSE -1

\* recordCopy(): the file position of the pixel that lands in column x, row y of the
\* destination's rectangle; -1 for one outside the buffer that is read, or for a tail that
\* was not staged in this copy.
recordCopy(rows, sx, sy, x, y, tail, staged) ==
    LET at == (IF tail THEN 0 ELSE Offset) + (sy - (IF tail THEN rows ELSE 0)) * Stride + sx
              + y * Stride + x
    IN IF tail THEN IF staged /\ at \in 0..(tailSize(rows) - 1) THEN Offset + rows * Stride + at ELSE -1
       ELSE IF at \in 0..(ImageSize(rows) - 1) THEN at ELSE -1

\* dmaCopyRect(): the rows above the first one that was not imported come from the file.
Split(rows, sy, height) ==
    LET fit == IF sy < rows THEN rows - sy ELSE 0
    IN IF fit > height THEN height ELSE fit

Staged(rows, sy, height) == sy + height > rows

Delivered(rows, sx, sy, width, height) ==
    LET gpuHeight == Split(rows, sy, height)
        staged == Staged(rows, sy, height)
    IN {[want |-> Offset + (sy + y) * Stride + sx + x,
         got |-> IF y < gpuHeight THEN recordCopy(rows, sx, sy, x, y, FALSE, staged)
                 ELSE recordCopy(rows, sx, sy + gpuHeight, x, y - gpuHeight, TRUE, staged)] :
        x \in 0..(width - 1), y \in 0..(height - 1)}

---------------------------------------------------------------------------
(* InitOutput.c *)

\* loriePrepareDmaCopy() step by step: the context on first use, then the two imports, each
\* tried once, then the destination's mapping.  A step that fails returns FALSE.
Begin(s, d) ==
    /\ Quiet /\ copying = NoCopy
    /\ s # d /\ Exists(s) /\ Exists(d) /\ ~pix[s].mem /\ ~pix[d].mem
    /\ pix[s].imported /\ pix[s].type = "fd" /\ pix[d].type = "hw"
    /\ copying' = [step |-> "context", src |-> s, dst |-> d, wasLocked |-> FALSE]
    /\ UNCHANGED <<storageVars, contexts, dmaCopy, attempted, sources, destinations, inFlight, misplaced>>

Goto(step) == copying' = [copying EXCEPT !.step = step]
Return == copying' = NoCopy

MakeContext ==
    /\ copying.step = "context"
    /\ IF attempted
       THEN /\ IF dmaCopyReady(dmaCopy) THEN Goto("source") ELSE Return
            /\ UNCHANGED <<live, dmaCopy, contexts, attempted>>
       ELSE /\ attempted' = TRUE
            /\ \E made \in CreationPoints, c \in Contexts :
                  /\ contexts[c].refs = 0 /\ \A e \in 1..(c - 1) : contexts[e].refs > 0
                  /\ IF made = ContextResources
                     THEN /\ Trade(made, {}) /\ Goto("source") /\ dmaCopy' = c
                          /\ contexts' = [contexts EXCEPT ![c] = [refs |-> 1, failed |-> FALSE]]
                     ELSE /\ Trade(made, Dismantled(made)) /\ Return
                          /\ UNCHANGED <<dmaCopy, contexts>>
    /\ UNCHANGED <<legacy, pix, peer, screen, root, dead, sources, destinations, inFlight, misplaced>>

\* An import of p: refused before it holds anything, undone half way, or done.
Import(table, table2, p, points, owns, import, next) ==
    \/ /\ table2 = [table EXCEPT ![p] = Refused] /\ Return
       /\ \E holds \in {{}} \cup points : Trade(holds, Freed(holds))
       /\ UNCHANGED contexts
    \/ /\ table2 = [table EXCEPT ![p] = import] /\ Goto(next)
       /\ Trade(owns, {})
       /\ contexts' = [contexts EXCEPT ![dmaCopy].refs = @ + 1]

ImportSource(size, padding) ==
    /\ copying.step = "source"
    /\ LET s == copying.src
           rows == IF pix[s].dma THEN gpuRows(size, padding) ELSE 0
       IN IF sources[s].state # "untried"
          THEN /\ IF sources[s].state = "imported" THEN Goto("destination") ELSE Return
               /\ UNCHANGED <<live, contexts, sources>>
          ELSE IF rows = 0
          THEN sources' = [sources EXCEPT ![s] = Refused] /\ Return /\ UNCHANGED <<live, contexts>>
          ELSE Import(sources, sources', s, SourcePoints(rows), SourceOwns(rows),
                      Imported(dmaCopy, rows, ImageSize(rows) + padding <= size), "destination")
    /\ UNCHANGED <<legacy, pix, peer, screen, root, dead, dmaCopy, attempted, destinations, inFlight, misplaced>>

ImportDestination ==
    /\ copying.step = "destination"
    /\ LET d == copying.dst
       IN IF destinations[d].state # "untried"
          THEN /\ IF destinations[d].state = "imported" THEN Goto("map") ELSE Return
               /\ UNCHANGED <<live, contexts, destinations>>
          ELSE Import(destinations, destinations', d, DestinationPoints, DestinationOwns,
                      Imported(dmaCopy, 0, TRUE), "map")
    /\ UNCHANGED <<legacy, pix, peer, screen, root, dead, dmaCopy, attempted, sources, inFlight, misplaced>>

\* mutant: the destination stays mapped.
KeepMapping ==
    /\ copying.step = "map"
    /\ copying' = [copying EXCEPT !.step = "copy"]
    /\ UNCHANGED <<storageVars, contexts, dmaCopy, attempted, sources, destinations, inFlight, misplaced>>

\* The CPU lets go of the destination.
LetGo ==
    /\ copying.step = "map"
    /\ LET d == copying.dst
       IN /\ copying' = [copying EXCEPT !.step = "copy", !.wasLocked = pix[d].ptr # "none"]
          /\ IF pix[d].ptr = "none" THEN UNCHANGED pix
             ELSE \E u \in Unlock(pix[d]) : Put(d, [u EXCEPT !.ptr = "none"])
    /\ UNCHANGED <<legacy, live, peer, screen, root, dead, contexts, dmaCopy, attempted, sources,
                   destinations, inFlight, misplaced>>

\* lorieDmaCopy(), dmaCopyRect(): done; or failed and known to be idle, and then misplaced by
\* the CPU; or perhaps still running, which ends the server.
lorieDmaCopy(sx, sy, width, height) ==
    /\ ~dead /\ copying.step = "copy"
    /\ sx + width <= Width /\ sy + height <= Height
    /\ LET src == sources[copying.src]
           dst == destinations[copying.dst]
           valid == src.context = dst.context /\ dmaCopyReady(src.context)
           fallback ==
              \E l \in Lock([pix[copying.dst] EXCEPT !.ptr = "none"]) :
                 IF ~l.held THEN dead' = TRUE /\ UNCHANGED <<pix, misplaced>>
                 ELSE /\ \E u \in Unlock(l) : Put(copying.dst, [u EXCEPT !.ptr = pix[copying.dst].ptr])
                      /\ UNCHANGED <<misplaced, dead>>
       IN \/ /\ valid /\ misplaced' = misplaced \cup
                {m \in Delivered(src.rows, sx, sy, width, height) : m.got # m.want}
             /\ UNCHANGED <<pix, contexts, inFlight, dead>>
          \/ /\ valid /\ contexts' = [contexts EXCEPT ![src.context].failed = TRUE]
             /\ \/ fallback /\ inFlight' = FALSE             \* idle, or the device is lost
                \/ inFlight' = TRUE /\ dead' = TRUE /\ UNCHANGED <<pix, misplaced>>
          \/ ~valid /\ fallback /\ UNCHANGED <<contexts, inFlight>>
    /\ UNCHANGED <<legacy, live, peer, screen, root, dmaCopy, attempted, sources, destinations, copying>>

\* lorieDoneDmaCopy().
lorieDoneDmaCopy ==
    /\ ~dead /\ copying.step = "copy"
    /\ IF ~copying.wasLocked THEN UNCHANGED <<pix, dead>>
       ELSE \E l \in Lock(pix[copying.dst]) :
               IF l.held THEN Put(copying.dst, l) /\ UNCHANGED dead ELSE dead' = TRUE /\ UNCHANGED pix
    /\ copying' = NoCopy
    /\ UNCHANGED <<legacy, live, peer, screen, root, contexts, dmaCopy, attempted, sources,
                   destinations, inFlight, misplaced>>

\* lorieExaDestroyPixmap(): what a pixmap holds, its imports and its buffer.
Holdings(p) == Owned(pix[p].type)
               \cup (IF sources[p].state = "imported" THEN SourceOwns(sources[p].rows) ELSE {})
               \cup (IF destinations[p].state = "imported" THEN DestinationOwns ELSE {})

\* A pixmap is destroyed; extra is a context that loses the server's reference too.  The
\* last reference to a context dismantles it.
Discard(p, extra, gain) ==
    LET used == {sources[p].context, destinations[p].context}
        left == [c \in Contexts |-> contexts[c].refs - (IF c \in used THEN 1 ELSE 0)
                                                     - (IF c = extra THEN 1 ELSE 0)]
        last == \E c \in Contexts : contexts[c].refs > 0 /\ left[c] = 0
    IN /\ contexts' = [c \in Contexts |-> [contexts[c] EXCEPT !.refs = left[c]]]
       /\ Trade(gain, Holdings(p) \cup IF last THEN Dismantled(ContextResources) ELSE {})
       /\ sources' = [sources EXCEPT ![p] = Untried]
       /\ destinations' = [destinations EXCEPT ![p] = Untried]

lorieExaDestroyPixmap(p) ==
    /\ Quiet /\ copying = NoCopy /\ Exists(p) /\ p \notin {screen, root}
    /\ Put(p, NoPixmap) /\ Discard(p, 0, {})
    /\ UNCHANGED <<legacy, peer, screen, root, dead, dmaCopy, attempted, copying, inFlight, misplaced>>

lorieRRScreenSetSize(p) ==
    /\ Quiet /\ copying = NoCopy /\ screen # NoPixmap /\ root = screen /\ ~Exists(p)
    /\ pix' \in Resized(p)
    /\ Discard(screen, 0, Owned(SharedType))
    /\ screen' = p /\ root' = p
    /\ UNCHANGED <<legacy, peer, dead, dmaCopy, attempted, copying, inFlight, misplaced>>

\* lorieCloseScreen(): the screen pixmap goes, then the server's reference to the context.
lorieCloseScreen ==
    /\ Quiet /\ copying = NoCopy /\ screen # NoPixmap /\ root = screen
    /\ Put(screen, NoPixmap) /\ Discard(screen, dmaCopy, {})
    /\ screen' = NoPixmap /\ root' = NoPixmap
    /\ dmaCopy' = 0 /\ attempted' = FALSE
    /\ UNCHANGED <<legacy, peer, dead, copying, inFlight, misplaced>>

---------------------------------------------------------------------------
Init ==
    /\ StorageInit
    /\ live = [r \in BufferResources \cup ContextResources \cup SourceOwns(0) \cup DestinationOwns |-> 0]
    /\ contexts = [c \in Contexts |-> [refs |-> 0, failed |-> FALSE]]
    /\ dmaCopy = 0 /\ attempted = FALSE
    /\ sources = [p \in Pixmaps |-> Untried] /\ destinations = [p \in Pixmaps |-> Untried]
    /\ copying = NoCopy /\ inFlight = FALSE /\ misplaced = {}

Next ==
    \/ StorageNext /\ copying = NoCopy /\ UNCHANGED dmaVars
    \/ \E s, d \in Pixmaps : Begin(s, d)
    \/ MakeContext
    \/ \E size \in FileSizes, padding \in Paddings : ImportSource(size, padding)
    \/ ImportDestination
    \/ LetGo
    \/ \E sx \in 0..(Width - 1), sy \in 0..(Height - 1), width \in 1..Width, height \in 1..Height :
          lorieDmaCopy(sx, sy, width, height)
    \/ lorieDoneDmaCopy
    \/ \E p \in Pixmaps : lorieExaDestroyPixmap(p) \/ lorieRRScreenSetSize(p)
    \/ lorieCloseScreen

Spec == Init /\ [][Next]_vars

---------------------------------------------------------------------------
(* Properties *)

\* How many owners a resource has: buffers on both sides of the socket, contexts, imports.
Owners(r) ==
    Cardinality({p \in Pixmaps : Exists(p) /\ r \in Holdings(p)})
    + (IF r \in Owned(peer) THEN 1 ELSE 0)
    + Cardinality({c \in Contexts : contexts[c].refs > 0 /\ r \in ContextResources})

\* Heap blocks, descriptors, mappings, AHardwareBuffer references and Vulkan objects have
\* one owner each, whichever system call failed; a context lives as long as the server or
\* an import refers to it.
ResourcesAreOwned ==
    /\ \A r \in DOMAIN live : live[r] = Owners(r)
    /\ \A c \in Contexts :
          contexts[c].refs = Cardinality({p \in Pixmaps : sources[p].context = c})
                             + Cardinality({p \in Pixmaps : destinations[p].context = c})
                             + (IF dmaCopy = c THEN 1 ELSE 0)

\* Every pixel a copy delivers is the one that was asked for, read from inside the buffer
\* it is read from, and no import reaches beyond the client's file, padding included.
CopyIsExact ==
    /\ misplaced = {}
    /\ \A p \in Pixmaps : sources[p].fits

\* "Release CPU ownership while Vulkan writes": the destination is unmapped from the time
\* the CPU lets go until the copy is done, and the CPU fallback never runs while GPU work
\* may be in flight: then the server has ended.
CpuStaysAway ==
    /\ copying.step = "copy" => /\ pix[copying.dst].ptr = "none"
                                /\ ~pix[copying.dst].held
    /\ inFlight => dead

\* dma_copy.c:422-502, InitOutput.c:1131-1164: a copy by Vulkan delivers what
\* was asked for, alone.
CopiesAreSound == CopyIsExact /\ CpuStaysAway

=============================================================================
