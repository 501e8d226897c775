---------------------------- MODULE RedrawEvents ----------------------------
(***************************************************************************)
(* What a redraw tells the host besides frames: the catalog of docks and   *)
(* desktops (lorie/window_shell.c), the pointer image (cursor.c), and what *)
(* it tells Present clients (the vblank queue of InitOutput.c).            *)
(*                                                                         *)
(* A shell window's role, geometry, strut and input shape are one `look';  *)
(* every hook of window_model.c that sees one change marks the catalog.    *)
(* Pixels of pointer images are not modelled.  Allocation does not fail.   *)
(***************************************************************************)
EXTENDS Integers, FiniteSetsExt

CONSTANTS
    Hosts,          \* ids that ask to own the shell
    NoHost,
    ShellWindows,   \* XIDs of candidate shell windows
    ShellLimit,     \* 32 records
    Pointers,       \* <<output, window>> pairs the pointer can be on
    NoPointer,
    Vblanks,        \* Present event ids
    MaxMsc,         \* bound: the latest frame a client waits for
    MaxFlips        \* bound: page flips

ASSUME RedrawAssumption ==
    /\ NoHost \notin Hosts /\ NoPointer \notin Pointers
    /\ IsFiniteSet(ShellWindows)
    /\ ShellLimit \in Nat \ {0} /\ MaxMsc \in Nat /\ MaxFlips \in Nat

VARIABLES
    online,         \* a renderer is connected
    foreign,        \* a guest window manager runs
    shellOwner, shellDirty,
    shellRecords,   \* the catalog: window to what was last sent
    desk,           \* shell windows as they are
    hostCatalog,    \* the catalog as the owner received it
    crowded,        \* history: the last refresh found the catalog full
    cursorAt, cursorKind, cursorPending,
    hostCursor,     \* the last cursor event
    msc, vblankQueue,
    fired,          \* history: id to the frame wanted and the one it was notified at
    flips

shellVars == <<foreign, shellOwner, shellDirty, shellRecords, desk, hostCatalog, crowded>>
cursorVars == <<cursorAt, cursorKind, cursorPending, hostCursor>>
vblankVars == <<msc, vblankQueue, fired, flips>>
redrawVars == <<online, shellVars, cursorVars, vblankVars>>

Absent == [mapped |-> FALSE, look |-> 0]

\* A window that has no shell role is Absent, so is one that does not exist.
Looks == {Absent} \cup [mapped : BOOLEAN, look : {1, 2}]

Catalogued(records) == {w \in ShellWindows : records[w] # Absent}

NoRecords == [w \in ShellWindows |-> Absent]

-----------------------------------------------------------------------------

\* lorieShellReset() together with the state event that tells the owner, who
\* then forgets the catalog.
Dropped ==
    /\ shellOwner' = NoHost /\ shellDirty' = FALSE
    /\ shellRecords' = NoRecords /\ hostCatalog' = NoRecords /\ crowded' = FALSE

\* lorieShellConfigure(): only the owner or, if there is none, anyone is
\* heard; a withdrawal, an impossible size and a guest manager end ownership.
lorieShellConfigure(id, valid) ==
    /\ shellOwner \in {NoHost, id}
    /\ IF valid /\ ~foreign
       THEN /\ shellOwner' = id /\ shellDirty' = TRUE
            /\ UNCHANGED <<shellRecords, hostCatalog, crowded>>
       ELSE Dropped
    /\ UNCHANGED <<online, foreign, desk, cursorVars, vblankVars>>

\* lorieShellGeometryChanged().
Marked == shellDirty' = (shellDirty \/ shellOwner # NoHost)

\* A window is mapped, unmapped, moved, shaped, given or deprived of its role,
\* created or destroyed; each has its hook.
WindowChanges(w) ==
    /\ \E l \in Looks : l # desk[w] /\ desk' = [desk EXCEPT ![w] = l]
    /\ Marked
    /\ UNCHANGED <<online, foreign, shellOwner, shellRecords, hostCatalog, crowded, cursorVars, vblankVars>>

\* managerChanged(): a guest window manager comes or goes.
ManagerChanges ==
    /\ foreign' = ~foreign
    /\ Marked
    /\ UNCHANGED <<online, shellOwner, shellRecords, desk, hostCatalog, crowded, cursorVars, vblankVars>>

\* mutant: a window that was unmapped is not published again.
ListedWhileMapped(admitted) ==
    [w \in ShellWindows |->
        IF desk[w].mapped /\ (w \in admitted \/ shellRecords[w] # Absent) THEN desk[w]
        ELSE IF desk[w] # Absent THEN shellRecords[w] ELSE Absent]

\* The records after walk() and the removal of those it did not see: known
\* windows as they are, and the admitted ones.
Listed(admitted) ==
    [w \in ShellWindows |->
        IF w \in admitted \/ shellRecords[w] # Absent THEN desk[w] ELSE Absent]

\* Mapped shell windows without a record, and how many of them publish() still
\* takes: records about to be removed count.
Newcomers == {w \in ShellWindows : desk[w].mapped /\ shellRecords[w] = Absent}

Room == ShellLimit - Cardinality(Catalogued(shellRecords))

\* lorieShellRefresh().  publish() sends what differs from the record, so the
\* host has what the records say; which newcomers find room depends on the
\* stacking.
lorieShellRefresh ==
    IF shellOwner = NoHost \/ ~shellDirty
    THEN UNCHANGED <<shellOwner, shellDirty, shellRecords, hostCatalog, crowded>>
    ELSE IF foreign THEN Dropped
    ELSE \E admitted \in SUBSET Newcomers :
           /\ Cardinality(admitted) = Min({Room, Cardinality(Newcomers)})
           /\ shellRecords' = Listed(admitted)
           /\ hostCatalog' = [w \in ShellWindows |->
                 IF shellRecords'[w] # shellRecords[w] THEN shellRecords'[w] ELSE hostCatalog[w]]
           /\ crowded' = (admitted # Newcomers)
           /\ shellDirty' = FALSE
           /\ UNCHANGED shellOwner

-----------------------------------------------------------------------------

\* What lorieCursorSet() makes of a cursor: the root's is the host's default,
\* and so is one that no event can carry; an empty one is hidden.
Kind(cursor) == CASE cursor \in {"root", "oversized"} -> "default"
                  [] cursor \in {"none", "empty"} -> "hidden"
                  [] OTHER -> cursor

lorieCursorSet ==
    /\ \E c \in {"none", "root", "empty", "oversized", "arrow", "hand"} : cursorKind' = Kind(c)
    /\ cursorPending' = TRUE
    /\ UNCHANGED <<online, shellVars, cursorAt, hostCursor, vblankVars>>

\* mutant: selecting another output is no news.
SelectedQuietly(at) == cursorAt' = at /\ cursorPending' = cursorPending

\* lorieCursorSelect().
Selected(at) ==
    /\ cursorAt' = at
    /\ cursorPending' = (cursorPending \/ cursorAt # at)

\* The pointer enters an output, or the output it is on is released.
SelectCursor ==
    /\ \E at \in Pointers \cup {NoPointer} : Selected(at)
    /\ UNCHANGED <<online, shellVars, cursorKind, hostCursor, vblankVars>>

lorieCursorPublish ==
    IF cursorAt = NoPointer \/ ~cursorPending THEN UNCHANGED <<cursorPending, hostCursor>>
    ELSE cursorPending' = FALSE /\ hostCursor' = <<cursorAt, cursorKind>>

-----------------------------------------------------------------------------

Queued(i) == \E v \in vblankQueue : v.id = i

\* loriePresentQueueVblank() and loriePresentAbortVblank(); an id is new.
QueueVblank(i) ==
    /\ i \notin DOMAIN fired /\ ~Queued(i)
    /\ \E m \in 0..MaxMsc : vblankQueue' = vblankQueue \cup {[id |-> i, msc |-> m]}
    /\ UNCHANGED <<online, shellVars, cursorVars, msc, fired, flips>>

AbortVblank(v) ==
    /\ vblankQueue' = vblankQueue \ {v}
    /\ UNCHANGED <<online, shellVars, cursorVars, msc, fired, flips>>

\* loriePresentAfterFlip(): a late flip takes the clock back to its target.
AfterFlip ==
    /\ flips < MaxFlips /\ flips' = flips + 1
    /\ \E target \in 0..MaxMsc : msc' = Min({msc + 1, target})
    /\ UNCHANGED <<online, shellVars, cursorVars, vblankQueue, fired>>

\* mutant: a client is notified a frame early.
DueSoon(v, now) == v.msc <= now + 1

DueAt(v, now) == v.msc <= now

\* The clock of lorieRedraw() and loriePerformVblanks().  Bound: the clock
\* stays at MaxMsc, which no client waits beyond.
PerformVblanks ==
    LET now == Min({msc + 1, MaxMsc})
        due == {v \in vblankQueue : DueAt(v, now)}
    IN  /\ msc' = now
        /\ vblankQueue' = vblankQueue \ due
        /\ fired' = [i \in DOMAIN fired \cup {v.id : v \in due} |->
                        IF i \in DOMAIN fired THEN fired[i]
                        ELSE [wanted |-> (CHOOSE v \in due : v.id = i).msc, at |-> now]]
        /\ UNCHANGED flips

\* lorieRedraw(), up to the frames.
RedrawStep ==
    /\ PerformVblanks
    /\ IF online THEN lorieCursorPublish /\ lorieShellRefresh
       ELSE UNCHANGED <<cursorPending, hostCursor, shellOwner, shellDirty, shellRecords, hostCatalog, crowded>>
    /\ UNCHANGED <<online, foreign, desk, cursorAt, cursorKind>>

\* The connection is lost; the next one starts with lorieResetOutputs().
GoOffline ==
    /\ online /\ online' = FALSE
    /\ UNCHANGED <<shellVars, cursorVars, vblankVars>>

GoOnline ==
    /\ ~online /\ online' = TRUE
    /\ Dropped /\ Selected(NoPointer)
    /\ hostCursor' = <<>>
    /\ UNCHANGED <<foreign, desk, cursorKind, vblankVars>>

RedrawInit ==
    /\ online = TRUE /\ foreign = FALSE
    /\ shellOwner = NoHost /\ shellDirty = FALSE /\ shellRecords = NoRecords
    /\ desk = NoRecords /\ hostCatalog = NoRecords /\ crowded = FALSE
    /\ cursorAt = NoPointer /\ cursorKind = "default" /\ cursorPending = FALSE /\ hostCursor = <<>>
    /\ msc = 0 /\ vblankQueue = {} /\ fired = <<>> /\ flips = 0

ShellNext ==
    \/ \E id \in Hosts, valid \in BOOLEAN : lorieShellConfigure(id, valid)
    \/ \E w \in ShellWindows : WindowChanges(w)
    \/ ManagerChanges

VblankNext ==
    \/ \E i \in Vblanks : QueueVblank(i)
    \/ \E v \in vblankQueue : AbortVblank(v)
    \/ AfterFlip

RedrawNext ==
    \/ ShellNext \/ lorieCursorSet \/ SelectCursor \/ VblankNext
    \/ RedrawStep \/ GoOffline \/ GoOnline

RedrawSpec == RedrawInit /\ [][RedrawNext]_redrawVars

-----------------------------------------------------------------------------

\* window_shell.c:46-128, cursor.c:37-54: nothing the host was told is out of
\* date without a flag that makes the next redraw say it, across changes of
\* owner, window manager and connection.  A mapped shell window may be missing
\* from a catalog that was full before its refresh removed records; nothing
\* then asks for another refresh.  A Present client is notified at the frame it
\* waits for or later, although late page flips take the clock back
\* (InitOutput.c:798-807, 975-984).
NewsIsPending ==
    /\ online /\ shellOwner # NoHost /\ ~shellDirty =>
         /\ ~foreign
         /\ \A w \in ShellWindows :
              \/ hostCatalog[w] = desk[w]
              \/ hostCatalog[w] = Absent /\ (desk[w].mapped => crowded)
         /\ Cardinality(Catalogued(hostCatalog)) <= ShellLimit
    /\ online /\ cursorAt # NoPointer /\ ~cursorPending => hostCursor = <<cursorAt, cursorKind>>
    /\ \A i \in DOMAIN fired : fired[i].at >= fired[i].wanted
=============================================================================
