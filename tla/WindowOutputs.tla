--------------------------- MODULE WindowOutputs ---------------------------
(***************************************************************************)
(* The output selections of the X server (lorie/window_outputs.c): what    *)
(* each host output shows, which output owns a client's size, which output *)
(* borrows another's transient family, and which keys and buttons each     *)
(* output holds on the keyboard and mouse they all share.                  *)
(*                                                                         *)
(* Everything runs on the server thread, one command or hook at a time.    *)
(* A command whose output is unbound, dead or bound to another window does *)
(* nothing and is not an action.  Pixels, focus and geometry are left to   *)
(* other components; direct is the set of outputs with a touch contact or  *)
(* a pressed pen tip (direct_input.c), and exported the output whose drag  *)
(* the host took over (data_exchange.c).                                   *)
(***************************************************************************)
EXTENDS Naturals, Sequences, FiniteSets

CONSTANTS
    Outputs,   \* output ids
    Windows,   \* XIDs; an XID can be destroyed and used again
    Root,      \* XID zero, the whole screen
    Keys,      \* key codes
    Buttons,   \* mouse buttons
    Primary,   \* button 1
    None       \* no output, no window, no drag

ASSUME OutputsAssumption ==
    /\ Root \notin Windows /\ None \notin Windows /\ None # Root
    /\ None \notin Outputs
    /\ Primary \in Buttons /\ Keys \cap Buttons = {}

VARIABLES
    selections,    \* the linked list of bound outputs, in list order
    out,           \* the OutputSelection of each id
    down,          \* keys and buttons the logical devices report pressed
    direct,        \* outputs with a contact or a pressed pen tip
    pointer,       \* pointerOutput while pointerDown
    cursor,        \* cursorOutput
    exported,      \* exportedOutput and exportedWindow, or None
    windows,       \* X windows that exist
    shellWindows   \* XIDs lorieShellWindow() admits, perhaps of destroyed windows

vars == <<selections, out, down, direct, pointer, cursor, exported, windows, shellWindows>>

Inputs == Keys \cup Buttons

Selection == [window : Windows \cup {Root, None}, dead : BOOLEAN, shell : BOOLEAN,
              parent : Outputs \cup {None}, sized : BOOLEAN, ownsSize : BOOLEAN,
              held : SUBSET Inputs]

Unbound == [window |-> None, dead |-> FALSE, shell |-> FALSE, parent |-> None,
            sized |-> FALSE, ownsSize |-> FALSE, held |-> {}]

TypeOK ==
    /\ selections \in Seq(Outputs)
    /\ out \in [Outputs -> Selection]
    /\ down \in SUBSET Inputs
    /\ direct \in SUBSET Outputs
    /\ pointer \in Outputs \cup {None}
    /\ cursor \in Outputs \cup {None}
    /\ exported \in (Outputs \X (Windows \cup {Root})) \cup {None}
    /\ windows \in SUBSET Windows
    /\ shellWindows \in SUBSET Windows

Init ==
    /\ selections = <<>>
    /\ out = [o \in Outputs |-> Unbound]
    /\ down = {}
    /\ direct = {}
    /\ pointer = None
    /\ cursor = None
    /\ exported = None
    /\ windows = {}
    /\ shellWindows = {}

-----------------------------------------------------------------------------

Bound(o) == out[o].window # None

Live(o) == Bound(o) /\ ~out[o].dead

borrowed(s) == s.shell \/ s.parent # None

\* Some live output borrows the family of o.
separated(f, o) == \E c \in Outputs : f[c].window # None /\ ~f[c].dead /\ f[c].parent = o

Exists(w) == w = Root \/ w \in windows

\* What only the outputs of S hold: releasing them all releases the device.
LastHeldBy(S) ==
    {i \in UNION {out[o].held : o \in S} : \A p \in Outputs \ S : i \notin out[p].held}

\* Mutant: the drag pointer of a released output is forgotten about.
ReleaseInputKeepingPointer(S) ==
    /\ down' = down \ LastHeldBy(S)
    /\ direct' = direct \ S
    /\ pointer' = pointer

\* releaseInput() of every output in S, on the devices.
releaseInput(S) ==
    /\ down' = down \ LastHeldBy(S)
    /\ direct' = direct \ S
    /\ pointer' = IF pointer \in S THEN None ELSE pointer

\* The same on the selections themselves.
Emptied(S) == [o \in Outputs |-> IF o \in S THEN [out[o] EXCEPT !.held = {}] ELSE out[o]]

lorieCursorRelease(S) == cursor' = IF cursor \in S THEN None ELSE cursor

\* Views that can take over the client size of o, by position in the list.
Heirs(o) ==
    {k \in DOMAIN selections :
        LET p == selections[k]
        IN  /\ p # o /\ ~out[p].dead /\ ~borrowed(out[p])
            /\ out[p].window = out[o].window /\ out[p].sized}

FirstHeir(o, p) ==
    \E k \in Heirs(o) : p = selections[k] /\ \A j \in Heirs(o) : k <= j

\* Mutant: the dependents of a released parent are forgotten.
ReleasedAlone(o) ==
    [p \in Outputs |->
        IF p = o THEN Unbound
        ELSE [out[p] EXCEPT !.ownsSize = @ \/ (out[o].ownsSize /\ FirstHeir(o, p))]]

\* releaseSelection(): the selections once o is freed.  Its dependents are
\* revoked and its size ownership passes to the first view that has a size.
Released(o) ==
    [p \in Outputs |->
        IF p = o THEN Unbound
        ELSE [out[p] EXCEPT !.dead = @ \/ out[p].parent = o,
                            !.ownsSize = @ \/ (out[o].ownsSize /\ FirstHeir(o, p))]]

\* The list without the link that holds o.
Unlinked(o) ==
    LET link == CHOOSE k \in DOMAIN selections : selections[k] = o
    IN  [k \in 1..(Len(selections) - 1) |-> IF k < link THEN selections[k] ELSE selections[k + 1]]

-----------------------------------------------------------------------------

\* LORIE_OUTPUT_RELEASE.
Release(o) ==
    /\ Bound(o)
    /\ selections' = Unlinked(o)
    /\ out' = Released(o)
    /\ releaseInput({o})
    /\ lorieCursorRelease({o})
    /\ UNCHANGED <<exported, windows, shellWindows>>

\* What LORIE_OUTPUT_BIND accepts, in the state f after the old binding went.
MayBind(f, o, w, detail, p) ==
    \/ detail = 0
    \/ detail = 1 /\ w \in shellWindows
    \/ /\ detail = 2
       /\ p # o /\ f[p].window = w /\ w # Root /\ w # None
       /\ ~f[p].dead /\ ~borrowed(f[p]) /\ ~separated(f, p)

\* LORIE_OUTPUT_BIND: an old binding of the id is released first, whether or
\* not the new one is accepted; the new one takes its place in the list, or
\* the end of it.
Bind(o, w, detail, p) ==
    /\ detail = 2 <=> p # None
    /\ LET f == IF Bound(o) THEN Released(o) ELSE out
           ok == MayBind(f, o, w, detail, p)
           s == [Unbound EXCEPT !.window = w, !.shell = detail = 1, !.parent = p]
       IN  /\ out' = IF ok THEN [f EXCEPT ![o] = s] ELSE f
           /\ selections' = CASE ok /\ ~Bound(o) -> Append(selections, o)
                              [] ~ok /\ Bound(o) -> Unlinked(o)
                              [] OTHER           -> selections
    /\ releaseInput({o})
    /\ IF Bound(o) THEN lorieCursorRelease({o}) ELSE UNCHANGED cursor
    /\ UNCHANGED <<exported, windows, shellWindows>>

\* The gate of every other command.
Accepts(o) == Live(o) /\ (out[o].shell => out[o].window \in shellWindows)

\* Any command to a shell output whose window is no longer admitted.
ShellRevoked(o) ==
    /\ Live(o) /\ out[o].shell /\ out[o].window \notin shellWindows
    /\ out' = [Emptied({o}) EXCEPT ![o].dead = TRUE]
    /\ releaseInput({o})
    /\ UNCHANGED <<selections, cursor, exported, windows, shellWindows>>

\* Mutant: an earlier size owner keeps owning.
ResizedToo(o) ==
    [p \in Outputs |->
        IF p = o THEN [out[p] EXCEPT !.sized = TRUE, !.ownsSize = out[o].window # Root]
        ELSE out[p]]

\* The selections after a resize of o: the latest resize owns the client size.
Resized(o) ==
    [p \in Outputs |->
        IF p = o THEN [out[p] EXCEPT !.sized = TRUE, !.ownsSize = out[o].window # Root]
        ELSE IF out[o].window # Root /\ out[p].window = out[o].window
        THEN [out[p] EXCEPT !.ownsSize = FALSE]
        ELSE out[p]]

\* LORIE_OUTPUT_RESIZE.
Resize(o) ==
    /\ Accepts(o) /\ ~borrowed(out[o])
    /\ out' = Resized(o)
    /\ UNCHANGED <<selections, down, direct, pointer, cursor, exported, windows, shellWindows>>

-----------------------------------------------------------------------------
\* Commands that reach the window.

Reaches(o) == Accepts(o) /\ Exists(out[o].window)

OthersHold(o, i) == \E p \in Outputs \ {o} : i \in out[p].held

\* outputKey() and outputButton(): the first holder presses the device and the
\* last one releases it.
Hold(o, i) ==
    /\ out' = [out EXCEPT ![o].held = @ \cup {i}]
    /\ down' = IF i \in out[o].held \/ OthersHold(o, i) THEN down ELSE down \cup {i}

\* Mutant: the device is released although another output holds it.
LetGoForAll(o, i) ==
    /\ out' = [out EXCEPT ![o].held = @ \ {i}]
    /\ down' = IF i \notin out[o].held THEN down ELSE down \ {i}

LetGo(o, i) ==
    /\ out' = [out EXCEPT ![o].held = @ \ {i}]
    /\ down' = IF i \notin out[o].held \/ OthersHold(o, i) THEN down ELSE down \ {i}

\* lorieDataPointer() for button 1: a release counts only from the output that
\* pressed.
lorieDataPointer(o, pressed) ==
    pointer' = IF pressed THEN o ELSE IF pointer = o THEN None ELSE pointer

\* LORIE_OUTPUT_KEY.
Key(o, k, pressed) ==
    /\ Reaches(o)
    /\ IF pressed THEN Hold(o, k) ELSE LetGo(o, k)
    /\ UNCHANGED <<selections, direct, pointer, cursor, exported, windows, shellWindows>>

\* LORIE_OUTPUT_POINTER with a button.
Pointer(o, b, pressed) ==
    /\ Reaches(o)
    /\ IF pressed THEN Hold(o, b) ELSE LetGo(o, b)
    /\ IF b = Primary THEN lorieDataPointer(o, pressed) ELSE UNCHANGED pointer
    /\ cursor' = o
    /\ UNCHANGED <<selections, direct, exported, windows, shellWindows>>

\* LORIE_OUTPUT_POINTER without a button, LORIE_OUTPUT_SCROLL.
Motion(o) ==
    /\ Reaches(o)
    /\ cursor' = o
    /\ UNCHANGED <<selections, out, down, direct, pointer, exported, windows, shellWindows>>

\* LORIE_OUTPUT_TOUCH and LORIE_OUTPUT_TABLET: o ends up pressed or not, and a
\* tablet may be taken from the outputs that had it.
DirectInput(o, pressed, taken) ==
    /\ Reaches(o)
    /\ direct' = IF pressed THEN (direct \ taken) \cup {o} ELSE direct \ (taken \cup {o})
    /\ lorieDataPointer(o, pressed)
    /\ cursor' = o
    /\ UNCHANGED <<selections, out, down, exported, windows, shellWindows>>

\* LORIE_OUTPUT_CANCEL_CONTACTS.
CancelContacts(o) ==
    /\ Reaches(o)
    /\ direct' = direct \ {o}
    /\ lorieDataPointer(o, Primary \in out[o].held)
    /\ UNCHANGED <<selections, out, down, cursor, exported, windows, shellWindows>>

\* LORIE_OUTPUT_BLUR.
Blur(o) ==
    /\ Reaches(o)
    /\ out' = Emptied({o})
    /\ releaseInput({o})
    /\ UNCHANGED <<selections, cursor, exported, windows, shellWindows>>

\* LORIE_OUTPUT_TEXT types a character through some key of the shared
\* keyboard, which ends up released.
Text(o, k) ==
    /\ Reaches(o)
    /\ down' = down \ {k}
    /\ UNCHANGED <<selections, out, direct, pointer, cursor, exported, windows, shellWindows>>

-----------------------------------------------------------------------------
\* What the rest of the server does to the selections.

\* Mutant: an output that is already dead is passed over.
DestroyedLive(w) == {o \in Outputs : out[o].window = w /\ ~out[o].dead}

DestroyedOutputs(w) == {o \in Outputs : out[o].window = w}

\* lorieOutputWindowDestroyed(), from the DestroyWindow hook.  The shell
\* catalog still admits the XID until its next refresh.
WindowDestroyed(w) ==
    /\ w \in windows
    /\ windows' = windows \ {w}
    /\ LET S == DestroyedOutputs(w)
       IN  /\ out' = [o \in Outputs |->
                        IF o \in S THEN [out[o] EXCEPT !.held = {}, !.dead = TRUE] ELSE out[o]]
           /\ releaseInput(S)
           /\ lorieCursorRelease(S)
    /\ UNCHANGED <<selections, exported, shellWindows>>

\* A client creates a window; the XID may have been used before.
WindowCreated(w) ==
    /\ w \notin windows
    /\ windows' = windows \cup {w}
    /\ UNCHANGED <<selections, out, down, direct, pointer, cursor, exported, shellWindows>>

\* The shell catalog admits a window, or drops it or its owner.
ShellAdmits(w) ==
    /\ w \in windows
    /\ shellWindows' = shellWindows \cup {w}
    /\ UNCHANGED <<selections, out, down, direct, pointer, cursor, exported, windows>>

ShellDrops(w) ==
    /\ shellWindows' = shellWindows \ {w}
    /\ UNCHANGED <<selections, out, down, direct, pointer, cursor, exported, windows>>

\* beginExport(): the drag under the pressed pointer moves to the host.
BeginExport ==
    /\ exported = None /\ pointer # None
    /\ exported' = <<pointer, out[pointer].window>>
    /\ UNCHANGED <<selections, out, down, direct, pointer, cursor, windows, shellWindows>>

\* Mutant: the end of a drag does not look at what the output selects now.
ReleaseReboundButton(o, w) == LetGo(o, Primary) /\ direct' = direct \ {o}

\* lorieReleaseOutputButton() for button 1, if o still selects w.
lorieReleaseOutputButton(o, w) ==
    IF out[o].window = w
    THEN LetGo(o, Primary) /\ direct' = direct \ {o}
    ELSE UNCHANGED <<out, down, direct>>

\* endExport() with releaseExportPointer(): the drag completed or timed out.
EndExport ==
    /\ exported # None
    /\ lorieReleaseOutputButton(exported[1], exported[2])
    /\ pointer' = IF pointer = exported[1] /\ out[pointer].window = exported[2]
                  THEN None ELSE pointer
    /\ exported' = None
    /\ UNCHANGED <<selections, cursor, windows, shellWindows>>

\* lorieDataReset(), when the connection is lost.
DataReset ==
    /\ IF exported # None
       THEN lorieReleaseOutputButton(exported[1], exported[2])
       ELSE UNCHANGED <<out, down, direct>>
    /\ pointer' = None
    /\ exported' = None
    /\ UNCHANGED <<selections, cursor, windows, shellWindows>>

\* lorieResetOutputs(), when a connection replaces another or the screen
\* closes; lorieDataReset() always comes first.
ResetOutputs ==
    /\ selections # <<>>
    /\ selections' = <<>>
    /\ out' = [o \in Outputs |-> Unbound]
    /\ releaseInput(Outputs)
    /\ cursor' = None
    /\ exported' = None
    /\ shellWindows' = {}
    /\ UNCHANGED windows

\* lorieReleaseOutputInput(), when the server closes its input devices.
CloseInput ==
    /\ selections # <<>>
    /\ out' = Emptied(Outputs)
    /\ releaseInput(Outputs)
    /\ UNCHANGED <<selections, cursor, exported, windows, shellWindows>>

\* Steps that change which window an output selects and on what terms.
Lifecycle ==
    \/ \E o \in Outputs :
         \/ Release(o)
         \/ \E w \in Windows \cup {Root}, d \in 0..2, p \in Outputs \cup {None} : Bind(o, w, d, p)
         \/ ShellRevoked(o)
         \/ Resize(o)
    \/ \E w \in Windows :
         \/ WindowDestroyed(w)
         \/ WindowCreated(w)
         \/ ShellAdmits(w)
         \/ ShellDrops(w)
    \/ ResetOutputs

\* Steps that only move input.
Input ==
    \/ \E o \in Outputs :
         \/ \E k \in Keys, pressed \in BOOLEAN : Key(o, k, pressed)
         \/ \E b \in Buttons, pressed \in BOOLEAN : Pointer(o, b, pressed)
         \/ Motion(o)
         \/ \E pressed \in BOOLEAN, taken \in SUBSET (direct \ {o}) : DirectInput(o, pressed, taken)
         \/ CancelContacts(o)
         \/ Blur(o)
         \/ \E k \in Keys : Text(o, k)
    \/ BeginExport
    \/ EndExport
    \/ DataReset
    \/ CloseInput

Next == Lifecycle \/ Input

Spec == Init /\ [][Next]_vars

-----------------------------------------------------------------------------

Leased(i) == \E o \in Outputs : i \in out[o].held

\* window_outputs.c:61-88: the shared devices report exactly what some output
\* holds.  Nothing stays pressed without a holder, and a held button stays
\* pressed; a held key may have been released by typing text through it.
LeasesMatchDevice ==
    /\ \A i \in down : Leased(i)
    /\ \A b \in Buttons : Leased(b) => b \in down

\* window_outputs.c:133-145, "a destroyed client cannot receive the host's
\* later key/button-up": no output holds input for a window that is gone, even
\* if the output was revoked earlier or its XID is in use again.
HoldersHaveWindows == \A o \in Outputs : out[o].held # {} => Exists(out[o].window)

\* window_outputs.c:277-280 and 161-167: among the live views of one window at
\* most one owns the client's size, and one does as soon as a view that does
\* not borrow has a size.
OneSizeOwner ==
    \A w \in Windows :
        LET V == {o \in Outputs : Live(o) /\ ~borrowed(out[o]) /\ out[o].window = w}
        IN  /\ Cardinality({o \in V : out[o].ownsSize}) <= 1
            /\ (\E o \in V : out[o].sized) => (\E o \in V : out[o].ownsSize)

\* window_outputs.c:243-249 and 157: a live dependent's parent is bound, alive,
\* not itself a borrower, and selects the same window, and it lends its family
\* to no one else, whatever was rebound, released or destroyed since.
BorrowsAreSound ==
    \A c \in Outputs : Live(c) /\ out[c].parent # None =>
        LET p == out[c].parent
        IN  /\ Live(p) /\ ~borrowed(out[p]) /\ out[p].window = out[c].window
            /\ \A d \in Outputs \ {c} : ~(Live(d) /\ out[d].parent = p)

\* window_outputs.c:81-83, 139 and 160: the cursor, the drag pointer and the
\* direct contacts never refer to an output that was freed.
NoFreedOutputIsUsed ==
    \A o \in Outputs : ~Bound(o) => o # pointer /\ o # cursor /\ o \notin direct /\ out[o] = Unbound

\* window_outputs.c:133-169: destruction, release and rebinding in any order
\* leave no input, cursor, drag or contact behind them.
NothingIsLeftBehind == HoldersHaveWindows /\ NoFreedOutputIsUsed

\* window_outputs.c:154-169, 240-283: the relations between the selections of
\* a window survive every order of binding, resizing, release and destruction.
SelectionsAreSound == OneSizeOwner /\ BorrowsAreSound

\* window_outputs.c:98-106 and data_exchange.c:583-603, "must not release
\* another output's button": ending an exported drag takes a button only from
\* the output the drag began in, and only if that still selects its window.
DragEndSparesOthers ==
    [][\A o \in Outputs :
         (exported # None /\ exported' = None /\ out'[o].window = out[o].window)
         => \/ out'[o].held = out[o].held
            \/ /\ <<o, out[o].window>> = exported
               /\ out'[o].held = out[o].held \ {Primary}]_vars

\* docs/embedding.md:337-339, "Destruction of its selected window, rebinding,
\* release or disconnect releases those input leases; a late key-up must not
\* leave the shared keyboard repeating": an output whose selection was revoked,
\* and whose key-up is ignored from then on, holds no input.
RevokedOutputsHoldNoInput == \A o \in Outputs : out[o].dead => out[o].held = {}
=============================================================================
