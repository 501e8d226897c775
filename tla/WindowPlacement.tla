-------------------------- MODULE WindowPlacement --------------------------
(***************************************************************************)
(* What the redraw does to the geometry of an application window, of its   *)
(* dialog and of the screen before it publishes a frame: size hints,       *)
(* placement of transients and growth of the canvas (loriePrepareOutputs() *)
(* in lorie/window_outputs.c, window_placement.h, window_size.h).          *)
(*                                                                         *)
(* One axis is modelled; the code treats the two alike and apart.  The     *)
(* host's callback that proposes a size answers the same surface and hints *)
(* with the same size, and any size.  A window manager frame is not        *)
(* modelled: moveContent() moves the frame by the distance that puts the   *)
(* content where it is wanted.  With a guest window manager the server     *)
(* does not configure windows itself.                                      *)
(***************************************************************************)
EXTENDS Integers, FiniteSetsExt

CONSTANTS
    SizeLimit,      \* LORIE_WINDOW_SIZE_LIMIT
    ScreenLimit,    \* 32767, the largest virtual mode
    Positions,      \* where clients put windows
    Extents         \* sizes clients give windows

ASSUME PlacementAssumption ==
    /\ SizeLimit \in Nat \ {0} /\ ScreenLimit \in Nat \ {0} /\ SizeLimit < ScreenLimit
    /\ Positions \subseteq Int /\ Extents \subseteq 1..SizeLimit

VARIABLES
    mainWindow,     \* position and extent of the output's window
    dialog,         \* its transient, and whether its first placement is over
    limits,         \* what WM_NORMAL_HINTS of the window amount to
    surface,        \* the output: the host's proposal, ownership, separation
    due,            \* resizePending \/ geometryPending
    screen,         \* extent of the root window
    prepared        \* history: nothing changed since the last redraw

placementVars == <<mainWindow, dialog, limits, surface, due, screen, prepared>>

-----------------------------------------------------------------------------

\* A WM_NORMAL_HINTS property on this axis: flags and values as sent; zero and
\* values over the limit are what clients also send.
Hints == [flags : SUBSET {"min", "max", "base"}, min : 0..(SizeLimit + 1), max : 0..(SizeLimit + 1),
          base : 0..(SizeLimit + 1)]

Minimum(h) == IF "min" \in h.flags /\ h.min \in 1..SizeLimit THEN h.min ELSE 1

Maximum(h) == IF "max" \in h.flags /\ h.max > 0 THEN Min({h.max, SizeLimit}) ELSE SizeLimit

\* mutant: contradictory hints are taken at their word.
BoundsAsSent(h) == [min |-> Minimum(h), max |-> Maximum(h)]

\* lorieWindowSizeAxis(): contradictory hints are ignored together.
lorieWindowSizeAxis(h) ==
    IF Maximum(h) < Minimum(h) THEN [min |-> 1, max |-> SizeLimit]
    ELSE [min |-> Minimum(h), max |-> Maximum(h)]

\* lorieWindowSizeHints(): a base size stands in for a missing minimum.
lorieWindowSizeHints(h) ==
    LET bounds == lorieWindowSizeAxis(h)
    IN  IF "base" \in h.flags /\ "min" \notin h.flags /\ h.base \in 1..Min({bounds.max, SizeLimit})
        THEN [bounds EXCEPT !.min = h.base]
        ELSE bounds

\* All that a client's hints can amount to.
ClientLimits == {lorieWindowSizeHints(h) : h \in Hints}

lorieCenterTransientAxis(extent, origin, available) ==
    origin + (IF extent < available THEN (available - extent) \div 2 ELSE 0)

\* mutant: an oversized transient ends where its owner ends.
PlaceAtEnd(position, extent, origin, available) ==
    LET last == origin + available - extent
    IN  IF position < origin THEN origin ELSE IF position > last THEN last ELSE position

loriePlaceTransientAxis(position, extent, origin, available) ==
    LET last == origin + (IF extent < available THEN available - extent ELSE 0)
    IN  IF position < origin THEN origin ELSE IF position > last THEN last ELSE position

\* lorieVirtualMode() in lorieConfigureNotify(): an impossible size changes nothing.
lorieConfigureNotify(current, extent) == IF extent \in 1..ScreenLimit THEN extent ELSE current

-----------------------------------------------------------------------------

\* Whether a dialog is to be centred on its parent: once in its life, unless
\* it asks for a position or is no dialog at all.
lorieWindowInitialDialogParent(d, unplaced) == ~d.considered /\ unplaced

\* placeTransient() for the dialog of a window at p.
placeTransient(p, d, unplaced) ==
    LET x == IF lorieWindowInitialDialogParent(d, unplaced)
             THEN lorieCenterTransientAxis(d.extent, p.x, p.extent) ELSE d.x
    IN  [d EXCEPT !.considered = TRUE,
                  !.x = IF surface.separated THEN Max({0, x})
                        ELSE loriePlaceTransientAxis(x, d.extent, p.x, p.extent)]

\* The size loriePrepareOutputs() gives the window of a size owner: the host's
\* proposal within the client's limits.
Proposed == Max({limits.min, Min({limits.max, surface.proposal})})

\* Where a window and its mapped dialog end.
Edge(p, d) == Max({p.x + p.extent} \cup (IF d.mapped THEN {d.x + d.extent} ELSE {}))

\* mutant: the canvas is as large as the window.
ArrangedForMain(main, d, unplaced, room) ==
    LET p == [x |-> Max({0, main.x}), extent |-> IF surface.owns THEN Proposed ELSE main.extent]
        t == IF d.mapped THEN placeTransient(p, d, unplaced) ELSE d
    IN  [main |-> p, dialog |-> t, screen |-> lorieConfigureNotify(room, Max({room, p.x + p.extent}))]

\* loriePrepareOutputs() of one output, as a function of what it finds.
Arranged(main, d, unplaced, room) ==
    LET p == [x |-> Max({0, main.x}), extent |-> IF surface.owns THEN Proposed ELSE main.extent]
        t == IF d.mapped THEN placeTransient(p, d, unplaced) ELSE d
    IN  [main |-> p, dialog |-> t, screen |-> lorieConfigureNotify(room, Max({room, Edge(p, t)}))]

\* A dialog that is not mapped; where it was does not matter.
Hidden == [x |-> 0, extent |-> 1, mapped |-> FALSE, considered |-> FALSE]

\* Sizes the host proposes.
Proposals == Extents \cup {SizeLimit + 1}

\* The redraw's first call.  Every window it configures announces a change of
\* geometry (onPosition()), so what it changed makes the next redraw look again.
Prepare ==
    /\ due
    /\ \E unplaced \in BOOLEAN :
         LET r == Arranged(mainWindow, dialog, unplaced, screen)
         IN  /\ mainWindow' = r.main /\ dialog' = r.dialog /\ screen' = r.screen
             /\ due' = (mainWindow # r.main \/ dialog.x # r.dialog.x)
    /\ prepared' = TRUE
    /\ UNCHANGED <<limits, surface>>

\* The client moves or resizes its window or its dialog.
ConfigureMain ==
    /\ \E x \in Positions, e \in Extents : mainWindow' = [x |-> x, extent |-> e]
    /\ due' = TRUE /\ prepared' = FALSE
    /\ UNCHANGED <<dialog, limits, surface, screen>>

ConfigureDialog ==
    /\ dialog.mapped
    /\ \E x \in Positions, e \in Extents : dialog' = [dialog EXCEPT !.x = x, !.extent = e]
    /\ due' = TRUE /\ prepared' = FALSE
    /\ UNCHANGED <<mainWindow, limits, surface, screen>>

\* It maps the dialog, where it likes, or unmaps it.
MapDialog ==
    /\ \/ /\ ~dialog.mapped
          /\ \E x \in Positions, e \in Extents :
               dialog' = [dialog EXCEPT !.mapped = TRUE, !.x = x, !.extent = e]
       \/ dialog.mapped /\ dialog' = [Hidden EXCEPT !.considered = dialog.considered]
    /\ due' = TRUE /\ prepared' = FALSE
    /\ UNCHANGED <<mainWindow, limits, surface, screen>>

\* It changes WM_NORMAL_HINTS, and the host may propose another size.
SetHints ==
    /\ limits' \in ClientLimits
    /\ \E e \in Proposals : surface' = [surface EXCEPT !.proposal = e]
    /\ due' = TRUE /\ prepared' = FALSE
    /\ UNCHANGED <<mainWindow, dialog, screen>>

\* LORIE_OUTPUT_RESIZE makes the output the owner of the size.
ResizeSurface ==
    /\ \E e \in Proposals : surface' = [surface EXCEPT !.proposal = e, !.owns = TRUE]
    /\ due' = TRUE /\ prepared' = FALSE
    /\ UNCHANGED <<mainWindow, dialog, limits, screen>>

\* Another view of the window was resized and owns the size.
LoseSize ==
    /\ surface' = [surface EXCEPT !.owns = FALSE]
    /\ prepared' = FALSE
    /\ UNCHANGED <<mainWindow, dialog, limits, due, screen>>

\* Dependents of the output are bound to a view of their own, or released.
Separate ==
    /\ surface' = [surface EXCEPT !.separated = ~@]
    /\ due' = TRUE /\ prepared' = FALSE
    /\ UNCHANGED <<mainWindow, dialog, limits, screen>>

\* The whole-screen output is resized, to any size; windows that hang over the
\* new edge announce it.
ResizeScreen ==
    /\ \E e \in 1..ScreenLimit : screen' = e
    /\ due' = TRUE /\ prepared' = FALSE
    /\ UNCHANGED <<mainWindow, dialog, limits, surface>>

PlacementInit ==
    /\ mainWindow \in [x : Positions, extent : Extents]
    /\ dialog = Hidden
    /\ limits = [min |-> 1, max |-> SizeLimit]
    /\ surface = [proposal |-> 1, owns |-> FALSE, separated |-> FALSE]
    /\ due = TRUE /\ prepared = FALSE
    /\ screen = 1

PlacementNext ==
    \/ Prepare \/ ConfigureMain \/ ConfigureDialog \/ MapDialog \/ SetHints
    \/ ResizeSurface \/ LoseSize \/ Separate \/ ResizeScreen

PlacementSpec == PlacementInit /\ [][PlacementNext]_placementVars

-----------------------------------------------------------------------------

\* window_size.h:36 "Contradictory client hints must not create a resize
\* feedback loop": what a redraw arranged, the next one leaves alone, whatever
\* the hints and the host's policy say, although the redraw's own moves make
\* it look again.
PlacementSettles ==
    prepared => Arranged(mainWindow, dialog, FALSE, screen)
                    = [main |-> mainWindow, dialog |-> dialog, screen |-> screen]

\* window_outputs.c:401 "X input is clipped to the root", window_placement.h:14
\* "Keep a transient reachable without resizing toolkit-owned content": after a
\* redraw the window and its transient begin on the screen and end on it
\* if the screen can be that large, the transient lies in its owner or begins
\* with it, and a size owner's window respects satisfiable limits.
FamilyIsReachable ==
    prepared =>
        /\ mainWindow.x >= 0
        /\ surface.owns => mainWindow.extent \in limits.min..limits.max
        /\ Edge(mainWindow, dialog) <= ScreenLimit => Edge(mainWindow, dialog) <= screen
        /\ dialog.mapped =>
             /\ dialog.x >= 0
             /\ \/ surface.separated
                \/ dialog.x = mainWindow.x
                \/ dialog.x > mainWindow.x /\ dialog.x + dialog.extent <= mainWindow.x + mainWindow.extent

\* window_outputs.c:344-417, window_placement.h, window_size.h: one redraw is
\* enough, and what it arranged can be seen and clicked.
PlacementIsSound == PlacementSettles /\ FamilyIsReachable
=============================================================================
