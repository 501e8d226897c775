---------------------------- MODULE OutputFrames ----------------------------
(***************************************************************************)
(* Frames of outputs: damage on the pixmaps of Composite windows, the      *)
(* publication of layers and family geometry (loriePublishOutputs() in     *)
(* lorie/window_outputs.c) and what the renderer makes of them             *)
(* (renderer_outputs.cpp).                                                 *)
(*                                                                         *)
(* An application window, its popup and the whole screen (XID zero) can be *)
(* shown.  A pixmap is its address, which is used again once it is free.   *)
(* Position and size of a window are one `place'.  The renderer reads      *)
(* pixels when it draws, so an output is out of date after any drawing     *)
(* that follows.  Assumed: the host gives an output its surface before it  *)
(* binds it; events of a frame arrive together; allocation does not fail.  *)
(* Input is in WindowOutputs, the renderer's worker in GpuCopy.            *)
(***************************************************************************)
EXTENDS Integers, FiniteSetsExt

CONSTANTS
    Views,          \* ids of outputs
    NoView,         \* zero
    Bindings,       \* <<id, window, parent>> the host asks for
    MaxChanges      \* bound: what clients, host and failures do altogether

ASSUME FramesAssumption ==
    /\ NoView \notin Views /\ MaxChanges \in Nat
    /\ Bindings \subseteq Views \X {"app", "popup", "screen"} \X (Views \cup {NoView})

VARIABLES
    views,          \* OutputSelection per id, or NoSelection
    images,         \* WindowImage per window, or NoImage
    pane,           \* the windows
    bindings,       \* history: how often an id was bound
    changes,        \* counts towards MaxChanges
    record          \* the renderer's output and, as history, its picture

frameVars == <<views, images, pane, bindings, changes, record>>

Panes == {"app", "popup"}

Pictured == Panes \cup {"screen"}

NoPixmap == 0

ScreenPixmap == -1

Family(w) == IF w = "app" THEN Panes ELSE {w}

NoSelection == [window |-> "none", parent |-> NoView, changed |-> FALSE, seen |-> FALSE, dead |-> TRUE,
                pending |-> FALSE, published |-> FALSE, layers |-> {}, revision |-> 0, presentation |-> 0]

NoImage == [pixmap |-> NoPixmap, changed |-> FALSE, damaged |-> FALSE, redirected |-> FALSE, there |-> FALSE]

Bound(o) == views[o].window # "none"

Separated(o) == \E c \in Views : Bound(c) /\ ~views[c].dead /\ views[c].parent = o

Borrows(o) == views[o].parent # NoView

\* The pixmap a window draws to: its own if it is redirected, else the screen's.
PixmapOf(w) == IF w = "screen" THEN ScreenPixmap
               ELSE IF ~pane[w].mapped THEN NoPixmap
               ELSE IF pane[w].redirected THEN pane[w].pixmap
               ELSE ScreenPixmap

\* The address of the next pixmap.  The allocator takes the first free one, so
\* that an address is used again as soon as it can be.
Address == Min({a \in 1..3 : \A w \in Panes : pane[w].pixmap # a})

-----------------------------------------------------------------------------

\* lorieOutputGeometryChanged().
GeometryChanged(vs) ==
    [o \in Views |-> IF Bound(o) /\ views[o].window # "screen" THEN [vs[o] EXCEPT !.pending = TRUE] ELSE vs[o]]

\* mutant: the image keeps the address of a pixmap that is gone.
NotForgotten(p) == images

\* damageDestroyed(): the pixmap at p is freed.
damageDestroyed(p) ==
    [w \in Pictured |-> IF images[w].pixmap = p /\ p # NoPixmap
                        THEN [images[w] EXCEPT !.pixmap = NoPixmap, !.damaged = FALSE, !.changed = TRUE]
                        ELSE images[w]]

\* Outputs that show w have an old picture.
Aged(w) == [o \in Views |-> IF w \in {l[1] : l \in record[o].picture}
                            THEN [record[o] EXCEPT !.stale = @ \cup {w}] ELSE record[o]]

\* One more of the bounded changes.
Counted == changes < MaxChanges /\ changes' = changes + 1

\* A client draws in a window; the damage of the pixmap grows.
Paint(w) ==
    /\ Counted
    /\ w = "screen" \/ (w \in Panes /\ pane[w].mapped)
    /\ LET target == PixmapOf(w)
           shown == IF target = ScreenPixmap THEN "screen" ELSE w
       IN  /\ images' = [images EXCEPT ![shown].damaged = @ \/ (images[shown].pixmap = target)]
           /\ record' = Aged(shown)
    /\ UNCHANGED <<views, pane, bindings>>

\* RealizeWindow, with a pixmap from Composite if the window is redirected.
Map(w) ==
    /\ Counted
    /\ pane[w].alive /\ ~pane[w].mapped
    /\ \/ /\ pane[w].redirected
          /\ pane' = [pane EXCEPT ![w].mapped = TRUE, ![w].pixmap = Address]
       \/ /\ ~pane[w].redirected
          /\ pane' = [pane EXCEPT ![w].mapped = TRUE]
    /\ views' = GeometryChanged(views)
    /\ UNCHANGED <<images, bindings, record>>

\* UnrealizeWindow frees it.
Unmap(w) ==
    /\ Counted
    /\ pane[w].mapped
    /\ pane' = [pane EXCEPT ![w].mapped = FALSE, ![w].pixmap = NoPixmap]
    /\ images' = damageDestroyed(pane[w].pixmap)
    /\ views' = GeometryChanged(views)
    /\ UNCHANGED <<bindings, record>>

\* A window moves, or it is resized and its pixmap replaced; the old one is
\* freed when the new one exists.
Configure(w) ==
    /\ Counted
    /\ pane[w].mapped
    /\ \/ /\ pane' = [pane EXCEPT ![w].place = 1 - @]
          /\ UNCHANGED images
       \/ /\ pane[w].redirected
          /\ pane' = [pane EXCEPT ![w].pixmap = Address]
          /\ images' = damageDestroyed(pane[w].pixmap)
    /\ views' = GeometryChanged(views)
    /\ UNCHANGED <<bindings, record>>

\* The end of lorieOutputWindowDestroyed().
Unredirected(w) == [images EXCEPT ![w].redirected = FALSE]

\* onDestroy() of an unmapped window: its outputs end.
DestroyPane(w) ==
    /\ Counted
    /\ pane[w].alive /\ ~pane[w].mapped
    /\ pane' = [pane EXCEPT ![w].alive = FALSE, ![w].redirected = FALSE]
    /\ images' = Unredirected(w)
    /\ views' = [o \in Views |-> IF views[o].window = w
                                 THEN [views[o] EXCEPT !.dead = TRUE, !.changed = TRUE] ELSE views[o]]
    /\ UNCHANGED <<bindings, record>>

\* The XID is used again.
CreatePane(w) ==
    /\ Counted
    /\ ~pane[w].alive
    /\ pane' = [pane EXCEPT ![w].alive = TRUE]
    /\ UNCHANGED <<views, images, bindings, record>>

-----------------------------------------------------------------------------

\* releaseSelection(): the parent shows its family again, dependents end.
Freed(o) ==
    [v \in Views |->
        IF v = o THEN NoSelection
        ELSE IF Bound(v) /\ v = views[o].parent THEN [views[v] EXCEPT !.changed = TRUE, !.pending = TRUE]
        ELSE IF Bound(v) /\ views[v].parent = o THEN [views[v] EXCEPT !.dead = TRUE, !.changed = TRUE]
        ELSE views[v]]

ReleaseView(o) ==
    /\ Counted
    /\ Bound(o)
    /\ views' = Freed(o)
    /\ UNCHANGED <<images, pane, bindings, record>>

\* LORIE_OUTPUT_BIND of a window or of the dependents of parent's window.
BindView(o, w, parent) ==
    /\ Counted
    /\ LET vs == IF Bound(o) THEN Freed(o) ELSE views
           alone == \A c \in Views : vs[c].window = "none" \/ vs[c].dead \/ vs[c].parent # parent
           fresh == [NoSelection EXCEPT !.window = w, !.parent = parent, !.changed = TRUE,
                                        !.dead = FALSE, !.pending = TRUE]
       IN  \/ /\ parent = NoView
              /\ views' = [vs EXCEPT ![o] = fresh]
           \/ /\ parent \in Views \ {o} /\ w \in Panes
              /\ ~vs[parent].dead /\ vs[parent].parent = NoView /\ alone /\ vs[parent].window = w
              /\ views' = [vs EXCEPT ![o] = fresh, ![parent].changed = TRUE, ![parent].pending = TRUE]
    /\ bindings' = [bindings EXCEPT ![o] = @ + 1]
    /\ UNCHANGED <<images, pane, record>>

\* LORIE_OUTPUT_VIEWPORT of a borrowed output: the next serial.
Viewport(o) ==
    /\ Counted
    /\ Bound(o) /\ Borrows(o) /\ ~views[o].dead /\ views[o].presentation = 0
    /\ views' = [views EXCEPT ![o].presentation = 1, ![o].changed = TRUE]
    /\ UNCHANGED <<images, pane, bindings, record>>

-----------------------------------------------------------------------------

Exists(w) == w = "screen" \/ (w \in Panes /\ pane[w].alive)

Realized(w) == w = "screen" \/ (w \in Panes /\ pane[w].mapped)

\* What appendLayer() is called for: the dependents, the main window of a
\* separated family, or the family.
Members(o) ==
    LET w == views[o].window
    IN  IF views[o].dead \/ ~Exists(w) \/ ~Realized(w) THEN {}
        ELSE {v \in (IF Borrows(o) THEN Family(w) \ {w} ELSE IF Separated(o) THEN {w} ELSE Family(w)) :
                Realized(v)}

Used == UNION {Members(o) : o \in {v \in Views : Bound(v)}}

\* imageFor() of a window whose pixmap is p, apart from the redirection.
imageFor(w, p) ==
    IF images[w].there /\ images[w].pixmap = p THEN images[w]
    ELSE [images[w] EXCEPT !.there = TRUE, !.pixmap = p, !.changed = TRUE, !.damaged = FALSE]

\* Layers of an output, given the images of the windows in use.
LayersOf(o, now) == {<<w, IF w = "screen" THEN 0 ELSE pane[w].place>> :
                        w \in {v \in Members(o) : now[v].pixmap # NoPixmap}}

Renewed(layers, now) == \E l \in layers : now[l[1]].changed \/ now[l[1]].damaged

\* Whether loriePublishOutputs() sends a frame of o.
Sends(o, now) ==
    Bound(o) /\ (views[o].changed \/ Renewed(LayersOf(o, now), now) \/ LayersOf(o, now) # views[o].layers)

\* lorieWindowFamilyGeometry() of the dependents of an output.
FamilyGeometry(o, dead) ==
    IF dead THEN {} ELSE {<<v, pane[v].place>> : v \in {u \in Members(o) : u # views[o].window}}

Dies(o) == views[o].dead \/ (~Exists(views[o].window) /\ views[o].seen)

\* The selection after its turn.
Turned(o, now) ==
    LET v == views[o]
        tells == Borrows(o) /\ (v.pending \/ ~v.published \/ Dies(o))
    IN  [v EXCEPT !.dead = Dies(o), !.seen = @ \/ Exists(v.window),
                  !.pending = @ /\ ~tells, !.published = @ \/ tells, !.changed = FALSE,
                  !.layers = IF Sends(o, now) THEN LayersOf(o, now) ELSE @,
                  !.revision = IF Sends(o, now) THEN @ + 1 ELSE @]

\* What the renderer has then.  A layer whose pixmap cannot be exported is
\* left out and not tried again before the output changes.
Received(o, now, failed) ==
    LET tells == Borrows(o) /\ (views[o].pending \/ ~views[o].published \/ Dies(o))
        lost == {l \in LayersOf(o, now) : l[1] \in failed}
        told == IF tells THEN [record[o] EXCEPT !.family = FamilyGeometry(o, Dies(o))] ELSE record[o]
    IN  IF ~Sends(o, now) THEN told
        ELSE [told EXCEPT !.revision = views[o].revision + 1, !.layers = LayersOf(o, now) \ lost,
                          !.skipped = lost, !.presentation = views[o].presentation,
                          !.binding = bindings[o]]

\* What becomes of a window: loriePublishOutputs() redirects one that it uses,
\* to any free pixmap, and unredirects one that it does not.  Redirection may
\* fail and is tried again.
Recompositions(w) ==
    IF w \notin Used
    THEN {IF images[w].redirected /\ pane[w].alive
          THEN [pane[w] EXCEPT !.redirected = FALSE, !.pixmap = NoPixmap] ELSE pane[w]}
    ELSE {pane[w]} \cup (IF images[w].redirected THEN {}
                         ELSE {[pane[w] EXCEPT !.redirected = TRUE, !.pixmap = a] : a \in 1..2})

\* pruneImages(): images in use are clean now, the others go.
Pruned(now, p) ==
    [w \in Pictured |-> IF w \notin Used THEN NoImage
                        ELSE [now[w] EXCEPT !.changed = FALSE, !.damaged = FALSE,
                                            !.redirected = w \in Panes /\ p[w].redirected]]

\* loriePublishOutputs().
Publish ==
    /\ \E app \in Recompositions("app"), popup \in Recompositions("popup"), failed \in SUBSET Panes :
         /\ app.pixmap # popup.pixmap \/ app.pixmap = NoPixmap
         /\ LET p == [w \in Panes |-> IF w = "app" THEN app ELSE popup]
                now == [w \in Pictured |->
                          imageFor(w, IF w = "screen" THEN ScreenPixmap
                                      ELSE IF p[w].redirected THEN p[w].pixmap ELSE NoPixmap)]
            IN  /\ IF failed = {} /\ \A w \in Used \cap Panes : p[w].redirected
                   THEN UNCHANGED changes ELSE Counted
                /\ pane' = p
                /\ views' = [o \in Views |-> IF Bound(o) THEN Turned(o, now) ELSE views[o]]
                /\ record' = [o \in Views |-> IF Bound(o) THEN Received(o, now, failed) ELSE record[o]]
                /\ images' = Pruned(now, p)
    /\ UNCHANGED bindings

\* drawOutputs() of one output: the frame it has, with the pixels of now.
DrawView(o) ==
    /\ record[o].drawn # record[o].revision
    /\ record' = [record EXCEPT ![o].drawn = record[o].revision, ![o].picture = record[o].layers,
                                ![o].shows = record[o].binding, ![o].stale = {}]
    /\ UNCHANGED <<views, images, pane, bindings, changes>>

FramesInit ==
    /\ views = [o \in Views |-> NoSelection]
    /\ images = [w \in Pictured |-> NoImage]
    /\ pane = [w \in Panes |-> [alive |-> TRUE, mapped |-> TRUE, redirected |-> FALSE,
                                place |-> 0, pixmap |-> NoPixmap]]
    /\ bindings = [o \in Views |-> 0] /\ changes = 0
    /\ record = [o \in Views |-> [revision |-> 0, layers |-> {}, skipped |-> {}, presentation |-> 0,
                                  family |-> {}, binding |-> 0,
                                  drawn |-> 0, picture |-> {}, shows |-> 0, stale |-> {}]]

FramesNext ==
    \/ \E w \in Pictured : Paint(w)
    \/ \E w \in Panes : Map(w) \/ Unmap(w) \/ Configure(w) \/ DestroyPane(w) \/ CreatePane(w)
    \/ \E o \in Views : ReleaseView(o) \/ Viewport(o) \/ DrawView(o)
    \/ \E b \in Bindings : BindView(b[1], b[2], b[3])
    \/ Publish

FramesSpec == FramesInit /\ [][FramesNext]_frameVars

-----------------------------------------------------------------------------

\* The images as the next publication would find them, if redirection succeeds
\* for all that have a pixmap of their own.
Found == [w \in Pictured |-> imageFor(w, IF w = "screen" THEN ScreenPixmap
                                         ELSE IF pane[w].redirected THEN pane[w].pixmap ELSE NoPixmap)]

\* window_outputs.c:475-541: whatever was drawn, moved, mapped, destroyed or
\* bound since, either the next publication sends a frame of the output, or
\* the renderer has still to draw one, or the picture is up to date: the
\* layers there are, but for those that could not be exported, with the pixels
\* they have.  A dependent output's geometry is told or still to be told.
\* Excepted is the first frame of a new binding with the number of the one on
\* display, which drawOutputs() takes for drawn.
NoUpdateIsLost ==
    \A o \in Views : Bound(o) =>
        /\ \/ Sends(o, Found)
           \/ \E w \in Used \cap Panes : ~pane[w].redirected
           \/ /\ LayersOf(o, Found) = record[o].layers \cup record[o].skipped
              /\ record[o].presentation = views[o].presentation /\ record[o].binding = bindings[o]
              /\ \/ record[o].drawn # record[o].revision
                 \/ record[o].shows # record[o].binding
                 \/ record[o].picture = record[o].layers /\ record[o].stale = {}
        /\ Borrows(o) =>
             \/ views[o].pending \/ ~views[o].published \/ Dies(o)
             \/ record[o].family = FamilyGeometry(o, FALSE)
=============================================================================
