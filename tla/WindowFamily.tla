---------------------------- MODULE WindowFamily ----------------------------
(***************************************************************************)
(* Which windows belong to an application window, and what activating,     *)
(* blurring and inspecting it does to them (lorie/window_family.h,         *)
(* window_inspection_walk.h and their users in window_model.c).            *)
(*                                                                         *)
(* The window tree and the properties are chosen once: they are what the   *)
(* clients sent.  `order' lists the windows as a walk from lastChild along *)
(* prevSib meets them, a parent before its children, the lowest sibling    *)
(* first.  The master and slave devices are a sequence of grabs.           *)
(***************************************************************************)
EXTENDS Naturals, SequencesExt

CONSTANTS
    Owner,          \* the application window an output shows
    Companions,     \* the other windows
    RootWindow,
    NoWindow,
    LinkLimit,      \* 64 links are followed
    MemberLimit,    \* 256 windows are raised
    GrabDevices,    \* devices that can be grabbed, in the order of lorieWindowBlur()
    Structures      \* window trees, their properties and stacking, to consider

Everyone == {Owner} \cup Companions

ASSUME FamilyAssumption ==
    /\ Owner \notin Companions /\ {RootWindow, NoWindow} \cap Everyone = {} /\ RootWindow # NoWindow
    /\ IsFiniteSet(Companions)
    /\ LinkLimit \in Nat \ {0} /\ MemberLimit \in Nat \ {0}
    /\ GrabDevices \in Seq(STRING) /\ "keyboard" \in ToSet(GrabDevices)

\* A line goes from a window up, and what is above a window is its own line.
AreLines(upward) ==
    /\ upward \in [Everyone -> Seq(Everyone)]
    /\ \A w \in Everyone : upward[w] # <<>> /\ upward[w][1] = w
    /\ \A w \in Everyone : \A i \in 1..Len(upward[w]) :
         upward[upward[w][i]] = SubSeq(upward[w], i, Len(upward[w]))

\* A stacking has every window once, and from a window to one that lies in it
\* only what lies in it.
IsStacking(stack, upward) ==
    /\ stack \in Seq(Everyone) /\ ToSet(stack) = Everyone /\ IsInjective(stack)
    /\ \A i, k \in 1..Len(stack) : stack[i] \in ToSet(upward[stack[k]]) =>
         i <= k /\ \A j \in i..k : stack[i] \in ToSet(upward[stack[j]])

\* What the clients of an X server can make, around an owner at the top level.
ASSUME StructuresAssumption ==
    \A s \in Structures :
        /\ AreLines(s.lines) /\ s.lines[Owner] = <<Owner>>
        /\ s.transients \in [Everyone -> Everyone \cup {RootWindow, NoWindow}]
        /\ s.kinds \in [Everyone -> {"plain", "modal", "popup", "tooltip", "input"}]
        /\ s.leaders \subseteq Everyone
        /\ IsStacking(s.order, s.lines)

VARIABLES
    lines,          \* per window: itself and its ancestors below the root
    transients,     \* per window: WM_TRANSIENT_FOR
    kinds,          \* per window: "plain", "modal", "popup", "tooltip" or "input"
    leaders,        \* windows with the owner's WM_CLIENT_LEADER
    kin,            \* what lorieWindowFamilyContains() answers to these
    visible,        \* realized windows
    order,          \* stacking of the tree
    focus,          \* keyboard focus of the master
    grabs           \* per device: the grab window

familyVars == <<lines, transients, kinds, leaders, kin, visible, order, focus, grabs>>

structure == <<lines, transients, kinds, leaders, kin>>

OverrideRedirect(w) == kinds[w] \in {"popup", "tooltip"}

Parent(w) == IF Len(lines[w]) = 1 THEN RootWindow ELSE lines[w][2]

Lineage(w) == ToSet(lines[w])

TopLevel(w) == Last(lines[w])

Subtree(w) == {v \in Everyone : w \in Lineage(v)}

-----------------------------------------------------------------------------

\* mutant: the transient link of the outermost ancestor counts.
LinkOfOutermost(link, w) == IF transients[w] # NoWindow THEN transients[w] ELSE link

\* The nearest transient link of a walk that has `link' and comes to w.
Link(link, w) == IF link # NoWindow THEN link ELSE transients[w]

\* lorieWindowFamilyContains(): ancestry first, then the nearest transient
\* link of the line, and so on until the budget of links is spent.
lorieWindowFamilyContains(w, owner) ==
    LET walk[n \in 0..LinkLimit] ==
          IF n = 0 THEN [at |-> w, link |-> NoWindow, over |-> FALSE]
          ELSE LET s == walk[n - 1]
                   link == Link(s.link, s.at)
               IN  IF s.over \/ s.at = owner THEN [s EXCEPT !.over = TRUE]
                   ELSE IF Parent(s.at) # RootWindow THEN [s EXCEPT !.at = Parent(s.at), !.link = link]
                   ELSE IF link \in Everyone THEN [s EXCEPT !.at = link, !.link = NoWindow]
                   ELSE [s EXCEPT !.over = TRUE]
    IN  walk[LinkLimit].over /\ walk[LinkLimit].at = owner

lorieWindowBelongsTo(w, owner) == <<w, owner>> \in kin

\* Group transients and unparented popups follow the focus.
FollowsFocus(w, owner) ==
    /\ transients[w] \in {NoWindow, RootWindow}
    /\ OverrideRedirect(w) \/ kinds[w] = "modal"
    /\ w \in leaders /\ owner \in leaders

\* familyMember() in a state.
MemberAt(st, w, owner) ==
    \/ lorieWindowBelongsTo(w, owner)
    \/ FollowsFocus(w, owner) /\ lorieWindowBelongsTo(st.focus, owner)

Now == [visible |-> visible, grabs |-> grabs, focus |-> focus]

familyMember(w, owner) == MemberAt(Now, w, owner)

\* What of a sequence is in S, in its order.
Kept(seq, S) ==
    LET kept[n \in 0..Len(seq)] ==
          IF n = 0 THEN <<>>
          ELSE IF seq[n] \in S THEN Append(kept[n - 1], seq[n]) ELSE kept[n - 1]
    IN  kept[Len(seq)]

\* visitFamily(): the surfaces to compose, bottom to top.  The children of a
\* member are in its pixmap.
Visited(owner) ==
    LET composed(w) == /\ kinds[w] # "input" /\ familyMember(w, owner)
                       /\ \A v \in Lineage(w) \ {w} : ~familyMember(v, owner)
    IN  Kept(order, {w \in visible : composed(w)})

\* lorieWindowGrabPopup(): the popup of the family a grab window lies in.
lorieWindowGrabPopup(st, w, owner) ==
    LET popup(v) == v \in st.visible /\ OverrideRedirect(v) /\ MemberAt(st, v, owner)
        below == SelectInSeq(lines[w], LAMBDA v : v = owner)
        line == IF below = 0 THEN lines[w] ELSE SubSeq(lines[w], 1, below - 1)
        found == SelectInSeq(line, popup)
    IN  IF found = 0 THEN NoWindow ELSE line[found]

-----------------------------------------------------------------------------

\* raiseWindow() of the top-level window a member lies in.
Raised(stack, w) ==
    LET top == Subtree(TopLevel(w)) IN Kept(stack, Everyone \ top) \o Kept(stack, top)

\* mutant: the owner is added again where the walk meets it.
CollectedTwice(owner) == <<owner>> \o Visited(owner)

\* collectActivation(): the owner, then its transients back to front.
Collected(owner) == <<owner>> \o Kept(Visited(owner), Everyone \ {owner})

\* The loop of lorieWindowActivationApply().
Restacked(owner) ==
    LET members == Collected(owner)
        stack[n \in 0..Len(members)] ==
          IF n = 0 THEN order ELSE Raised(stack[n - 1], members[n])
    IN  stack[Len(members)]

\* The window lorieWindowActivationApply() names: the topmost modal member.
Target(owner) ==
    LET modal == Kept(Tail(Collected(owner)), {w \in Everyone : kinds[w] = "modal"})
    IN  IF modal = <<>> THEN owner ELSE Last(modal)

\* lorieWindowFocus(): a keyboard grab and a focus inside the family are left
\* alone, a family too large is not raised; WM_HINTS may refuse the focus.
lorieWindowFocus(owner) ==
    /\ owner \in visible
    /\ grabs["keyboard"] = NoWindow
    /\ ~lorieWindowBelongsTo(focus, owner)
    /\ Len(Collected(owner)) <= MemberLimit
    /\ order' = Restacked(owner)
    /\ focus' \in {focus, Target(owner)}
    /\ UNCHANGED <<structure, visible, grabs>>

\* UnmapWindow() of a popup: its subtree goes, and with it the grabs in it and
\* the focus, which reverts to the nearest visible ancestor or to nothing.
Unmapped(st, popup) ==
    LET gone == Subtree(popup)
        up == Parent(popup)
    IN  [visible |-> st.visible \ gone,
         grabs   |-> [d \in DOMAIN st.grabs |-> IF st.grabs[d] \in gone THEN NoWindow ELSE st.grabs[d]],
         focus   |-> IF st.focus \notin gone THEN st.focus ELSE IF up = RootWindow THEN NoWindow ELSE up]

\* mutant: any grab ends.
DeactivatedAll(st, device, owner) == [st EXCEPT !.grabs[device] = NoWindow]

\* The end of the loop in lorieWindowBlur(): a grab of the family is ended.
Deactivated(st, device, owner) ==
    IF st.grabs[device] # NoWindow /\ MemberAt(st, st.grabs[device], owner)
    THEN [st EXCEPT !.grabs[device] = NoWindow]
    ELSE st

\* One turn of the loop.
Loosened(st, device, owner) ==
    LET w == st.grabs[device]
        popup == IF w = NoWindow THEN NoWindow ELSE lorieWindowGrabPopup(st, w, owner)
    IN  Deactivated(IF popup # NoWindow /\ kinds[popup] # "tooltip" THEN Unmapped(st, popup) ELSE st,
                    device, owner)

\* lorieWindowBlur(): the grabs of the family end, then its focus.
lorieWindowBlur(owner) ==
    LET turn[n \in 0..Len(GrabDevices)] ==
          IF n = 0 THEN Now ELSE Loosened(turn[n - 1], GrabDevices[n], owner)
        end == turn[Len(GrabDevices)]
    IN  /\ visible' = end.visible /\ grabs' = end.grabs
        /\ focus' = IF lorieWindowBelongsTo(end.focus, owner) THEN NoWindow ELSE end.focus
        /\ UNCHANGED <<structure, order>>

-----------------------------------------------------------------------------

\* The links of the tree: the lowest child and the sibling above.
LastChild(w) == SelectInSeq(order, LAMBDA v : Parent(v) = w)

PrevSib(w) ==
    LET at == SelectInSeq(order, LAMBDA v : v = w)
    IN  SelectInSubSeq(order, at + 1, Len(order), LAMBDA v : Parent(v) = Parent(w))

\* mutant: the climb stops at the first ancestor.
FollowingNearby(w) ==
    IF LastChild(w) # 0 THEN order[LastChild(w)]
    ELSE IF PrevSib(w) # 0 THEN order[PrevSib(w)]
    ELSE NoWindow

\* Where the walk of lorieInspectFamily() goes after w.
Following(w) ==
    LET climb == SelectInSeq(lines[w], LAMBDA v : PrevSib(v) # 0)
    IN  IF LastChild(w) # 0 THEN order[LastChild(w)]
        ELSE IF climb # 0 THEN order[PrevSib(lines[w][climb])]
        ELSE NoWindow

lorieInspectMember(w, owner) == \E v \in Lineage(w) : familyMember(v, owner)

\* lorieInspectFamily(): the owner, then every other member, hidden ones too.
lorieInspectFamily(owner, limit) ==
    LET walk[n \in 0..Cardinality(Everyone)] ==
          IF n = 0 THEN [at |-> order[1], sent |-> <<owner>>, truncated |-> FALSE]
          ELSE LET s == walk[n - 1]
                   emit == s.at \in Everyone \ {owner} /\ lorieInspectMember(s.at, owner)
               IN  IF s.truncated \/ s.at = NoWindow THEN s
                   ELSE IF emit /\ Len(s.sent) = limit THEN [s EXCEPT !.truncated = TRUE]
                   ELSE [s EXCEPT !.at = Following(s.at),
                                  !.sent = IF emit THEN Append(@, s.at) ELSE @]
    IN  walk[Cardinality(Everyone)]

-----------------------------------------------------------------------------

FamilyInit ==
    /\ \E s \in Structures :
         /\ lines = s.lines /\ transients = s.transients /\ kinds = s.kinds
         /\ leaders = s.leaders /\ order = s.order
    /\ kin = {p \in Everyone \X Everyone : lorieWindowFamilyContains(p[1], p[2])}
    /\ visible \in {{}, Everyone}
    /\ focus \in visible \cup {NoWindow}
    /\ grabs = [d \in ToSet(GrabDevices) |-> NoWindow]

\* A client grabs a device for a window of its own.
ClientGrab(d, w) ==
    /\ w \in visible /\ grabs[d] = NoWindow
    /\ grabs' = [grabs EXCEPT ![d] = w]
    /\ UNCHANGED <<structure, visible, order, focus>>

FamilyNext ==
    \/ lorieWindowFocus(Owner) \/ lorieWindowBlur(Owner)
    \/ \E d \in ToSet(GrabDevices), w \in Companions : ClientGrab(d, w)

FamilySpec == FamilyInit /\ [][FamilyNext]_familyVars

-----------------------------------------------------------------------------

\* The nearest transient link of the line of v.
Nearest(v) ==
    LET i == SelectInSeq(lines[v], LAMBDA u : transients[u] # NoWindow)
    IN  IF i = 0 THEN NoWindow ELSE transients[lines[v][i]]

\* The windows whose lines transient links lead to from w.
Stations(w) ==
    LET hop[n \in 0..Cardinality(Everyone)] ==
          IF n = 0 THEN {w}
          ELSE hop[n - 1] \cup ({Nearest(v) : v \in hop[n - 1]} \cap Everyone)
    IN  hop[Cardinality(Everyone)]

\* The links a walk may follow are enough to go up the line of every window.
WalkBudget ==
    \E depth \in 1..LinkLimit :
        /\ Cardinality(Everyone) * depth <= LinkLimit
        /\ \A s \in Structures, w \in Everyone : Len(s.lines[w]) <= depth

\* window_family.h:35 "client-supplied transient chains can contain cycles":
\* the bounded walk answers as the unbounded relation would, whatever cycles
\* the clients made; and the inspection, which follows the links of the tree
\* itself, reports the owner first, every member once, none besides, and says
\* when it left some out.  The owner is on display.
WalksAreExact ==
    Owner \in visible =>
        /\ \A w, v \in Everyone :
             lorieWindowBelongsTo(w, v) <=> \E s \in Stations(w) : v \in Lineage(s)
        /\ LET all == {w \in Everyone : lorieInspectMember(w, Owner)}
           IN  \A limit \in 1..Cardinality(Everyone) :
                 LET r == lorieInspectFamily(Owner, limit)
                 IN  /\ Head(r.sent) = Owner /\ IsInjective(r.sent) /\ ToSet(r.sent) \subseteq all
                     /\ r.truncated <=> ToSet(r.sent) # all
                     /\ r.truncated => Len(r.sent) = limit

\* The position of a window in a stacking.
Place(stack, w) == CHOOSE i \in 1..Len(stack) : stack[i] = w

\* window_family.h:5 "Collect before restacking": activation puts the family
\* above every other top-level window, its transients above the owner and in
\* the order they had, and the focus goes to the owner or to its topmost modal
\* transient.
ActivationIsOrderly ==
    [][lorieWindowFocus(Owner) =>
        LET family == Visited(Owner)
            tops == {TopLevel(w) : w \in ToSet(family)}
            below(v, w) == Place(order', v) < Place(order', w)
        IN  /\ \A v \in Everyone, t \in tops : Parent(v) = RootWindow /\ v \notin tops => below(v, t)
            /\ \A w \in ToSet(family) : TopLevel(w) # Owner => below(Owner, w)
            /\ \A i, j \in 1..Len(family) : i < j /\ family[i] # Owner /\ family[j] # Owner
                   => TopLevel(family[i]) = TopLevel(family[j]) \/ below(family[i], family[j])
            /\ focus' # focus =>
                 \/ focus' = Owner /\ \A w \in ToSet(family) : kinds[w] # "modal"
                 \/ /\ kinds[focus'] = "modal"
                    /\ \A w \in ToSet(family) : kinds[w] = "modal" => ~below(focus', w)]_familyVars

\* window_model.c:631 "An Android focus loss ends this shell family's grabs,
\* never a different client's grab": a grab ends if it was the family's or lay
\* in one of its popups, and only then; afterwards the focus is not the family's.
\* The exception: who belongs by the focus alone is judged anew by every turn of
\* the loop, and an earlier one may have unmapped a popup that had the focus.
BlurEndsFamilyGrabs ==
    [][lorieWindowBlur(Owner) =>
        /\ \A d \in DOMAIN grabs :
             LET w == grabs[d]
             IN  w # NoWindow =>
                 /\ grabs'[d] = NoWindow \/ grabs'[d] = w
                 /\ grabs'[d] = NoWindow =>
                      \/ familyMember(w, Owner) \/ lorieWindowGrabPopup(Now, w, Owner) # NoWindow
                      \/ focus \in visible \ visible' /\ \E v \in Lineage(w) : FollowsFocus(v, Owner)
                 /\ familyMember(w, Owner) =>
                      \/ grabs'[d] = NoWindow
                      \/ ~lorieWindowBelongsTo(w, Owner) /\ focus \in visible \ visible'
        /\ ~lorieWindowBelongsTo(focus', Owner)
        /\ \A w \in visible \ visible' : w # Owner]_familyVars
=============================================================================
