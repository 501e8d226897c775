----------------------------- MODULE MCDesktop -----------------------------
(***************************************************************************)
(* Components of the server's event loop that share no state, in one run:  *)
(* the initial state says which of them moves, the others keep their first *)
(* state.                                                                  *)
(***************************************************************************)
EXTENDS ResourceChannel, DirectInput, WindowPlacement, WindowFamily, RedrawEvents, OutputFrames

CONSTANTS o1, o2, w2, w3

VARIABLE part

desktopVars == <<part, channelVars, directVars, placementVars, familyVars, redrawVars, frameVars>>

Parts == {"channel", "direct", "placement", "family", "shell", "cursor", "vblank", "frames"}

-----------------------------------------------------------------------------
\* Values of the constants.

MCPositions == {-1, 2}

MCDevices == <<"keyboard", "pointer">>

MCPointers == {<<o1, 1>>, <<o1, 2>>}

\* A window, its dependents, its popup and the screen.
MCBindings == {<<o1, "app", NoView>>, <<o2, "app", o1>>, <<o2, "popup", NoView>>, <<o2, "screen", NoView>>}

\* Window trees with the owner at the top level.
Trees == {f \in [Everyone -> Everyone \cup {RootWindow}] :
            /\ f[Owner] = RootWindow /\ f[w2] # w2 /\ f[w3] # w3
            /\ ~(f[w2] = w3 /\ f[w3] = w2)}

LineIn(f, w) ==
    LET up(v) == IF v = RootWindow THEN <<>> ELSE <<v>>
        first == f[w]
        second == IF first = RootWindow THEN RootWindow ELSE f[first]
    IN  <<w>> \o up(first) \o up(second)

\* The owner is the highest window of the top level.
Stack(f) ==
    CASE f[w2] = w3 -> IF f[w3] = Owner THEN <<Owner, w3, w2>> ELSE <<w3, w2, Owner>>
      [] f[w3] = w2 -> IF f[w2] = Owner THEN <<Owner, w2, w3>> ELSE <<w2, w3, Owner>>
      [] f[w2] = Owner /\ f[w3] = Owner -> <<Owner, w2, w3>>
      [] f[w2] = Owner /\ f[w3] = RootWindow -> <<w3, Owner, w2>>
      [] f[w3] = Owner /\ f[w2] = RootWindow -> <<w2, Owner, w3>>
      [] OTHER -> <<w2, w3, Owner>>

\* Transient links: chains, cycles and none.
Links == {t \in [Everyone -> Everyone \cup {NoWindow}] :
            t[Owner] \in {NoWindow, w3} /\ t[w2] # w2 /\ t[w3] # w3}

MCKinds == {k \in [Everyone -> {"plain", "modal", "popup", "tooltip", "input"}] :
              /\ k[Owner] = "plain"
              /\ k[w2] \in {"plain", "modal", "input", "popup"}
              /\ k[w3] \in {"popup", "tooltip", "modal"}}

\* A client leader matters to windows without a transient link.
MCStructures ==
    {[lines |-> [w \in Everyone |-> LineIn(f, w)], transients |-> t, kinds |-> k,
      leaders |-> g, order |-> Stack(f)] :
        f \in Trees, k \in MCKinds,
        <<t, g>> \in {p \in Links \X {{}, Everyone} : p[2] # {} => NoWindow \in {p[1][w2], p[1][w3]}}}

\* Nine links go up the lines of three windows.
ASSUME BudgetSuffices == WalkBudget

-----------------------------------------------------------------------------

\* A part that does not move has one first state.
Pinned ==
    /\ part # "placement" => mainWindow = [x |-> 2, extent |-> 1]
    /\ visible = IF part = "family" THEN Everyone ELSE {}
    /\ part # "family" =>
         /\ focus = NoWindow /\ transients = [w \in Everyone |-> NoWindow] /\ leaders = {}
         /\ kinds = [w \in Everyone |-> IF w = w3 THEN "popup" ELSE "plain"]
         /\ lines = [w \in Everyone |-> <<w>>]

DesktopInit ==
    /\ part \in Parts
    /\ ChannelInit /\ DirectInit /\ PlacementInit /\ FamilyInit /\ RedrawInit /\ FramesInit
    /\ Pinned

Redraw(p) == part = p /\ (RedrawStep \/ GoOffline \/ GoOnline)

RedrawPart ==
    \/ part = "shell" /\ ShellNext
    \/ part = "cursor" /\ (lorieCursorSet \/ SelectCursor)
    \/ part = "vblank" /\ VblankNext
    \/ \E p \in {"shell", "cursor", "vblank"} : Redraw(p)

DesktopNext ==
    /\ \/ /\ part = "channel" /\ ChannelNext
          /\ UNCHANGED <<directVars, placementVars, familyVars, redrawVars, frameVars>>
       \/ /\ part = "direct" /\ DirectNext
          /\ UNCHANGED <<channelVars, placementVars, familyVars, redrawVars, frameVars>>
       \/ /\ part = "placement" /\ PlacementNext
          /\ UNCHANGED <<channelVars, directVars, familyVars, redrawVars, frameVars>>
       \/ /\ part = "family" /\ FamilyNext
          /\ UNCHANGED <<channelVars, directVars, placementVars, redrawVars, frameVars>>
       \/ /\ RedrawPart
          /\ UNCHANGED <<channelVars, directVars, placementVars, familyVars, frameVars>>
       \/ /\ part = "frames" /\ FramesNext
          /\ UNCHANGED <<channelVars, directVars, placementVars, familyVars, redrawVars>>
    /\ UNCHANGED part

DesktopSpec == DesktopInit /\ [][DesktopNext]_desktopVars /\ ChannelFairness
=============================================================================
