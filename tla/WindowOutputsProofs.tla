------------------------ MODULE WindowOutputsProofs ------------------------
(***************************************************************************)
(* Two components, each for any value of its constants.                    *)
(*                                                                         *)
(* Outputs (Init, Next and Spec are their own): the safety properties of   *)
(* WindowOutputs, for any outputs, windows, keys and buttons.              *)
(*                                                                         *)
(* Families: the properties of WindowFamily, for any windows, trees,       *)
(* transient links, stackings and grab devices.  FamilyInv says that the   *)
(* structure stays and that the stacking is that of a tree.  The loops of  *)
(* the model are recursive functions; that one has the values its equation *)
(* gives is lemma Turns, and what they compute is proved turn by turn with *)
(* lemma Counting.                                                         *)
(***************************************************************************)
EXTENDS WindowOutputs, WindowFamily, FiniteSetTheorems, SequenceTheorems, WellFoundedInduction, TLAPS

\* The list links every bound output once.
ListIsExact ==
    /\ \A o \in Outputs : Bound(o) <=> \E k \in DOMAIN selections : selections[k] = o
    /\ \A j, k \in DOMAIN selections : selections[j] = selections[k] => j = k

LiveIn(f, o) == f[o].window # None /\ ~f[o].dead

\* A window has at most one size owner, a dead one included, which has a size
\* and borrows nothing.
OwnersAreApart(f) ==
    /\ \A o \in Outputs : f[o].ownsSize =>
         f[o].window \in Windows /\ f[o].sized /\ ~borrowed(f[o])
    /\ \A o, p \in Outputs :
         f[o].ownsSize /\ f[p].ownsSize /\ f[o].window = f[p].window => o = p

\* A window with a live view that has a size has a live owner.
SizedViewsHaveOwner(f) ==
    \A v \in Outputs : LiveIn(f, v) /\ ~borrowed(f[v]) /\ f[v].sized /\ f[v].window # Root =>
        \E o \in Outputs : LiveIn(f, o) /\ f[o].ownsSize /\ f[o].window = f[v].window

\* BorrowsAreSound, of the selections f.
BorrowsAreSoundIn(f) ==
    \A c \in Outputs : LiveIn(f, c) /\ f[c].parent # None =>
        /\ f[c].parent \in Outputs /\ LiveIn(f, f[c].parent) /\ ~borrowed(f[f[c].parent])
        /\ f[f[c].parent].window = f[c].window
        /\ \A d \in Outputs \ {c} : ~(LiveIn(f, d) /\ f[d].parent = f[c].parent)

\* The terms on which the outputs share windows, in any selections f: those of
\* a state, or those between the two halves of a binding.
TermsOf(f) == OwnersAreApart(f) /\ SizedViewsHaveOwner(f) /\ BorrowsAreSoundIn(f)

\* What input steps can disturb.
InputInv == LeasesMatchDevice /\ HoldersHaveWindows /\ NoFreedOutputIsUsed

\* What only steps of the life cycle can disturb.
TermsInv == ListIsExact /\ TermsOf(out)

\* The inductive invariant.
OutputsInv == TypeOK /\ InputInv /\ TermsInv

-----------------------------------------------------------------------------
\* Types.

\* A selection whose held set alone changed, or whose liveness did.
LEMMA SelectionFacts ==
    ASSUME NEW s \in Selection, NEW H \in SUBSET Inputs, NEW d \in BOOLEAN
    PROVE  /\ [s EXCEPT !.held = H] \in Selection
           /\ [s EXCEPT !.held = H, !.dead = d] \in Selection
BY DEF Selection

\* window_outputs.c:81-88, on the types.
LEMMA ReleaseInputType ==
    ASSUME TypeOK, NEW S \in SUBSET Outputs, releaseInput(S)
    PROVE  /\ down' \in SUBSET Inputs /\ direct' \in SUBSET Outputs
           /\ pointer' \in Outputs \cup {None}
BY DEF TypeOK, releaseInput

\* Selections that lose their window are selections.
LEMMA EmptiedType ==
    ASSUME TypeOK, NEW S \in SUBSET Outputs
    PROVE  Emptied(S) \in [Outputs -> Selection]
BY SelectionFacts DEF TypeOK, Emptied

\* Selections after a release are selections.
LEMMA ReleasedType ==
    ASSUME TypeOK, NEW o \in Outputs
    PROVE  Released(o) \in [Outputs -> Selection]
<1>1. Unbound \in Selection BY DEF Unbound, Selection
<1>2. ASSUME NEW p \in Outputs, NEW d \in BOOLEAN, NEW w \in BOOLEAN
      PROVE  [out[p] EXCEPT !.dead = d, !.ownsSize = w] \in Selection
  <2>1. out[p] \in Selection BY DEF TypeOK
  <2> QED BY <2>1 DEF Selection
<1>3. \A p \in Outputs : /\ (out[p].dead \/ out[p].parent = o) \in BOOLEAN
                         /\ (out[p].ownsSize \/ (out[o].ownsSize /\ FirstHeir(o, p))) \in BOOLEAN
  BY DEF TypeOK, Selection
<1> QED BY <1>1, <1>2, <1>3 DEF Released

\* Unlinking o, which the list holds once.
LEMMA UnlinkedFacts ==
    ASSUME TypeOK, ListIsExact, NEW o \in Outputs, Bound(o)
    PROVE  /\ Unlinked(o) \in Seq(Outputs)
           /\ \A p \in Outputs : (\E k \in DOMAIN Unlinked(o) : Unlinked(o)[k] = p) <=> Bound(p) /\ p # o
           /\ \A j, k \in DOMAIN Unlinked(o) : Unlinked(o)[j] = Unlinked(o)[k] => j = k
<1> DEFINE n == Len(selections)
           link == CHOOSE k \in DOMAIN selections : selections[k] = o
           U == Unlinked(o)
<1>1. n \in Nat /\ DOMAIN selections = 1..n /\ \A k \in 1..n : selections[k] \in Outputs
  BY DEF TypeOK
<1>2. link \in 1..n /\ selections[link] = o BY <1>1 DEF ListIsExact
<1>3. U = [k \in 1..(n - 1) |-> IF k < link THEN selections[k] ELSE selections[k + 1]]
  BY DEF Unlinked
<1> HIDE DEF link, U
<1>4. n - 1 \in Nat /\ \A k \in 1..(n - 1) : k \in 1..n /\ k + 1 \in 1..n BY <1>1, <1>2
<1>5. U \in [1..(n - 1) -> Outputs] BY <1>1, <1>3, <1>4
<1>6. U \in Seq(Outputs) /\ DOMAIN U = 1..(n - 1) BY <1>4, <1>5
<1> DEFINE old(k) == IF k < link THEN k ELSE k + 1
<1>7. \A k \in 1..(n - 1) : old(k) \in 1..n /\ old(k) # link /\ U[k] = selections[old(k)]
  BY <1>2, <1>3, <1>4
<1>8. \A j, k \in 1..(n - 1) : old(j) = old(k) => j = k BY <1>2
<1>9. \A m \in 1..n : m # link => \E k \in 1..(n - 1) : old(k) = m
  <2> TAKE m \in 1..n
  <2>1. CASE m < link
    <3>1. m \in 1..(n - 1) /\ old(m) = m BY <1>1, <1>2, <2>1
    <3> QED BY <3>1
  <2>2. CASE m > link
    <3>1. m - 1 \in 1..(n - 1) /\ old(m - 1) = m BY <1>1, <1>2, <2>2
    <3> QED BY <3>1
  <2> QED BY <1>1, <1>2, <2>1, <2>2
<1> HIDE DEF old, n
<1>10. \A j, k \in 1..n : selections[j] = selections[k] => j = k BY <1>1 DEF ListIsExact
<1>11. \A j, k \in DOMAIN U : U[j] = U[k] => j = k BY <1>6, <1>7, <1>8, <1>10
<1>12. ASSUME NEW p \in Outputs
       PROVE  (\E k \in DOMAIN U : U[k] = p) <=> Bound(p) /\ p # o
  <2>1. ASSUME NEW k \in DOMAIN U, U[k] = p PROVE Bound(p) /\ p # o
    <3>1. old(k) \in 1..n /\ old(k) # link /\ selections[old(k)] = p BY <1>6, <1>7, <2>1
    <3> QED BY <1>1, <1>2, <1>10, <3>1 DEF ListIsExact
  <2>2. ASSUME Bound(p), p # o PROVE \E k \in DOMAIN U : U[k] = p
    <3>1. PICK m \in 1..n : selections[m] = p BY <1>1, <2>2 DEF ListIsExact
    <3>2. m # link BY <1>2, <2>2, <3>1
    <3>3. PICK k \in 1..(n - 1) : old(k) = m BY <1>9, <3>2
    <3> QED BY <1>6, <1>7, <3>1, <3>3
  <2> QED BY <2>1, <2>2
<1> QED BY <1>6, <1>11, <1>12 DEF U

\* Every step keeps the types.
LEMMA TypeStep == OutputsInv /\ [Next]_vars => TypeOK'
<1> SUFFICES ASSUME OutputsInv, [Next]_vars PROVE TypeOK'
  OBVIOUS
<1> USE OutputsAssumption
<1>0. TypeOK /\ ListIsExact /\ NoFreedOutputIsUsed BY DEF OutputsInv, InputInv, TermsInv
<1> USE <1>0
<1>1. ASSUME NEW o \in Outputs, Release(o) PROVE TypeOK'
  BY <1>1, UnlinkedFacts, ReleasedType, ReleaseInputType DEF Release, lorieCursorRelease, TypeOK
<1>2. ASSUME NEW o \in Outputs, NEW w \in Windows \cup {Root}, NEW d \in 0..2,
             NEW p \in Outputs \cup {None}, Bind(o, w, d, p)
      PROVE  TypeOK'
  <2> DEFINE f == IF Bound(o) THEN Released(o) ELSE out
             s == [Unbound EXCEPT !.window = w, !.shell = d = 1, !.parent = p]
  <2>1. f \in [Outputs -> Selection] BY ReleasedType DEF TypeOK
  <2>2. s \in Selection BY DEF Unbound, Selection
  <2>3. out' = f \/ out' = [f EXCEPT ![o] = s] BY <1>2 DEF Bind
  <2> HIDE DEF f, s
  <2>4. out' \in [Outputs -> Selection] BY <2>1, <2>2, <2>3
  <2>5. \/ selections' = selections \/ selections' = Append(selections, o)
        \/ Bound(o) /\ selections' = Unlinked(o)
    <3> DEFINE ok == MayBind(f, o, w, d, p)
    <3>1. selections' = CASE ok /\ ~Bound(o) -> Append(selections, o)
                          [] ~ok /\ Bound(o) -> Unlinked(o)
                          [] OTHER           -> selections
      BY <1>2 DEF Bind, f
    <3> HIDE DEF ok
    <3> QED BY <3>1
  <2>6. selections' \in Seq(Outputs)
    <3>1. Bound(o) => Unlinked(o) \in Seq(Outputs) BY UnlinkedFacts
    <3>2. Append(selections, o) \in Seq(Outputs) /\ selections \in Seq(Outputs) BY DEF TypeOK
    <3> QED BY <2>5, <3>1, <3>2
  <2>7. releaseInput({o}) BY <1>2 DEF Bind
  <2> QED BY <1>2, <2>4, <2>6, <2>7, ReleaseInputType DEF Bind, lorieCursorRelease, TypeOK
<1>3. ASSUME NEW o \in Outputs, ShellRevoked(o) PROVE TypeOK'
  <2> DEFINE e == Emptied({o})
  <2>1. e \in [Outputs -> Selection] BY EmptiedType
  <2>2. out' = [e EXCEPT ![o].dead = TRUE] BY <1>3 DEF ShellRevoked
  <2> HIDE DEF e
  <2>3. [e[o] EXCEPT !.dead = TRUE] \in Selection BY <2>1 DEF Selection
  <2>4. out' \in [Outputs -> Selection] BY <2>1, <2>2, <2>3
  <2> QED BY <1>3, <2>4, ReleaseInputType DEF ShellRevoked, TypeOK
<1>4. ASSUME NEW o \in Outputs, Resize(o) PROVE TypeOK'
  <2>1. Resized(o) \in [Outputs -> Selection]
    <3>1. \A p \in Outputs : out[p] \in Selection BY DEF TypeOK
    <3>2. \A s \in Selection : \A b \in BOOLEAN :
            [s EXCEPT !.sized = TRUE, !.ownsSize = b] \in Selection /\ [s EXCEPT !.ownsSize = FALSE] \in Selection
      BY DEF Selection
    <3>3. (out[o].window # Root) \in BOOLEAN OBVIOUS
    <3> QED BY <3>1, <3>2, <3>3 DEF Resized
  <2> QED BY <1>4, <2>1 DEF Resize, TypeOK
<1>5. ASSUME NEW w \in Windows, WindowDestroyed(w) PROVE TypeOK'
  <2> DEFINE S == DestroyedOutputs(w)
  <2>1. S \in SUBSET Outputs /\ releaseInput(S) BY <1>5 DEF WindowDestroyed, DestroyedOutputs
  <2>2. out' \in [Outputs -> Selection] BY <1>5, SelectionFacts DEF WindowDestroyed, TypeOK
  <2> QED BY <1>5, <2>1, <2>2, ReleaseInputType DEF WindowDestroyed, lorieCursorRelease, TypeOK
<1>6. ASSUME NEW w \in Windows, WindowCreated(w) \/ ShellAdmits(w) \/ ShellDrops(w) PROVE TypeOK'
  BY <1>6 DEF WindowCreated, ShellAdmits, ShellDrops, TypeOK
<1>7. CASE ResetOutputs
  <2>1. Unbound \in Selection BY DEF Unbound, Selection
  <2> QED BY <1>7, <2>1, ReleaseInputType DEF ResetOutputs, TypeOK
<1>8. ASSUME NEW o \in Outputs, NEW i \in Inputs, Hold(o, i) \/ LetGo(o, i)
      PROVE  out' \in [Outputs -> Selection] /\ down' \in SUBSET Inputs
  <2>1. out[o].held \cup {i} \in SUBSET Inputs /\ out[o].held \ {i} \in SUBSET Inputs
    BY DEF TypeOK, Selection
  <2>2. \A H \in SUBSET Inputs : [out EXCEPT ![o].held = H] \in [Outputs -> Selection]
    BY SelectionFacts DEF TypeOK
  <2>3. out' \in [Outputs -> Selection]
    <3>1. \/ out' = [out EXCEPT ![o].held = out[o].held \cup {i}]
          \/ out' = [out EXCEPT ![o].held = out[o].held \ {i}]
      BY <1>8 DEF Hold, LetGo
    <3> QED BY <2>1, <2>2, <3>1
  <2>4. down' \in SUBSET Inputs
    <3>1. down' \in {down, down \cup {i}, down \ {i}} BY <1>8 DEF Hold, LetGo
    <3> QED BY <3>1 DEF TypeOK
  <2> QED BY <2>3, <2>4
<1>9. ASSUME NEW o \in Outputs, NEW k \in Keys, NEW pressed \in BOOLEAN, Key(o, k, pressed) PROVE TypeOK'
  BY <1>8, <1>9 DEF Key, TypeOK, Inputs
<1>10. ASSUME NEW o \in Outputs, NEW b \in Buttons, NEW pressed \in BOOLEAN, Pointer(o, b, pressed)
       PROVE  TypeOK'
  <2>1. out' \in [Outputs -> Selection] /\ down' \in SUBSET Inputs
    BY <1>8, <1>10 DEF Pointer, Inputs
  <2>2. pointer' \in Outputs \cup {None} BY <1>10 DEF Pointer, lorieDataPointer, TypeOK
  <2> QED BY <1>10, <2>1, <2>2 DEF Pointer, TypeOK
<1>11. ASSUME NEW o \in Outputs, Motion(o) PROVE TypeOK'
  BY <1>11 DEF Motion, TypeOK
<1>12. ASSUME NEW o \in Outputs, NEW pressed \in BOOLEAN, NEW taken \in SUBSET (direct \ {o}),
              DirectInput(o, pressed, taken)
       PROVE  TypeOK'
  BY <1>12 DEF DirectInput, lorieDataPointer, TypeOK
<1>13. ASSUME NEW o \in Outputs, CancelContacts(o) PROVE TypeOK'
  BY <1>13 DEF CancelContacts, lorieDataPointer, TypeOK
<1>14. ASSUME NEW o \in Outputs, Blur(o) PROVE TypeOK'
  BY <1>14, EmptiedType, ReleaseInputType DEF Blur, TypeOK
<1>15. ASSUME NEW o \in Outputs, NEW k \in Keys, Text(o, k) PROVE TypeOK'
  BY <1>15 DEF Text, TypeOK
<1>16. CASE BeginExport
  <2>1. pointer \in Outputs BY <1>16 DEF BeginExport, TypeOK
  <2>2. out[pointer].window # None BY <2>1 DEF NoFreedOutputIsUsed, Bound
  <2>3. out[pointer].window \in Windows \cup {Root} BY <2>1, <2>2 DEF TypeOK, Selection
  <2> QED BY <1>16, <2>1, <2>3 DEF BeginExport, TypeOK
<1>17. ASSUME exported # None, lorieReleaseOutputButton(exported[1], exported[2])
       PROVE  /\ out' \in [Outputs -> Selection] /\ down' \in SUBSET Inputs
              /\ direct' \in SUBSET Outputs
  <2>1. exported[1] \in Outputs BY <1>17 DEF TypeOK
  <2> QED BY <1>8, <1>17, <2>1 DEF lorieReleaseOutputButton, TypeOK, Inputs
<1>18. CASE EndExport BY <1>17, <1>18 DEF EndExport, TypeOK
<1>19. CASE DataReset BY <1>17, <1>19 DEF DataReset, TypeOK
<1>20. CASE CloseInput BY <1>20, EmptiedType, ReleaseInputType DEF CloseInput, TypeOK
<1>21. CASE UNCHANGED vars BY <1>21 DEF vars, TypeOK
<1>22. CASE Lifecycle BY <1>1, <1>2, <1>3, <1>4, <1>5, <1>6, <1>7, <1>22 DEF Lifecycle
<1>23. CASE Input
  BY <1>9, <1>10, <1>11, <1>12, <1>13, <1>14, <1>15, <1>16, <1>18, <1>19, <1>20, <1>23 DEF Input
<1> QED BY <1>21, <1>22, <1>23 DEF Next

-----------------------------------------------------------------------------
\* Input.

\* window_outputs.c:81-88: what several outputs let go of together is released
\* on the devices unless another output holds it.
LEMMA ReleaseInputLeases ==
    ASSUME LeasesMatchDevice, NEW S \in SUBSET Outputs, releaseInput(S),
           \A o \in S : out'[o].held = {},
           \A o \in Outputs \ S : out'[o].held = out[o].held
    PROVE  LeasesMatchDevice'
<1>1. down' = down \ LastHeldBy(S) BY DEF releaseInput
<1>2. ASSUME NEW i \in down' PROVE Leased(i)'
  <2>1. i \in down /\ i \notin LastHeldBy(S) BY <1>1
  <2>2. PICK o \in Outputs : i \in out[o].held BY <2>1 DEF LeasesMatchDevice, Leased
  <2>3. CASE o \in S
    <3>1. i \in UNION {out[p].held : p \in S} BY <2>2, <2>3
    <3>2. PICK p \in Outputs \ S : i \in out[p].held BY <2>1, <3>1 DEF LastHeldBy
    <3> QED BY <3>2 DEF Leased
  <2>4. CASE o \notin S BY <2>2, <2>4 DEF Leased
  <2> QED BY <2>3, <2>4
<1>3. ASSUME NEW b \in Buttons, Leased(b)' PROVE b \in down'
  <2>1. PICK o \in Outputs : b \in out'[o].held BY <1>3 DEF Leased
  <2>2. o \notin S /\ b \in out[o].held BY <2>1
  <2>3. b \in down BY <2>2 DEF LeasesMatchDevice, Leased
  <2>4. b \notin LastHeldBy(S) BY <2>2 DEF LastHeldBy
  <2> QED BY <1>1, <2>3, <2>4
<1> QED BY <1>2, <1>3 DEF LeasesMatchDevice

\* window_outputs.c:61-79: one output presses or lets go.
LEMMA HoldLeases ==
    ASSUME TypeOK, LeasesMatchDevice, NEW o \in Outputs, NEW i \in Inputs, Hold(o, i)
    PROVE  LeasesMatchDevice'
<1>1. /\ out'[o].held = out[o].held \cup {i}
      /\ \A p \in Outputs \ {o} : out'[p] = out[p]
  BY DEF Hold, TypeOK, Selection
<1>2. ASSUME NEW j \in down' PROVE Leased(j)'
  <2>1. CASE j \in down
    <3>1. PICK p \in Outputs : j \in out[p].held BY <2>1 DEF LeasesMatchDevice, Leased
    <3> QED BY <1>1, <3>1 DEF Leased
  <2>2. CASE j \notin down
    <3>1. j = i BY <2>2 DEF Hold
    <3> QED BY <1>1, <3>1 DEF Leased
  <2> QED BY <2>1, <2>2
<1>3. ASSUME NEW b \in Buttons, Leased(b)' PROVE b \in down'
  <2>1. down \subseteq down' BY DEF Hold
  <2>2. CASE Leased(b) BY <2>1, <2>2 DEF LeasesMatchDevice
  <2>3. CASE ~Leased(b)
    <3>1. b = i BY <1>1, <1>3, <2>3 DEF Leased
    <3> QED BY <2>3, <3>1 DEF Hold, Leased, OthersHold
  <2> QED BY <2>2, <2>3
<1> QED BY <1>2, <1>3 DEF LeasesMatchDevice

\* Letting go of an input keeps leases and device in step.
LEMMA LetGoLeases ==
    ASSUME TypeOK, LeasesMatchDevice, NEW o \in Outputs, NEW i \in Inputs, LetGo(o, i)
    PROVE  LeasesMatchDevice'
<1>1. /\ out'[o].held = out[o].held \ {i}
      /\ \A p \in Outputs \ {o} : out'[p] = out[p]
  BY DEF LetGo, TypeOK, Selection
<1>2. ASSUME NEW j \in down' PROVE Leased(j)'
  <2>1. j \in down BY DEF LetGo
  <2>2. PICK p \in Outputs : j \in out[p].held BY <2>1 DEF LeasesMatchDevice, Leased
  <2>3. CASE p # o BY <1>1, <2>2, <2>3 DEF Leased
  <2>4. CASE p = o /\ j # i BY <1>1, <2>2, <2>4 DEF Leased
  <2>5. CASE p = o /\ j = i
    <3>1. OthersHold(o, i) BY <2>2, <2>5 DEF LetGo
    <3> QED BY <1>1, <2>5, <3>1 DEF OthersHold, Leased
  <2> QED BY <2>3, <2>4, <2>5
<1>3. ASSUME NEW b \in Buttons, Leased(b)' PROVE b \in down'
  <2>1. PICK p \in Outputs : b \in out'[p].held BY <1>3 DEF Leased
  <2>2. b \in out[p].held BY <1>1, <2>1
  <2>3. b \in down BY <2>2 DEF LeasesMatchDevice, Leased
  <2>4. b = i => p # o /\ OthersHold(o, i) BY <1>1, <2>1, <2>2 DEF OthersHold
  <2> QED BY <2>3, <2>4 DEF LetGo
<1> QED BY <1>2, <1>3 DEF LeasesMatchDevice

\* Whoever holds input holds no more than before and for the same window.
LEMMA HoldersKept ==
    ASSUME HoldersHaveWindows, windows \subseteq windows',
           \A o \in Outputs : out'[o].held # {} => out[o].held # {} /\ out'[o].window = out[o].window
    PROVE  HoldersHaveWindows'
BY DEF HoldersHaveWindows, Exists

\* Nothing refers to an output that was not referred to, and the unbound ones
\* are as they were.
LEMMA FreedKept ==
    ASSUME NoFreedOutputIsUsed,
           \A o \in Outputs : ~Bound(o)' => out'[o] = out[o],
           \A o \in Outputs : ~Bound(o)' /\ pointer' = o => pointer = o,
           \A o \in Outputs : ~Bound(o)' /\ cursor' = o => cursor = o,
           \A o \in Outputs : ~Bound(o)' /\ o \in direct' => o \in direct
    PROVE  NoFreedOutputIsUsed'
<1> SUFFICES ASSUME NEW o \in Outputs, ~Bound(o)'
             PROVE  o # pointer' /\ o # cursor' /\ o \notin direct' /\ out'[o] = Unbound
  BY DEF NoFreedOutputIsUsed
<1>1. ~Bound(o) BY DEF Bound
<1> QED BY <1>1 DEF NoFreedOutputIsUsed

\* The selections with nothing held by S.
LEMMA EmptiedFacts ==
    ASSUME TypeOK, NEW S \in SUBSET Outputs
    PROVE  \A o \in Outputs :
             /\ o \in S => Emptied(S)[o].held = {}
             /\ o \notin S => Emptied(S)[o] = out[o]
             /\ Emptied(S)[o].window = out[o].window /\ Emptied(S)[o].dead = out[o].dead
             /\ Emptied(S)[o].shell = out[o].shell /\ Emptied(S)[o].parent = out[o].parent
             /\ Emptied(S)[o].sized = out[o].sized /\ Emptied(S)[o].ownsSize = out[o].ownsSize
BY DEF Emptied, TypeOK, Selection

\* The selections without o, field by field.
LEMMA ReleasedFacts ==
    ASSUME TypeOK, NEW o \in Outputs
    PROVE  /\ Released(o)[o] = Unbound
           /\ \A p \in Outputs \ {o} :
                /\ Released(o)[p].held = out[p].held /\ Released(o)[p].window = out[p].window
                /\ Released(o)[p].shell = out[p].shell /\ Released(o)[p].parent = out[p].parent
                /\ Released(o)[p].sized = out[p].sized
                /\ Released(o)[p].dead = (out[p].dead \/ out[p].parent = o)
                /\ Released(o)[p].ownsSize = (out[p].ownsSize \/ (out[o].ownsSize /\ FirstHeir(o, p)))
                /\ out[p].parent # o /\ ~out[o].ownsSize => Released(o)[p] = out[p]
<1>1. \A p \in Outputs : out[p] \in Selection BY DEF TypeOK
<1>2. Released(o)[o] = Unbound BY DEF Released
<1>3. ASSUME NEW p \in Outputs \ {o}
      PROVE  /\ Released(o)[p].held = out[p].held /\ Released(o)[p].window = out[p].window
             /\ Released(o)[p].shell = out[p].shell /\ Released(o)[p].parent = out[p].parent
             /\ Released(o)[p].sized = out[p].sized
             /\ Released(o)[p].dead = (out[p].dead \/ out[p].parent = o)
             /\ Released(o)[p].ownsSize = (out[p].ownsSize \/ (out[o].ownsSize /\ FirstHeir(o, p)))
             /\ out[p].parent # o /\ ~out[o].ownsSize => Released(o)[p] = out[p]
  <2> DEFINE s == out[p]
             new == Released(o)[p]
             d == out[p].dead \/ out[p].parent = o
             b == out[p].ownsSize \/ (out[o].ownsSize /\ FirstHeir(o, p))
  <2>1. new = [s EXCEPT !.dead = d, !.ownsSize = b] BY DEF Released
  <2>2. s \in Selection /\ d \in BOOLEAN /\ b \in BOOLEAN BY <1>1
  <2>3. out[p].parent # o /\ ~out[o].ownsSize => d = out[p].dead /\ b = out[p].ownsSize
    <3>1. out[p].dead \in BOOLEAN /\ out[p].ownsSize \in BOOLEAN BY <2>2 DEF Selection
    <3> QED BY <3>1
  <2> HIDE DEF s, new, d, b
  <2>4. /\ new.held = s.held /\ new.window = s.window /\ new.shell = s.shell /\ new.parent = s.parent
        /\ new.sized = s.sized /\ new.dead = d /\ new.ownsSize = b
    BY <2>1, <2>2 DEF Selection
  <2>5. d = s.dead /\ b = s.ownsSize => new = s BY <2>1, <2>2 DEF Selection
  <2> QED BY <2>3, <2>4, <2>5 DEF s, new, d, b
<1> QED BY <1>2, <1>3

\* Releasing o does nothing to an output that is not bound.
LEMMA ReleasedUnbound ==
    ASSUME TypeOK, NoFreedOutputIsUsed, NEW o \in Outputs, NEW p \in Outputs, p # o, ~Bound(p)
    PROVE  Released(o)[p] = Unbound
<1>1. out[p] = Unbound BY DEF NoFreedOutputIsUsed
<1>2. ~FirstHeir(o, p) BY <1>1 DEF FirstHeir, Heirs, Unbound
<1>3. /\ (out[p].dead \/ out[p].parent = o) = FALSE
      /\ (out[p].ownsSize \/ (out[o].ownsSize /\ FirstHeir(o, p))) = FALSE
  BY <1>1, <1>2, OutputsAssumption DEF Unbound
<1>4. Released(o)[p] = [out[p] EXCEPT !.dead = FALSE, !.ownsSize = FALSE]
  BY <1>3 DEF Released
<1>5. out[p] \in Selection /\ out[p].dead = FALSE /\ out[p].ownsSize = FALSE
  <2>1. out[p] \in Selection BY DEF TypeOK
  <2>2. Unbound.dead = FALSE /\ Unbound.ownsSize = FALSE BY DEF Unbound
  <2> QED BY <1>1, <2>1, <2>2
<1>6. [out[p] EXCEPT !.dead = FALSE, !.ownsSize = FALSE] = out[p] BY <1>5 DEF Selection
<1> QED BY <1>1, <1>4, <1>6

\* Every step keeps the input part of the invariant.
LEMMA InputStep == OutputsInv /\ [Next]_vars => InputInv'
<1> SUFFICES ASSUME OutputsInv, [Next]_vars PROVE InputInv'
  OBVIOUS
<1> USE OutputsAssumption
<1>0. /\ TypeOK /\ LeasesMatchDevice /\ HoldersHaveWindows /\ NoFreedOutputIsUsed
      /\ \A o \in Outputs : out[o] \in Selection
  BY DEF OutputsInv, InputInv, TypeOK
<1> USE <1>0
<1>1. ASSUME NEW o \in Outputs, Release(o) PROVE InputInv'
  <2>1. LeasesMatchDevice'
    BY <1>1, ReleaseInputLeases, ReleasedFacts DEF Release, Unbound
  <2>2. HoldersHaveWindows'
    BY <1>1, HoldersKept, ReleasedFacts DEF Release, Unbound
  <2>3. NoFreedOutputIsUsed'
    <3> SUFFICES ASSUME NEW p \in Outputs, ~Bound(p)'
                 PROVE  p # pointer' /\ p # cursor' /\ p \notin direct' /\ out'[p] = Unbound
      BY DEF NoFreedOutputIsUsed
    <3>1. CASE p = o
      BY <1>1, <3>1, ReleasedFacts DEF Release, releaseInput, lorieCursorRelease
    <3>2. CASE p # o
      <4>1. ~Bound(p) BY <1>1, <3>2, ReleasedFacts DEF Release, Bound
      <4> QED BY <1>1, <3>2, <4>1, ReleasedUnbound
              DEF Release, releaseInput, lorieCursorRelease, NoFreedOutputIsUsed
    <3> QED BY <3>1, <3>2
  <2> QED BY <2>1, <2>2, <2>3 DEF InputInv
<1>2. ASSUME NEW o \in Outputs, NEW w \in Windows \cup {Root}, NEW d \in 0..2,
             NEW q \in Outputs \cup {None}, Bind(o, w, d, q)
      PROVE  InputInv'
  <2> DEFINE f == IF Bound(o) THEN Released(o) ELSE out
             s == [Unbound EXCEPT !.window = w, !.shell = d = 1, !.parent = q]
  <2>1. out' = f \/ out' = [f EXCEPT ![o] = s] BY <1>2 DEF Bind
  <2>2. f \in [Outputs -> Selection] BY ReleasedType DEF TypeOK
  <2>3. f[o] = Unbound BY ReleasedFacts DEF NoFreedOutputIsUsed
  <2>4. \A p \in Outputs \ {o} : f[p].held = out[p].held /\ f[p].window = out[p].window
    BY ReleasedFacts
  <2>5. \A p \in Outputs \ {o} : ~Bound(p) => f[p] = Unbound
    BY ReleasedUnbound DEF NoFreedOutputIsUsed
  <2>6. s.held = {} /\ s.window = w /\ w # None BY DEF Unbound
  <2> HIDE DEF f, s
  <2>7. out'[o].held = {} /\ (out'[o] = Unbound \/ out'[o].window = w)
    <3>1. out'[o] = Unbound \/ out'[o] = s BY <2>1, <2>2, <2>3
    <3>2. Unbound.held = {} BY DEF Unbound
    <3> QED BY <2>6, <3>1, <3>2
  <2>8. \A p \in Outputs \ {o} : out'[p] = f[p] BY <2>1, <2>2
  <2>9. releaseInput({o}) /\ windows' = windows BY <1>2 DEF Bind
  <2>10. LeasesMatchDevice' BY <2>4, <2>7, <2>8, <2>9, ReleaseInputLeases
  <2>11. HoldersHaveWindows' BY <2>4, <2>7, <2>8, <2>9, HoldersKept
  <2>12. NoFreedOutputIsUsed'
    <3> SUFFICES ASSUME NEW p \in Outputs, ~Bound(p)'
                 PROVE  p # pointer' /\ p # cursor' /\ p \notin direct' /\ out'[p] = Unbound
      BY DEF NoFreedOutputIsUsed
    <3>1. CASE p = o
      <4>1. out'[o] = Unbound BY <2>6, <2>7, <3>1 DEF Bound
      <4>2. o # cursor' BY <1>2 DEF Bind, lorieCursorRelease, NoFreedOutputIsUsed
      <4> QED BY <2>9, <3>1, <4>1, <4>2 DEF releaseInput
    <3>2. CASE p # o
      <4>1. ~Bound(p) BY <2>4, <2>8, <3>2 DEF Bound
      <4>2. out'[p] = Unbound BY <2>5, <2>8, <3>2, <4>1
      <4>3. p # cursor' BY <1>2, <4>1 DEF Bind, lorieCursorRelease, NoFreedOutputIsUsed
      <4> QED BY <2>9, <4>1, <4>2, <4>3 DEF releaseInput, NoFreedOutputIsUsed
    <3> QED BY <3>1, <3>2
  <2> QED BY <2>10, <2>11, <2>12 DEF InputInv
<1>3. ASSUME NEW S \in SUBSET Outputs, releaseInput(S), windows' = windows, cursor' = cursor,
             \A p \in Outputs : /\ p \in S => out'[p].held = {}
                                /\ p \notin S => out'[p] = out[p]
                                /\ out'[p].window = out[p].window,
             \A p \in Outputs : ~Bound(p) => out'[p] = out[p]
      PROVE  InputInv'
  <2>1. LeasesMatchDevice' BY <1>3, ReleaseInputLeases
  <2>2. HoldersHaveWindows' BY <1>3, HoldersKept
  <2>3. NoFreedOutputIsUsed'
    <3>1. \A p \in Outputs : Bound(p)' <=> Bound(p) BY <1>3 DEF Bound
    <3> QED BY <1>3, <3>1, FreedKept DEF releaseInput
  <2> QED BY <2>1, <2>2, <2>3 DEF InputInv
<1>4. ASSUME NEW S \in SUBSET Outputs, NEW p \in Outputs, ~Bound(p) PROVE Emptied(S)[p] = out[p]
  <2>1. out[p] = Unbound BY <1>4 DEF NoFreedOutputIsUsed
  <2> QED BY <2>1 DEF Emptied, Unbound
<1>5. ASSUME NEW o \in Outputs, ShellRevoked(o) PROVE InputInv'
  <2> DEFINE e == Emptied({o})
  <2>1. out' = [e EXCEPT ![o].dead = TRUE] /\ Bound(o) BY <1>5 DEF ShellRevoked, Live
  <2>2. e \in [Outputs -> Selection] BY EmptiedType
  <2>3. e[o].held = {} /\ \A p \in Outputs : e[p].window = out[p].window /\ (p # o => e[p] = out[p])
    BY EmptiedFacts
  <2> HIDE DEF e
  <2>4. /\ out'[o].held = {} /\ out'[o].window = out[o].window
        /\ \A p \in Outputs : p # o => out'[p] = out[p]
    BY <2>1, <2>2, <2>3 DEF Selection
  <2>5. releaseInput({o}) /\ windows' = windows /\ cursor' = cursor BY <1>5 DEF ShellRevoked
  <2> QED BY <1>3, <2>1, <2>4, <2>5
<1>6. ASSUME NEW S \in SUBSET Outputs, out' = Emptied(S), releaseInput(S), windows' = windows,
             cursor' = cursor
      PROVE  InputInv'
  BY <1>3, <1>4, <1>6, EmptiedFacts
<1>7. ASSUME NEW o \in Outputs, Blur(o) PROVE InputInv'
  BY <1>6, <1>7 DEF Blur
<1>8. CASE CloseInput BY <1>6, <1>8 DEF CloseInput
<1>9. ASSUME NEW w \in Windows, WindowDestroyed(w) PROVE InputInv'
  <2> DEFINE S == DestroyedOutputs(w)
  <2>1. S \in SUBSET Outputs /\ releaseInput(S) BY <1>9 DEF WindowDestroyed, DestroyedOutputs
  <2>2. \A p \in Outputs : /\ p \in S => out'[p].held = {}
                           /\ p \notin S => out'[p] = out[p]
                           /\ out'[p].window = out[p].window
    BY <1>9 DEF WindowDestroyed, Selection
  <2>3. \A p \in S : out[p].window = w /\ Bound(p) BY DEF DestroyedOutputs, Bound
  <2>4. cursor' \in {cursor, None} /\ windows' = windows \ {w}
    BY <1>9 DEF WindowDestroyed, lorieCursorRelease
  <2>5. \A p \in Outputs : out[p].window = w => p \in S BY DEF DestroyedOutputs
  <2> HIDE DEF S
  <2>6. LeasesMatchDevice' BY <2>1, <2>2, ReleaseInputLeases
  <2>7. HoldersHaveWindows' BY <2>2, <2>4, <2>5 DEF HoldersHaveWindows, Exists
  <2>8. NoFreedOutputIsUsed'
    <3>1. \A p \in Outputs : Bound(p)' <=> Bound(p) BY <2>2 DEF Bound
    <3> QED BY <2>1, <2>2, <2>3, <2>4, <3>1, FreedKept DEF releaseInput
  <2> QED BY <2>6, <2>7, <2>8 DEF InputInv
<1>10. CASE ResetOutputs
  <2>1. releaseInput(Outputs) /\ \A p \in Outputs : out'[p] = Unbound BY <1>10 DEF ResetOutputs
  <2>2. LeasesMatchDevice' BY <2>1, ReleaseInputLeases DEF Unbound
  <2>3. HoldersHaveWindows' BY <2>1 DEF HoldersHaveWindows, Unbound
  <2>4. pointer' = None /\ direct' = {} /\ cursor' = None
    BY <1>10 DEF ResetOutputs, releaseInput, TypeOK
  <2>5. NoFreedOutputIsUsed' BY <2>1, <2>4 DEF NoFreedOutputIsUsed
  <2> QED BY <2>2, <2>3, <2>5 DEF InputInv
<1>11. ASSUME NEW o \in Outputs, Resize(o) PROVE InputInv'
  <2>1. \A p \in Outputs : /\ out'[p].held = out[p].held /\ out'[p].window = out[p].window
                           /\ ~Bound(p) => out'[p] = out[p]
    BY <1>11 DEF Resize, Resized, Selection, Accepts, Live, Bound
  <2>2. LeasesMatchDevice' BY <1>11, <2>1 DEF Resize, LeasesMatchDevice, Leased
  <2>3. HoldersHaveWindows' BY <1>11, <2>1, HoldersKept DEF Resize
  <2>4. NoFreedOutputIsUsed'
    <3>1. \A p \in Outputs : Bound(p)' <=> Bound(p) BY <2>1 DEF Bound
    <3> QED BY <1>11, <2>1, <3>1, FreedKept DEF Resize
  <2> QED BY <2>2, <2>3, <2>4 DEF InputInv
<1>12. ASSUME UNCHANGED <<out, down, direct, pointer, cursor>>, windows \subseteq windows'
       PROVE  InputInv'
  BY <1>12 DEF InputInv, LeasesMatchDevice, Leased, HoldersHaveWindows, Exists,
               NoFreedOutputIsUsed, Bound
<1>13. ASSUME NEW w \in Windows, WindowCreated(w) \/ ShellAdmits(w) \/ ShellDrops(w)
       PROVE  InputInv'
  BY <1>12, <1>13 DEF WindowCreated, ShellAdmits, ShellDrops
<1>14. CASE BeginExport BY <1>12, <1>14 DEF BeginExport
<1>15. CASE UNCHANGED vars BY <1>12, <1>15 DEF vars
<1>16. ASSUME NEW o \in Outputs, NEW i \in Inputs, Hold(o, i) \/ LetGo(o, i)
       PROVE  /\ LeasesMatchDevice'
              /\ \A p \in Outputs : out'[p].window = out[p].window /\ (p # o => out'[p] = out[p])
  BY <1>16, HoldLeases, LetGoLeases DEF Hold, LetGo, TypeOK, Selection
<1>17. ASSUME NEW o \in Outputs, Bound(o), Exists(out[o].window), windows' = windows,
              \A p \in Outputs : out'[p].window = out[p].window /\ (p # o => out'[p] = out[p]),
              pointer' \in {pointer, None, o}, cursor' \in {cursor, o}, direct' \subseteq direct \cup {o}
       PROVE  HoldersHaveWindows' /\ NoFreedOutputIsUsed'
  <2>1. \A p \in Outputs : Bound(p)' <=> Bound(p) BY <1>17 DEF Bound
  <2>2. NoFreedOutputIsUsed' BY <1>17, <2>1, FreedKept
  <2> QED BY <1>17, <2>2 DEF HoldersHaveWindows, Exists
<1>18. ASSUME NEW o \in Outputs, NEW k \in Keys, NEW pressed \in BOOLEAN, Key(o, k, pressed)
       PROVE  InputInv'
  <2>1. k \in Inputs /\ (Hold(o, k) \/ LetGo(o, k)) BY <1>18 DEF Key, Inputs
  <2>2. Bound(o) /\ Exists(out[o].window) BY <1>18 DEF Key, Reaches, Accepts, Live
  <2> QED BY <1>16, <1>17, <1>18, <2>1, <2>2 DEF Key, InputInv
<1>19. ASSUME NEW o \in Outputs, NEW b \in Buttons, NEW pressed \in BOOLEAN, Pointer(o, b, pressed)
       PROVE  InputInv'
  <2>1. b \in Inputs /\ (Hold(o, b) \/ LetGo(o, b)) BY <1>19 DEF Pointer, Inputs
  <2>2. Bound(o) /\ Exists(out[o].window) BY <1>19 DEF Pointer, Reaches, Accepts, Live
  <2>3. pointer' \in {pointer, None, o} BY <1>19 DEF Pointer, lorieDataPointer
  <2> QED BY <1>16, <1>17, <1>19, <2>1, <2>2, <2>3 DEF Pointer, InputInv
<1>20. ASSUME NEW o \in Outputs, Reaches(o), UNCHANGED <<out, down, windows>>,
              pointer' \in {pointer, None, o}, cursor' \in {cursor, o}, direct' \subseteq direct \cup {o}
       PROVE  InputInv'
  <2>1. LeasesMatchDevice' BY <1>20 DEF LeasesMatchDevice, Leased
  <2> QED BY <1>17, <1>20, <2>1 DEF InputInv, Reaches, Accepts, Live
<1>21. ASSUME NEW o \in Outputs, Motion(o) PROVE InputInv'
  BY <1>20, <1>21 DEF Motion
<1>22. ASSUME NEW o \in Outputs, NEW pressed \in BOOLEAN, NEW taken \in SUBSET (direct \ {o}),
              DirectInput(o, pressed, taken)
       PROVE  InputInv'
  <2>1. direct' \subseteq direct \cup {o} BY <1>22 DEF DirectInput
  <2>2. pointer' \in {pointer, None, o} BY <1>22 DEF DirectInput, lorieDataPointer
  <2> QED BY <1>20, <1>22, <2>1, <2>2 DEF DirectInput
<1>23. ASSUME NEW o \in Outputs, CancelContacts(o) PROVE InputInv'
  <2>1. pointer' \in {pointer, None, o} BY <1>23 DEF CancelContacts, lorieDataPointer
  <2> QED BY <1>20, <1>23, <2>1 DEF CancelContacts
<1>24. ASSUME NEW o \in Outputs, NEW k \in Keys, Text(o, k) PROVE InputInv'
  <2>1. LeasesMatchDevice' BY <1>24 DEF Text, LeasesMatchDevice, Leased
  <2>2. HoldersHaveWindows' /\ NoFreedOutputIsUsed'
    BY <1>24 DEF Text, HoldersHaveWindows, Exists, NoFreedOutputIsUsed, Bound
  <2> QED BY <2>1, <2>2 DEF InputInv
<1>25. ASSUME exported # None, lorieReleaseOutputButton(exported[1], exported[2]),
              windows' = windows, cursor' = cursor, pointer' \in {pointer, None}
       PROVE  InputInv'
  <2> DEFINE o == exported[1]
  <2>1. o \in Outputs /\ exported[2] \in Windows \cup {Root} BY <1>25 DEF TypeOK
  <2>2. CASE out[o].window = exported[2]
    <3>1. LetGo(o, Primary) /\ direct' = direct \ {o} /\ Primary \in Inputs
      BY <1>25, <2>2 DEF lorieReleaseOutputButton, Inputs
    <3>2. /\ LeasesMatchDevice'
          /\ \A p \in Outputs : out'[p].window = out[p].window /\ (p # o => out'[p] = out[p])
      BY <1>16, <2>1, <3>1
    <3>3. out'[o].held \subseteq out[o].held BY <2>1, <3>1 DEF LetGo, TypeOK, Selection
    <3>4. HoldersHaveWindows' BY <1>25, <2>1, <3>2, <3>3, HoldersKept
    <3>5. Bound(o) BY <2>1, <2>2 DEF Bound
    <3>6. \A p \in Outputs : Bound(p)' <=> Bound(p) BY <3>2 DEF Bound
    <3>7. NoFreedOutputIsUsed' BY <1>25, <2>1, <3>1, <3>2, <3>5, <3>6, FreedKept
    <3> QED BY <3>2, <3>4, <3>7 DEF InputInv
  <2>3. CASE out[o].window # exported[2]
    <3>1. UNCHANGED <<out, down, direct>> BY <1>25, <2>3 DEF lorieReleaseOutputButton
    <3> QED BY <1>25, <3>1 DEF InputInv, LeasesMatchDevice, Leased, HoldersHaveWindows, Exists,
                               NoFreedOutputIsUsed, Bound
  <2> QED BY <2>2, <2>3
<1>26. CASE EndExport BY <1>25, <1>26 DEF EndExport
<1>27. CASE DataReset
  <2>1. CASE exported # None BY <1>25, <1>27, <2>1 DEF DataReset
  <2>2. CASE exported = None
    BY <1>27, <2>2 DEF DataReset, InputInv, LeasesMatchDevice, Leased, HoldersHaveWindows,
                       Exists, NoFreedOutputIsUsed, Bound
  <2> QED BY <2>1, <2>2
<1>28. CASE Lifecycle BY <1>1, <1>2, <1>5, <1>9, <1>10, <1>11, <1>13, <1>28 DEF Lifecycle
<1>29. CASE Input
  BY <1>7, <1>8, <1>14, <1>18, <1>19, <1>21, <1>22, <1>23, <1>24, <1>26, <1>27, <1>29 DEF Input
<1> QED BY <1>15, <1>28, <1>29 DEF Next

-----------------------------------------------------------------------------
\* The terms between selections.

\* A set of natural numbers has a least one.
LEMMA SetHasMinimum ==
    ASSUME NEW T \in SUBSET Nat, T # {}
    PROVE  \E k \in T : \A j \in T : k <= j
<1> DEFINE R == OpToRel(<, Nat)
<1>1. IsWellFoundedOn(R, Nat) BY NatLessThanWellFounded
<1>2. \A i, j \in Nat : i < j => <<i, j>> \in R BY DEF OpToRel
<1> HIDE DEF R
<1>3. PICK k \in T : \A j \in T : ~(<<j, k>> \in R) BY <1>1, WFMin
<1>4. \A j \in T : ~(j < k) BY <1>2, <1>3
<1> QED BY <1>4

\* window_outputs.c:161-167: there is at most one first heir, and one whenever
\* a live view of the window has a size.
LEMMA HeirFacts ==
    ASSUME TypeOK, ListIsExact, NEW o \in Outputs
    PROVE  /\ \A p \in Outputs : FirstHeir(o, p) =>
                /\ p # o /\ ~out[p].dead /\ ~borrowed(out[p]) /\ out[p].sized
                /\ out[p].window = out[o].window
           /\ \A p, q \in Outputs : FirstHeir(o, p) /\ FirstHeir(o, q) => p = q
           /\ \A v \in Outputs :
                /\ v # o /\ Live(v) /\ ~borrowed(out[v]) /\ out[v].sized
                /\ out[v].window = out[o].window
                => \E p \in Outputs : FirstHeir(o, p)
<1>1. Heirs(o) \in SUBSET Nat BY DEF Heirs, TypeOK
<1>2. \A k \in Heirs(o) : selections[k] \in Outputs BY DEF Heirs, TypeOK
<1>3. ASSUME NEW p \in Outputs, FirstHeir(o, p)
      PROVE  /\ p # o /\ ~out[p].dead /\ ~borrowed(out[p]) /\ out[p].sized
             /\ out[p].window = out[o].window
  BY <1>3 DEF FirstHeir, Heirs
<1>4. ASSUME NEW p \in Outputs, NEW q \in Outputs, FirstHeir(o, p), FirstHeir(o, q)
      PROVE  p = q
  <2>1. PICK j \in Heirs(o) : p = selections[j] /\ \A i \in Heirs(o) : j <= i
    BY <1>4 DEF FirstHeir
  <2>2. PICK k \in Heirs(o) : q = selections[k] /\ \A i \in Heirs(o) : k <= i
    BY <1>4 DEF FirstHeir
  <2>3. j = k BY <1>1, <2>1, <2>2
  <2> QED BY <2>1, <2>2, <2>3
<1>5. ASSUME NEW v \in Outputs, v # o, Live(v), ~borrowed(out[v]), out[v].sized,
             out[v].window = out[o].window
      PROVE  \E p \in Outputs : FirstHeir(o, p)
  <2>1. PICK k \in DOMAIN selections : selections[k] = v BY <1>5 DEF ListIsExact, Live
  <2>2. k \in Heirs(o) BY <1>5, <2>1 DEF Heirs, Live
  <2>3. PICK m \in Heirs(o) : \A j \in Heirs(o) : m <= j BY <1>1, <2>2, SetHasMinimum
  <2> QED BY <1>2, <2>3 DEF FirstHeir
<1> QED BY <1>3, <1>4, <1>5

\* window_outputs.c:154-169: a release leaves the terms of the others sound.
LEMMA ReleasedTerms ==
    ASSUME TypeOK, ListIsExact, TermsOf(out), NEW o \in Outputs, Bound(o)
    PROVE  TermsOf(Released(o))
<1> DEFINE f == Released(o)
<1> USE OutputsAssumption
<1>1. f[o] = Unbound /\ f[o].window = None /\ ~f[o].ownsSize
  <2>1. f[o] = Unbound BY ReleasedFacts
  <2>2. Unbound.window = None /\ ~Unbound.ownsSize BY DEF Unbound
  <2> QED BY <2>1, <2>2
<1>2. \A p \in Outputs \ {o} :
        /\ f[p].window = out[p].window /\ f[p].shell = out[p].shell /\ f[p].parent = out[p].parent
        /\ f[p].sized = out[p].sized /\ (f[p].dead <=> out[p].dead \/ out[p].parent = o)
        /\ f[p].ownsSize <=> out[p].ownsSize \/ (out[o].ownsSize /\ FirstHeir(o, p))
  <2> TAKE p \in Outputs \ {o}
  <2>1. /\ f[p].window = out[p].window /\ f[p].shell = out[p].shell /\ f[p].parent = out[p].parent
        /\ f[p].sized = out[p].sized /\ f[p].dead = (out[p].dead \/ out[p].parent = o)
        /\ f[p].ownsSize = (out[p].ownsSize \/ (out[o].ownsSize /\ FirstHeir(o, p)))
    BY ReleasedFacts
  <2> HIDE DEF f
  <2> QED BY <2>1
<1> HIDE DEF f
<1>3. \A p \in Outputs \ {o} : borrowed(f[p]) <=> borrowed(out[p]) BY <1>2 DEF borrowed
<1>4. \A p \in Outputs : ~borrowed(out[p]) => out[p].parent # o BY DEF borrowed
<1>5. \A p \in Outputs : LiveIn(f, p) => p # o /\ Live(p) /\ out[p].parent # o
  BY <1>1, <1>2 DEF LiveIn, Live, Bound
<1>6. \A p \in Outputs \ {o} : Live(p) /\ out[p].parent # o => LiveIn(f, p)
  BY <1>2 DEF LiveIn, Live, Bound
<1>7. /\ \A p \in Outputs : out[p].ownsSize =>
           out[p].window \in Windows /\ out[p].sized /\ ~borrowed(out[p])
      /\ \A p, q \in Outputs :
           out[p].ownsSize /\ out[q].ownsSize /\ out[p].window = out[q].window => p = q
  BY DEF TermsOf, OwnersAreApart
<1>8. OwnersAreApart(f)
  <2>1. ASSUME NEW p \in Outputs, f[p].ownsSize
        PROVE  f[p].window \in Windows /\ f[p].sized /\ ~borrowed(f[p])
    BY <1>1, <1>2, <1>3, <1>7, <2>1, HeirFacts
  <2>2. ASSUME NEW p \in Outputs, NEW q \in Outputs, f[p].ownsSize, f[q].ownsSize,
               f[p].window = f[q].window
        PROVE  p = q
    <3>1. p # o /\ q # o /\ out[p].window = out[q].window BY <1>1, <1>2, <2>2
    <3>2. CASE out[p].ownsSize /\ out[q].ownsSize BY <1>7, <3>1, <3>2
    <3>3. ASSUME NEW u \in Outputs \ {o}, NEW v \in Outputs \ {o}, out[u].ownsSize,
                 out[o].ownsSize, FirstHeir(o, v), out[u].window = out[v].window
          PROVE  FALSE
      BY <1>7, <3>3, HeirFacts
    <3>4. CASE ~out[p].ownsSize /\ ~out[q].ownsSize BY <1>2, <2>2, <3>1, <3>4, HeirFacts
    <3> QED BY <1>2, <2>2, <3>1, <3>2, <3>3, <3>4
  <2> QED BY <2>1, <2>2 DEF OwnersAreApart
<1>9. SizedViewsHaveOwner(f)
  <2> SUFFICES ASSUME NEW v \in Outputs, LiveIn(f, v), ~borrowed(f[v]), f[v].sized,
                      f[v].window # Root
               PROVE  \E p \in Outputs : LiveIn(f, p) /\ f[p].ownsSize /\ f[p].window = f[v].window
    BY DEF SizedViewsHaveOwner
  <2>1. v # o /\ Live(v) BY <1>5
  <2>2. ~borrowed(out[v]) /\ out[v].sized /\ out[v].window # Root /\ f[v].window = out[v].window
    BY <1>2, <1>3, <2>1
  <2>3. PICK u \in Outputs : Live(u) /\ out[u].ownsSize /\ out[u].window = out[v].window
    BY <2>1, <2>2 DEF TermsOf, SizedViewsHaveOwner, LiveIn, Live, Bound
  <2>4. CASE u # o
    <3>1. LiveIn(f, u) BY <1>4, <1>6, <1>7, <2>3, <2>4
    <3> QED BY <1>2, <2>2, <2>3, <2>4, <3>1
  <2>5. CASE u = o
    <3>1. PICK p \in Outputs : FirstHeir(o, p) BY <2>1, <2>2, <2>3, <2>5, HeirFacts
    <3>2. /\ p # o /\ ~out[p].dead /\ ~borrowed(out[p]) /\ out[p].window = out[o].window
      BY <3>1, HeirFacts
    <3>3. LiveIn(f, p) BY <1>4, <1>6, <3>2 DEF Live, Bound
    <3> QED BY <1>2, <2>2, <2>3, <2>5, <3>1, <3>2, <3>3
  <2> QED BY <2>4, <2>5
<1>10. BorrowsAreSoundIn(f)
  <2> SUFFICES ASSUME NEW c \in Outputs, LiveIn(f, c), f[c].parent # None
               PROVE  /\ f[c].parent \in Outputs /\ LiveIn(f, f[c].parent)
                      /\ ~borrowed(f[f[c].parent]) /\ f[f[c].parent].window = f[c].window
                      /\ \A d \in Outputs \ {c} : ~(LiveIn(f, d) /\ f[d].parent = f[c].parent)
    BY DEF BorrowsAreSoundIn
  <2> DEFINE p == f[c].parent
  <2>1. c # o /\ Live(c) /\ out[c].parent # o /\ p = out[c].parent /\ f[c].window = out[c].window
    BY <1>2, <1>5
  <2> HIDE DEF p
  <2>2. LiveIn(out, c) /\ p # None BY <2>1 DEF LiveIn, Live, Bound, p
  <2>3. /\ p \in Outputs /\ LiveIn(out, p) /\ ~borrowed(out[p]) /\ out[p].window = out[c].window
        /\ \A d \in Outputs \ {c} : ~(LiveIn(out, d) /\ out[d].parent = p)
    BY <2>1, <2>2 DEF TermsOf, BorrowsAreSoundIn
  <2>4. LiveIn(f, p) /\ ~borrowed(f[p]) /\ f[p].window = f[c].window
    BY <1>2, <1>3, <1>4, <1>6, <2>1, <2>3 DEF LiveIn, Live, Bound
  <2>5. \A d \in Outputs \ {c} : ~(LiveIn(f, d) /\ f[d].parent = p)
    BY <1>2, <1>5, <2>3 DEF LiveIn, Live, Bound
  <2> QED BY <2>3, <2>4, <2>5 DEF p
<1> QED BY <1>8, <1>9, <1>10 DEF TermsOf, f

\* window_outputs.c:240-259: a binding that is accepted joins sound terms.
LEMMA BoundTerms ==
    ASSUME NEW f \in [Outputs -> Selection], TermsOf(f), NEW o \in Outputs,
           f[o].window = None, ~f[o].ownsSize,
           NEW s \in Selection, s.window \in Windows \cup {Root}, ~s.dead, ~s.sized, ~s.ownsSize,
           s.parent # None =>
             /\ s.parent \in Outputs \ {o} /\ f[s.parent].window = s.window /\ ~f[s.parent].dead
             /\ ~borrowed(f[s.parent]) /\ ~separated(f, s.parent)
    PROVE  TermsOf([f EXCEPT ![o] = s])
<1> DEFINE g == [f EXCEPT ![o] = s]
<1> USE OutputsAssumption
<1>1. g[o] = s /\ \A p \in Outputs \ {o} : g[p] = f[p] OBVIOUS
<1> HIDE DEF g
<1>2. \A p \in Outputs \ {o} : LiveIn(g, p) <=> LiveIn(f, p) BY <1>1 DEF LiveIn
<1>3. ~LiveIn(f, o) BY DEF LiveIn
<1>4. OwnersAreApart(g) BY <1>1 DEF TermsOf, OwnersAreApart
<1>5. SizedViewsHaveOwner(g)
  <2> SUFFICES ASSUME NEW v \in Outputs, LiveIn(g, v), ~borrowed(g[v]), g[v].sized,
                      g[v].window # Root
               PROVE  \E p \in Outputs : LiveIn(g, p) /\ g[p].ownsSize /\ g[p].window = g[v].window
    BY DEF SizedViewsHaveOwner
  <2>1. v # o /\ g[v] = f[v] /\ LiveIn(f, v) BY <1>1, <1>2
  <2>2. PICK p \in Outputs : LiveIn(f, p) /\ f[p].ownsSize /\ f[p].window = f[v].window
    BY <2>1 DEF TermsOf, SizedViewsHaveOwner
  <2> QED BY <1>1, <1>2, <2>1, <2>2
<1>6. BorrowsAreSoundIn(g)
  <2> SUFFICES ASSUME NEW c \in Outputs, LiveIn(g, c), g[c].parent # None
               PROVE  /\ g[c].parent \in Outputs /\ LiveIn(g, g[c].parent)
                      /\ ~borrowed(g[g[c].parent]) /\ g[g[c].parent].window = g[c].window
                      /\ \A d \in Outputs \ {c} : ~(LiveIn(g, d) /\ g[d].parent = g[c].parent)
    BY DEF BorrowsAreSoundIn
  <2>1. CASE c = o
    <3> DEFINE p == s.parent
    <3>1. /\ g[c].parent = p /\ p \in Outputs \ {o} /\ g[p] = f[p] /\ f[p].window = s.window
          /\ ~f[p].dead /\ ~borrowed(f[p]) /\ ~separated(f, p)
      BY <1>1, <2>1
    <3>2. \A d \in Outputs \ {c} : ~(LiveIn(g, d) /\ g[d].parent = p)
      BY <1>1, <1>2, <2>1, <3>1 DEF separated, LiveIn
    <3>3. LiveIn(g, p) BY <3>1 DEF LiveIn
    <3> QED BY <1>1, <2>1, <3>1, <3>2, <3>3
  <2>2. CASE c # o
    <3> DEFINE p == f[c].parent
    <3>1. g[c] = f[c] /\ LiveIn(f, c) /\ p # None BY <1>1, <1>2, <2>2
    <3>2. /\ p \in Outputs /\ LiveIn(f, p) /\ ~borrowed(f[p]) /\ f[p].window = f[c].window
          /\ \A d \in Outputs \ {c} : ~(LiveIn(f, d) /\ f[d].parent = p)
      BY <3>1 DEF TermsOf, BorrowsAreSoundIn
    <3>3. p # o /\ g[p] = f[p] /\ LiveIn(g, p) BY <1>1, <1>2, <1>3, <3>2
    <3>4. s.parent # p BY <3>1, <3>2, <2>2 DEF separated, LiveIn
    <3>5. \A d \in Outputs \ {c} : ~(LiveIn(g, d) /\ g[d].parent = p)
      BY <1>1, <1>2, <3>2, <3>4
    <3> QED BY <3>1, <3>2, <3>3, <3>5
  <2> QED BY <2>1, <2>2
<1> QED BY <1>4, <1>5, <1>6 DEF TermsOf, g

\* Outputs that die leave sound terms when each is a borrower or dies with
\* every other view of its window.
LEMMA DyingTerms ==
    ASSUME NEW f, TermsOf(f), NEW g, NEW D \in SUBSET Outputs,
           \A p \in Outputs :
             /\ g[p].window = f[p].window /\ g[p].shell = f[p].shell /\ g[p].parent = f[p].parent
             /\ g[p].sized = f[p].sized /\ g[p].ownsSize = f[p].ownsSize
             /\ g[p].dead <=> f[p].dead \/ p \in D,
           \A p \in D, q \in Outputs : borrowed(f[p]) \/ (f[q].window = f[p].window => q \in D)
    PROVE  TermsOf(g)
<1>1. \A p \in Outputs : LiveIn(g, p) <=> LiveIn(f, p) /\ p \notin D BY DEF LiveIn
<1>2. \A p \in Outputs : borrowed(g[p]) <=> borrowed(f[p]) BY DEF borrowed
<1>3. OwnersAreApart(g) BY <1>2 DEF TermsOf, OwnersAreApart
<1>4. SizedViewsHaveOwner(g)
  <2> SUFFICES ASSUME NEW v \in Outputs, LiveIn(g, v), ~borrowed(g[v]), g[v].sized,
                      g[v].window # Root
               PROVE  \E p \in Outputs : LiveIn(g, p) /\ g[p].ownsSize /\ g[p].window = g[v].window
    BY DEF SizedViewsHaveOwner
  <2>1. PICK p \in Outputs : LiveIn(f, p) /\ f[p].ownsSize /\ f[p].window = f[v].window
    BY <1>1, <1>2 DEF TermsOf, SizedViewsHaveOwner
  <2>2. p \notin D BY <1>1, <2>1 DEF TermsOf, OwnersAreApart
  <2> QED BY <1>1, <2>1, <2>2
<1>5. BorrowsAreSoundIn(g)
  <2> SUFFICES ASSUME NEW c \in Outputs, LiveIn(g, c), g[c].parent # None
               PROVE  /\ g[c].parent \in Outputs /\ LiveIn(g, g[c].parent)
                      /\ ~borrowed(g[g[c].parent]) /\ g[g[c].parent].window = g[c].window
                      /\ \A d \in Outputs \ {c} : ~(LiveIn(g, d) /\ g[d].parent = g[c].parent)
    BY DEF BorrowsAreSoundIn
  <2> DEFINE p == f[c].parent
  <2>1. g[c].parent = p /\ LiveIn(f, c) /\ c \notin D /\ p # None BY <1>1
  <2>2. /\ p \in Outputs /\ LiveIn(f, p) /\ ~borrowed(f[p]) /\ f[p].window = f[c].window
        /\ \A d \in Outputs \ {c} : ~(LiveIn(f, d) /\ f[d].parent = p)
    BY <2>1 DEF TermsOf, BorrowsAreSoundIn
  <2>3. p \notin D BY <2>1, <2>2
  <2>4. \A d \in Outputs \ {c} : ~(LiveIn(g, d) /\ g[d].parent = p) BY <1>1, <2>2
  <2> QED BY <1>1, <1>2, <2>1, <2>2, <2>3, <2>4
<1> QED BY <1>3, <1>4, <1>5 DEF TermsOf

\* window_outputs.c:270-283: the latest resize owns the size.
LEMMA ResizedTerms ==
    ASSUME TypeOK, TermsOf(out), NEW o \in Outputs, Live(o), ~borrowed(out[o])
    PROVE  TermsOf(Resized(o))
<1> DEFINE g == Resized(o)
           W == out[o].window
<1> USE OutputsAssumption
<1>1. W \in Windows \cup {Root} BY DEF TypeOK, Selection, Live, Bound
<1>2. \A p \in Outputs :
        /\ g[p].window = out[p].window /\ g[p].shell = out[p].shell /\ g[p].parent = out[p].parent
        /\ g[p].dead = out[p].dead
        /\ g[p].sized <=> p = o \/ out[p].sized
        /\ g[p].ownsSize <=> IF p = o THEN W # Root
                             ELSE out[p].ownsSize /\ (W = Root \/ out[p].window # W)
  <2> TAKE p \in Outputs
  <2>1. out[p] \in Selection BY DEF TypeOK
  <2>2. CASE p = o
    <3>1. g[p] = [out[p] EXCEPT !.sized = TRUE, !.ownsSize = W # Root] BY <2>2 DEF Resized
    <3> HIDE DEF g, W
    <3> QED BY <2>1, <2>2, <3>1 DEF Selection
  <2>3. CASE p # o /\ W # Root /\ out[p].window = W
    <3>1. g[p] = [out[p] EXCEPT !.ownsSize = FALSE] BY <2>3 DEF Resized
    <3> HIDE DEF g, W
    <3> QED BY <2>1, <2>3, <3>1 DEF Selection
  <2>4. CASE p # o /\ ~(W # Root /\ out[p].window = W)
    <3>1. g[p] = out[p] BY <2>4 DEF Resized
    <3> HIDE DEF g, W
    <3> QED BY <2>4, <3>1
  <2> QED BY <2>2, <2>3, <2>4
<1> HIDE DEF g, W
<1>3. \A p \in Outputs : LiveIn(g, p) <=> LiveIn(out, p) BY <1>2 DEF LiveIn
<1>4. \A p \in Outputs : borrowed(g[p]) <=> borrowed(out[p]) BY <1>2 DEF borrowed
<1>5. W = out[o].window /\ LiveIn(out, o) BY DEF W, LiveIn, Live, Bound
<1>6. OwnersAreApart(g)
  <2>1. ASSUME NEW p \in Outputs, g[p].ownsSize
        PROVE  g[p].window \in Windows /\ g[p].sized /\ ~borrowed(g[p])
    BY <1>1, <1>2, <1>4, <1>5, <2>1 DEF TermsOf, OwnersAreApart
  <2>2. ASSUME NEW p \in Outputs, NEW q \in Outputs, g[p].ownsSize, g[q].ownsSize,
               g[p].window = g[q].window
        PROVE  p = q
    <3>1. CASE p # o /\ q # o BY <1>2, <2>2, <3>1 DEF TermsOf, OwnersAreApart
    <3>2. CASE p = o \/ q = o BY <1>2, <1>5, <2>2, <3>2
    <3> QED BY <3>1, <3>2
  <2> QED BY <2>1, <2>2 DEF OwnersAreApart
<1>7. SizedViewsHaveOwner(g)
  <2> SUFFICES ASSUME NEW v \in Outputs, LiveIn(g, v), ~borrowed(g[v]), g[v].sized,
                      g[v].window # Root
               PROVE  \E p \in Outputs : LiveIn(g, p) /\ g[p].ownsSize /\ g[p].window = g[v].window
    BY DEF SizedViewsHaveOwner
  <2>1. CASE out[v].window = W BY <1>2, <1>3, <1>5, <2>1
  <2>2. CASE out[v].window # W
    <3>1. v # o /\ LiveIn(out, v) /\ ~borrowed(out[v]) /\ out[v].sized /\ out[v].window # Root
      BY <1>2, <1>3, <1>4, <1>5, <2>2
    <3>2. PICK p \in Outputs : LiveIn(out, p) /\ out[p].ownsSize /\ out[p].window = out[v].window
      BY <3>1 DEF TermsOf, SizedViewsHaveOwner
    <3>3. p # o BY <1>5, <2>2, <3>2
    <3> QED BY <1>2, <1>3, <2>2, <3>2, <3>3
  <2> QED BY <2>1, <2>2
<1>8. BorrowsAreSoundIn(g)
  <2> SUFFICES ASSUME NEW c \in Outputs, LiveIn(g, c), g[c].parent # None
               PROVE  /\ g[c].parent \in Outputs /\ LiveIn(g, g[c].parent)
                      /\ ~borrowed(g[g[c].parent]) /\ g[g[c].parent].window = g[c].window
                      /\ \A d \in Outputs \ {c} : ~(LiveIn(g, d) /\ g[d].parent = g[c].parent)
    BY DEF BorrowsAreSoundIn
  <2> DEFINE p == out[c].parent
  <2>1. g[c].parent = p /\ LiveIn(out, c) /\ p # None BY <1>2, <1>3
  <2>2. /\ p \in Outputs /\ LiveIn(out, p) /\ ~borrowed(out[p]) /\ out[p].window = out[c].window
        /\ \A d \in Outputs \ {c} : ~(LiveIn(out, d) /\ out[d].parent = p)
    BY <2>1 DEF TermsOf, BorrowsAreSoundIn
  <2>3. \A d \in Outputs \ {c} : ~(LiveIn(g, d) /\ g[d].parent = p) BY <1>2, <1>3, <2>2
  <2> QED BY <1>2, <1>3, <1>4, <2>1, <2>2, <2>3
<1> QED BY <1>6, <1>7, <1>8 DEF TermsOf, g

\* Appending an output the list does not hold.
LEMMA AppendedFacts ==
    ASSUME TypeOK, ListIsExact, NEW o \in Outputs, ~Bound(o), selections' = Append(selections, o)
    PROVE  /\ \A p \in Outputs :
                (\E k \in DOMAIN selections' : selections'[k] = p) <=> Bound(p) \/ p = o
           /\ \A j, k \in DOMAIN selections' : selections'[j] = selections'[k] => j = k
<1> DEFINE n == Len(selections)
           L == selections'
<1>1. n \in Nat /\ DOMAIN selections = 1..n BY DEF TypeOK
<1>2. /\ DOMAIN L = 1..(n + 1) /\ L[n + 1] = o
      /\ \A k \in 1..n : L[k] = selections[k]
  BY DEF TypeOK
<1> HIDE DEF n, L
<1>3. \A k \in 1..n : selections[k] # o BY <1>1 DEF ListIsExact
<1>4. ASSUME NEW p \in Outputs
      PROVE  (\E k \in DOMAIN L : L[k] = p) <=> Bound(p) \/ p = o
  <2>1. Bound(p) <=> \E k \in 1..n : selections[k] = p BY <1>1 DEF ListIsExact
  <2>2. \A k \in 1..(n + 1) : k \in 1..n \/ k = n + 1 BY <1>1
  <2>3. n + 1 \in 1..(n + 1) /\ \A k \in 1..n : k \in 1..(n + 1) BY <1>1
  <2> QED BY <1>2, <2>1, <2>2, <2>3
<1>5. ASSUME NEW j \in DOMAIN L, NEW k \in DOMAIN L, L[j] = L[k] PROVE j = k
  <2>1. \A i \in 1..(n + 1) : i \in 1..n \/ i = n + 1 BY <1>1
  <2>2. \A a, b \in 1..n : selections[a] = selections[b] => a = b BY <1>1 DEF ListIsExact
  <2> QED BY <1>2, <1>3, <1>5, <2>1, <2>2
<1> QED BY <1>4, <1>5 DEF L

\* Every step keeps the terms between selections.
LEMMA TermsStep == OutputsInv /\ [Next]_vars => TermsInv'
<1> SUFFICES ASSUME OutputsInv, [Next]_vars PROVE TermsInv'
  OBVIOUS
<1> USE OutputsAssumption
<1>0. /\ TypeOK /\ ListIsExact /\ TermsOf(out) /\ NoFreedOutputIsUsed
      /\ \A o \in Outputs : out[o] \in Selection
  BY DEF OutputsInv, InputInv, TermsInv, TypeOK
<1> USE <1>0
<1>1. ASSUME NEW o \in Outputs, Release(o) PROVE TermsInv'
  <2>1. Bound(o) /\ out' = Released(o) /\ selections' = Unlinked(o) BY <1>1 DEF Release
  <2>2. TermsOf(out') BY <2>1, ReleasedTerms
  <2>3. \A p \in Outputs : Bound(p)' <=> Bound(p) /\ p # o
    BY <2>1, ReleasedFacts DEF Bound, Unbound
  <2>4. ListIsExact' BY <2>1, <2>3, UnlinkedFacts DEF ListIsExact
  <2> QED BY <2>2, <2>4 DEF TermsInv
<1>2. ASSUME NEW o \in Outputs, NEW w \in Windows \cup {Root}, NEW d \in 0..2,
             NEW q \in Outputs \cup {None}, Bind(o, w, d, q)
      PROVE  TermsInv'
  <2> DEFINE f == IF Bound(o) THEN Released(o) ELSE out
             s == [Unbound EXCEPT !.window = w, !.shell = d = 1, !.parent = q]
             ok == MayBind(f, o, w, d, q)
  <2>1. /\ d = 2 <=> q # None
        /\ out' = IF ok THEN [f EXCEPT ![o] = s] ELSE f
        /\ selections' = CASE ok /\ ~Bound(o) -> Append(selections, o)
                           [] ~ok /\ Bound(o) -> Unlinked(o)
                           [] OTHER           -> selections
    BY <1>2 DEF Bind
  <2>2. f \in [Outputs -> Selection] BY ReleasedType DEF TypeOK
  <2>3. f[o] = Unbound BY ReleasedFacts DEF NoFreedOutputIsUsed
  <2>4. TermsOf(f) BY ReleasedTerms
  <2>5. \A p \in Outputs \ {o} : f[p].window = out[p].window BY ReleasedFacts
  <2>6. s \in Selection /\ s.window = w /\ ~s.dead /\ ~s.sized /\ ~s.ownsSize /\ s.parent = q
    BY DEF Unbound, Selection
  <2>7. f[o].window = None /\ ~f[o].ownsSize
    <3>1. Unbound.window = None /\ ~Unbound.ownsSize BY DEF Unbound
    <3> HIDE DEF f
    <3> QED BY <2>3, <3>1
  <2>8. ok /\ q # None =>
          /\ q \in Outputs \ {o} /\ f[q].window = w /\ ~f[q].dead
          /\ ~borrowed(f[q]) /\ ~separated(f, q)
    BY <2>1 DEF MayBind
  <2> HIDE DEF f, s, ok
  <2>9. TermsOf(out')
    <3>1. ok => TermsOf([f EXCEPT ![o] = s])
      BY <2>2, <2>4, <2>6, <2>7, <2>8, BoundTerms
    <3> QED BY <2>1, <2>4, <3>1
  <2>10. \A p \in Outputs : Bound(p)' <=> IF p = o THEN ok ELSE Bound(p)
    <3>1. w # None OBVIOUS
    <3> QED BY <2>1, <2>2, <2>5, <2>6, <2>7, <3>1 DEF Bound
  <2>11. ListIsExact'
    <3>1. CASE ok /\ ~Bound(o)
      <4>1. selections' = Append(selections, o) BY <2>1, <3>1
      <4> QED BY <2>10, <3>1, <4>1, AppendedFacts DEF ListIsExact
    <3>2. CASE ~ok /\ Bound(o)
      <4>1. selections' = Unlinked(o) BY <2>1, <3>2
      <4> QED BY <2>10, <3>2, <4>1, UnlinkedFacts DEF ListIsExact
    <3>3. CASE ok <=> Bound(o)
      <4>1. selections' = selections BY <2>1, <3>3
      <4> QED BY <2>10, <3>3, <4>1 DEF ListIsExact
    <3> QED BY <3>1, <3>2, <3>3
  <2> QED BY <2>9, <2>11 DEF TermsInv
<1>3. ASSUME NEW D \in SUBSET Outputs, selections' = selections,
             \A p \in Outputs :
               /\ out'[p].window = out[p].window /\ out'[p].shell = out[p].shell
               /\ out'[p].parent = out[p].parent
               /\ out'[p].sized = out[p].sized /\ out'[p].ownsSize = out[p].ownsSize
               /\ out'[p].dead <=> out[p].dead \/ p \in D,
             \A p \in D, q \in Outputs :
               borrowed(out[p]) \/ (out[q].window = out[p].window => q \in D)
      PROVE  TermsInv'
  <2>1. TermsOf(out') BY <1>3, DyingTerms
  <2>2. ListIsExact' BY <1>3 DEF ListIsExact, Bound
  <2> QED BY <2>1, <2>2 DEF TermsInv
<1>4. ASSUME NEW o \in Outputs, ShellRevoked(o) PROVE TermsInv'
  <2> DEFINE e == Emptied({o})
  <2>1. out' = [e EXCEPT ![o].dead = TRUE] /\ selections' = selections /\ borrowed(out[o])
    BY <1>4 DEF ShellRevoked, borrowed
  <2>2. e \in [Outputs -> Selection] BY EmptiedType
  <2>3. \A p \in Outputs :
          /\ e[p].window = out[p].window /\ e[p].shell = out[p].shell /\ e[p].parent = out[p].parent
          /\ e[p].sized = out[p].sized /\ e[p].ownsSize = out[p].ownsSize /\ e[p].dead = out[p].dead
    BY EmptiedFacts
  <2> HIDE DEF e
  <2>4. \A p \in Outputs :
          /\ out'[p].window = e[p].window /\ out'[p].shell = e[p].shell
          /\ out'[p].parent = e[p].parent
          /\ out'[p].sized = e[p].sized /\ out'[p].ownsSize = e[p].ownsSize
          /\ out'[p].dead <=> e[p].dead \/ p = o
    BY <2>1, <2>2 DEF Selection
  <2> DEFINE D == {o}
  <2>5. D \in SUBSET Outputs /\ \A p \in Outputs : p \in D <=> p = o OBVIOUS
  <2>6. \A p \in D : borrowed(out[p]) BY <2>1
  <2> HIDE DEF D
  <2>7. \A p \in Outputs :
          /\ out'[p].window = out[p].window /\ out'[p].shell = out[p].shell
          /\ out'[p].parent = out[p].parent
          /\ out'[p].sized = out[p].sized /\ out'[p].ownsSize = out[p].ownsSize
          /\ out'[p].dead <=> out[p].dead \/ p \in D
    BY <2>3, <2>4, <2>5
  <2> QED BY <1>3, <2>1, <2>5, <2>6, <2>7
<1>5. ASSUME NEW w \in Windows, WindowDestroyed(w) PROVE TermsInv'
  <2> DEFINE D == DestroyedOutputs(w)
  <2>1. /\ D \in SUBSET Outputs /\ selections' = selections
        /\ \A p, q \in Outputs : p \in D /\ out[q].window = out[p].window => q \in D
    BY <1>5 DEF WindowDestroyed, DestroyedOutputs
  <2>2. \A p \in Outputs :
          out'[p] = IF p \in D THEN [out[p] EXCEPT !.held = {}, !.dead = TRUE] ELSE out[p]
    BY <1>5 DEF WindowDestroyed
  <2> HIDE DEF D
  <2>3. \A p \in Outputs :
          /\ out'[p].window = out[p].window /\ out'[p].shell = out[p].shell
          /\ out'[p].parent = out[p].parent
          /\ out'[p].sized = out[p].sized /\ out'[p].ownsSize = out[p].ownsSize
          /\ out'[p].dead <=> out[p].dead \/ p \in D
    <3>1. ASSUME NEW t \in Selection
          PROVE  LET r == [t EXCEPT !.held = {}, !.dead = TRUE]
                 IN  /\ r.window = t.window /\ r.shell = t.shell /\ r.parent = t.parent
                     /\ r.sized = t.sized /\ r.ownsSize = t.ownsSize /\ r.dead = TRUE
      BY DEF Selection
    <3>2. \A p \in Outputs : out[p] \in Selection BY DEF TypeOK
    <3> QED BY <2>2, <3>1, <3>2
  <2> QED BY <1>3, <2>1, <2>3
<1>6. ASSUME selections' = selections,
             \A p \in Outputs :
               /\ out'[p].window = out[p].window /\ out'[p].shell = out[p].shell
               /\ out'[p].parent = out[p].parent /\ out'[p].sized = out[p].sized
               /\ out'[p].ownsSize = out[p].ownsSize /\ out'[p].dead = out[p].dead
      PROVE  TermsInv'
  <2>1. {} \in SUBSET Outputs OBVIOUS
  <2> QED BY <1>3, <1>6, <2>1
<1>7. ASSUME NEW o \in Outputs, Resize(o) PROVE TermsInv'
  <2>1. /\ Live(o) /\ ~borrowed(out[o]) /\ out' = Resized(o) /\ selections' = selections
    BY <1>7 DEF Resize, Accepts
  <2>2. TermsOf(out') BY <2>1, ResizedTerms
  <2>3. \A p \in Outputs : out'[p].window = out[p].window
    BY <2>1 DEF Resized, Selection
  <2>4. ListIsExact' BY <2>1, <2>3 DEF ListIsExact, Bound
  <2> QED BY <2>2, <2>4 DEF TermsInv
<1>8. CASE ResetOutputs
  <2>1. selections' = <<>> /\ \A p \in Outputs : out'[p] = Unbound BY <1>8 DEF ResetOutputs
  <2>2. Unbound.window = None /\ ~Unbound.ownsSize BY DEF Unbound
  <2>3. TermsOf(out')
    BY <2>1, <2>2 DEF TermsOf, OwnersAreApart, SizedViewsHaveOwner, BorrowsAreSoundIn, LiveIn
  <2>4. ListIsExact' BY <2>1, <2>2 DEF ListIsExact, Bound
  <2> QED BY <2>3, <2>4 DEF TermsInv
<1>9. ASSUME UNCHANGED <<selections, out>> PROVE TermsInv' BY <1>6, <1>9
<1>10. ASSUME NEW o \in Outputs, NEW i \in Inputs, Hold(o, i) \/ LetGo(o, i),
              selections' = selections
       PROVE  TermsInv'
  <2>1. \A p \in Outputs :
          /\ out'[p].window = out[p].window /\ out'[p].shell = out[p].shell
          /\ out'[p].parent = out[p].parent /\ out'[p].sized = out[p].sized
          /\ out'[p].ownsSize = out[p].ownsSize /\ out'[p].dead = out[p].dead
    <3>1. \/ out' = [out EXCEPT ![o].held = @ \cup {i}] \/ out' = [out EXCEPT ![o].held = @ \ {i}]
      BY <1>10 DEF Hold, LetGo
    <3> QED BY <3>1 DEF TypeOK, Selection
  <2> QED BY <1>6, <1>10, <2>1
<1>11. ASSUME NEW S \in SUBSET Outputs, out' = Emptied(S), selections' = selections
       PROVE  TermsInv'
  BY <1>6, <1>11, EmptiedFacts
<1>12. CASE Lifecycle
  BY <1>1, <1>2, <1>4, <1>5, <1>7, <1>8, <1>9, <1>12
     DEF Lifecycle, WindowCreated, ShellAdmits, ShellDrops
<1>13. ASSUME exported # None, lorieReleaseOutputButton(exported[1], exported[2]),
              selections' = selections
       PROVE  TermsInv'
  <2>1. exported[1] \in Outputs /\ Primary \in Inputs BY <1>13 DEF TypeOK, Inputs
  <2> QED BY <1>9, <1>10, <1>13, <2>1 DEF lorieReleaseOutputButton
<1>14. CASE Input
  <2>1. ASSUME NEW o \in Outputs, NEW k \in Keys, NEW pressed \in BOOLEAN, Key(o, k, pressed)
        PROVE  TermsInv'
    BY <1>10, <2>1 DEF Key, Inputs
  <2>2. ASSUME NEW o \in Outputs, NEW b \in Buttons, NEW pressed \in BOOLEAN, Pointer(o, b, pressed)
        PROVE  TermsInv'
    BY <1>10, <2>2 DEF Pointer, Inputs
  <2>3. ASSUME NEW o \in Outputs,
               \/ Motion(o) \/ CancelContacts(o)
               \/ \E pressed \in BOOLEAN, taken \in SUBSET (direct \ {o}) : DirectInput(o, pressed, taken)
               \/ \E k \in Keys : Text(o, k)
        PROVE  TermsInv'
    BY <1>9, <2>3 DEF Motion, CancelContacts, DirectInput, Text
  <2>4. ASSUME NEW o \in Outputs, Blur(o) PROVE TermsInv' BY <1>11, <2>4 DEF Blur
  <2>5. CASE BeginExport BY <1>9, <2>5 DEF BeginExport
  <2>6. CASE EndExport BY <1>13, <2>6 DEF EndExport
  <2>7. CASE DataReset BY <1>9, <1>13, <2>7 DEF DataReset
  <2>8. CASE CloseInput BY <1>11, <2>8 DEF CloseInput
  <2> QED BY <1>14, <2>1, <2>2, <2>3, <2>4, <2>5, <2>6, <2>7, <2>8 DEF Input
<1>15. CASE UNCHANGED vars BY <1>9, <1>15 DEF vars
<1> QED BY <1>12, <1>14, <1>15 DEF Next

-----------------------------------------------------------------------------
\* The theorems.

\* The invariant holds at the start.
LEMMA OutputsInit == Init => OutputsInv
<1> SUFFICES ASSUME Init PROVE OutputsInv
  OBVIOUS
<1> USE OutputsAssumption
<1>1. Unbound \in Selection /\ Unbound.window = None /\ ~Unbound.ownsSize /\ Unbound.held = {}
  BY DEF Unbound, Selection
<1>2. \A o \in Outputs : out[o] = Unbound BY DEF Init
<1>3. TypeOK BY <1>1 DEF Init, TypeOK
<1>4. InputInv
  BY <1>1, <1>2 DEF Init, InputInv, LeasesMatchDevice, Leased, HoldersHaveWindows, NoFreedOutputIsUsed
<1>5. ListIsExact BY <1>1, <1>2 DEF Init, ListIsExact, Bound
<1>6. TermsOf(out)
  BY <1>1, <1>2 DEF TermsOf, OwnersAreApart, SizedViewsHaveOwner, BorrowsAreSoundIn, LiveIn
<1> QED BY <1>3, <1>4, <1>5, <1>6 DEF OutputsInv, TermsInv

\* The inductive invariant holds throughout.
LEMMA OutputsInvariant == Spec => []OutputsInv
<1>1. OutputsInv /\ [Next]_vars => OutputsInv'
  BY TypeStep, InputStep, TermsStep DEF OutputsInv
<1> QED BY OutputsInit, <1>1, PTL DEF Spec

\* window_outputs.c:61-88: whatever the outputs press, release, lose or are
\* destroyed with, the shared keyboard and mouse report exactly what is held.
THEOREM LeasesCorrect == Spec => []LeasesMatchDevice
<1>1. OutputsInv => LeasesMatchDevice BY DEF OutputsInv, InputInv
<1> QED BY OutputsInvariant, <1>1, PTL

\* window_outputs.c:133-169: no order of destruction, release and rebinding
\* leaves input, a cursor, a drag or a contact behind.
THEOREM OutputsLeaveNothingBehind == Spec => []NothingIsLeftBehind
<1>1. OutputsInv => NothingIsLeftBehind BY DEF OutputsInv, InputInv, NothingIsLeftBehind
<1> QED BY OutputsInvariant, <1>1, PTL

\* window_outputs.c:154-169, 240-283: one size owner for each window and sound
\* borrowing, in every order of binding, resizing, release and destruction.
THEOREM SelectionsCorrect == Spec => []SelectionsAreSound
<1>1. ASSUME OutputsInv PROVE SelectionsAreSound
  <2>0. TypeOK /\ TermsOf(out) BY <1>1 DEF OutputsInv, TermsInv
  <2>1. OneSizeOwner
    <3> SUFFICES ASSUME NEW w \in Windows
                 PROVE  LET V == {o \in Outputs : Live(o) /\ ~borrowed(out[o]) /\ out[o].window = w}
                        IN  /\ Cardinality({o \in V : out[o].ownsSize}) <= 1
                            /\ (\E o \in V : out[o].sized) => (\E o \in V : out[o].ownsSize)
      BY DEF OneSizeOwner
    <3> DEFINE V == {o \in Outputs : Live(o) /\ ~borrowed(out[o]) /\ out[o].window = w}
               P == {o \in V : out[o].ownsSize}
    <3>1. \A o, p \in P : o = p BY <2>0 DEF TermsOf, OwnersAreApart
    <3>2. Cardinality(P) <= 1
      <4> HIDE DEF P
      <4>1. P = {} \/ \E o : P = {o} BY <3>1
      <4>2. Cardinality({}) = 0 /\ \A o : Cardinality({o}) = 1 BY FS_EmptySet, FS_Singleton
      <4>3. CASE P = {} BY <4>2, <4>3
      <4>4. ASSUME NEW o, P = {o} PROVE Cardinality(P) <= 1
        <5>1. Cardinality(P) = 1 BY <4>2, <4>4
        <5> QED BY <5>1
      <4> QED BY <4>1, <4>3, <4>4
    <3>3. ASSUME NEW v \in V, out[v].sized PROVE \E o \in V : out[o].ownsSize
      <4>1. LiveIn(out, v) /\ ~borrowed(out[v]) /\ out[v].window = w /\ w # Root
        BY OutputsAssumption DEF LiveIn, Live, Bound
      <4>2. PICK o \in Outputs : LiveIn(out, o) /\ out[o].ownsSize /\ out[o].window = w
        BY <2>0, <3>3, <4>1 DEF TermsOf, SizedViewsHaveOwner
      <4>3. o \in V BY <2>0, <4>2 DEF TermsOf, OwnersAreApart, LiveIn, Live, Bound
      <4> QED BY <4>2, <4>3
    <3> QED BY <3>2, <3>3
  <2>2. BorrowsAreSound
    BY <2>0 DEF TermsOf, BorrowsAreSoundIn, BorrowsAreSound, LiveIn, Live, Bound
  <2> QED BY <2>1, <2>2 DEF SelectionsAreSound
<1> QED BY OutputsInvariant, <1>1, PTL

\* data_exchange.c:583-603: the end of an exported drag takes no button from an
\* output that the drag did not begin in, or that selects another window now.
THEOREM DragEndCorrect == Spec => DragEndSparesOthers
<1> DEFINE Spares == \A o \in Outputs :
                       (exported # None /\ exported' = None /\ out'[o].window = out[o].window)
                       => \/ out'[o].held = out[o].held
                          \/ /\ <<o, out[o].window>> = exported
                             /\ out'[o].held = out[o].held \ {Primary}
<1>1. ASSUME OutputsInv, [Next]_vars PROVE [Spares]_vars
  <2> SUFFICES ASSUME Next, NEW o \in Outputs, exported # None, exported' = None,
                      out'[o].window = out[o].window
               PROVE  \/ out'[o].held = out[o].held
                      \/ /\ <<o, out[o].window>> = exported
                         /\ out'[o].held = out[o].held \ {Primary}
    BY <1>1
  <2>0. TypeOK /\ NoFreedOutputIsUsed /\ out[o] \in Selection
    BY <1>1 DEF OutputsInv, InputInv, TypeOK
  <2>1. EndExport \/ DataReset \/ ResetOutputs
    <3>1. exported' # exported OBVIOUS
    <3>2. CASE Lifecycle
      <4>1. \A p \in Outputs : Release(p) \/ ShellRevoked(p) \/ Resize(p) => exported' = exported
        BY DEF Release, ShellRevoked, Resize
      <4>2. \A p \in Outputs, w \in Windows \cup {Root}, d \in 0..2, q \in Outputs \cup {None} :
              Bind(p, w, d, q) => exported' = exported
        BY DEF Bind
      <4>3. \A w \in Windows :
              WindowDestroyed(w) \/ WindowCreated(w) \/ ShellAdmits(w) \/ ShellDrops(w) => exported' = exported
        BY DEF WindowDestroyed, WindowCreated, ShellAdmits, ShellDrops
      <4> QED BY <3>1, <3>2, <4>1, <4>2, <4>3 DEF Lifecycle
    <3>3. CASE Input
      BY <3>1, <3>3 DEF Input, Key, Pointer, Motion, DirectInput, CancelContacts, Blur, Text, BeginExport,
                        CloseInput
    <3> QED BY <3>2, <3>3 DEF Next
  <2>2. CASE EndExport \/ DataReset
    <3>1. lorieReleaseOutputButton(exported[1], exported[2]) BY <2>2 DEF EndExport, DataReset
    <3>2. exported = <<exported[1], exported[2]>> BY <2>0 DEF TypeOK
    <3>3. CASE o = exported[1] /\ out[o].window = exported[2]
      <4>1. out' = [out EXCEPT ![o].held = @ \ {Primary}]
        BY <3>1, <3>3 DEF lorieReleaseOutputButton, LetGo
      <4> QED BY <2>0, <3>2, <3>3, <4>1 DEF TypeOK, Selection
    <3>4. CASE ~(o = exported[1] /\ out[o].window = exported[2])
      BY <2>0, <3>1, <3>4 DEF lorieReleaseOutputButton, LetGo, TypeOK
    <3> QED BY <3>3, <3>4
  <2>3. CASE ResetOutputs
    <3>1. out'[o] = Unbound BY <2>3 DEF ResetOutputs
    <3>2. Unbound.window = None /\ Unbound.held = {} BY DEF Unbound
    <3>3. out[o] = Unbound BY <2>0, <3>1, <3>2 DEF NoFreedOutputIsUsed, Bound
    <3> QED BY <3>1, <3>3
  <2> QED BY <2>1, <2>2, <2>3
<1>2. [][Spares]_vars <=> DragEndSparesOthers BY DEF DragEndSparesOthers
<1> QED BY OutputsInvariant, <1>1, <1>2, PTL DEF Spec

-----------------------------------------------------------------------------
\* A set of numbers that holds 0 and with every number the next holds them all.
LEMMA Counting ==
    ASSUME NEW N \in Nat, NEW Good, 0 \in Good, \A n \in 1..N : n - 1 \in Good => n \in Good
    PROVE  \A n \in 0..N : n \in Good
<1> DEFINE T == {n \in 0..N : n \notin Good}
<1> SUFFICES ASSUME T # {} PROVE FALSE OBVIOUS
<1>1. IsWellFoundedOn(OpToRel(<, Nat), Nat) BY NatLessThanWellFounded
<1>2. T \subseteq Nat OBVIOUS
<1>3. PICK x \in T : \A y \in T : ~(<<y, x>> \in OpToRel(<, Nat))
  <2> HIDE DEF T
  <2> QED BY <1>1, <1>2, WFMin
<1>4. \A y \in T : ~(y < x) BY <1>2, <1>3 DEF OpToRel
<1>5. x # 0 /\ x \in 0..N OBVIOUS
<1>6. x \in 1..N /\ x - 1 \in 0..N /\ x - 1 < x BY <1>5
<1>7. x - 1 \in Good BY <1>4, <1>6
<1> QED BY <1>6, <1>7

\* What the turns of a loop of N turns do to the members of X.
IsLoop(step, X, N) == step \in [X \X (1..N) -> X]

\* The states such a loop goes through.
IsRun(g, X, N, base, step) ==
    g \in [0..N -> X] /\ g[0] = base /\ \A n \in 1..N : g[n] = step[<<g[n - 1], n>>]

\* A loop has its run.
LEMMA Turns ==
    ASSUME NEW N \in Nat, NEW X, NEW base \in X, NEW step, IsLoop(step, X, N)
    PROVE  \E g : IsRun(g, X, N, base, step)
<1> USE DEF IsLoop
<1> DEFINE So(g, m) == g[0] = base /\ \A n \in 1..m : g[n] = step[<<g[n - 1], n>>]
           Good == {m \in 0..N : \E g \in [0..m -> X] : So(g, m)}
<1>1. 0 \in Good
  <2> DEFINE g == [i \in 0..0 |-> base]
  <2>1. g \in [0..0 -> X] /\ So(g, 0) /\ 0 \in 0..N OBVIOUS
  <2> HIDE DEF g, So
  <2> QED BY <2>1
<1>2. ASSUME NEW m \in 1..N, m - 1 \in Good PROVE m \in Good
  <2>1. PICK g \in [0..(m - 1) -> X] : So(g, m - 1) BY <1>2
  <2> DEFINE h == [i \in 0..m |-> IF i = m THEN step[<<g[m - 1], m>>] ELSE g[i]]
  <2>2. h \in [0..m -> X]
    <3>1. g[m - 1] \in X /\ <<g[m - 1], m>> \in X \X (1..N) OBVIOUS
    <3>2. step[<<g[m - 1], m>>] \in X BY <3>1
    <3>3. \A i \in 0..m : i # m => i \in 0..(m - 1) OBVIOUS
    <3> QED BY <3>2, <3>3
  <2>3. h[0] = base BY <2>1
  <2>4. ASSUME NEW n \in 1..m PROVE h[n] = step[<<h[n - 1], n>>]
    <3>1. h[n - 1] = g[n - 1] OBVIOUS
    <3>2. n # m => n \in 1..(m - 1) OBVIOUS
    <3>3. CASE n = m
      <4>1. h[n] = step[<<g[n - 1], n>>] BY <3>3
      <4> HIDE DEF h
      <4> QED BY <3>1, <4>1
    <3>4. CASE n # m
      <4>1. h[n] = g[n] BY <3>4
      <4>2. g[n] = step[<<g[n - 1], n>>] BY <2>1, <3>2, <3>4
      <4> QED BY <3>1, <4>1, <4>2
    <3> QED BY <3>3, <3>4
  <2>5. So(h, m) BY <2>3, <2>4
  <2> HIDE DEF h, So
  <2> QED BY <2>2, <2>5
<1>3. N \in Good
  <2> HIDE DEF Good
  <2>1. N \in 0..N OBVIOUS
  <2> QED BY <1>1, <1>2, <2>1, Counting
<1> QED BY <1>3 DEF IsRun
-----------------------------------------------------------------------------
\* Kept() turn by turn.
KeptTurns(f, seq, S) ==
    f = [n \in 0..Len(seq) |->
          IF n = 0 THEN <<>>
          ELSE IF seq[n] \in S THEN Append(f[n - 1], seq[n]) ELSE f[n - 1]]

KeptOf(seq, S) == CHOOSE f : KeptTurns(f, seq, S)

LEMMA KeptIs == ASSUME NEW seq, NEW S PROVE Kept(seq, S) = KeptOf(seq, S)[Len(seq)]
BY DEF Kept, KeptOf, KeptTurns

LEMMA KeptSteps ==
    ASSUME NEW X, NEW seq \in Seq(X), NEW S
    PROVE  \E f \in [0..Len(seq) -> Seq(X)] :
             /\ f[0] = <<>> /\ Kept(seq, S) = f[Len(seq)]
             /\ \A n \in 1..Len(seq) : f[n] = IF seq[n] \in S THEN Append(f[n - 1], seq[n]) ELSE f[n - 1]
<1> DEFINE N == Len(seq)
           step == [p \in Seq(X) \X (1..N) |-> IF seq[p[2]] \in S THEN Append(p[1], seq[p[2]]) ELSE p[1]]
<1>1. N \in Nat OBVIOUS
<1>2. step \in [Seq(X) \X (1..N) -> Seq(X)]
  <2>1. ASSUME NEW q \in Seq(X), NEW n \in 1..N PROVE Append(q, seq[n]) \in Seq(X)
    <3>1. seq[n] \in X OBVIOUS
    <3> QED BY <3>1
  <2> QED BY <2>1
<1>3. <<>> \in Seq(X) OBVIOUS
<1>4. PICK g \in [0..N -> Seq(X)] : g[0] = <<>> /\ \A n \in 1..N : g[n] = step[<<g[n - 1], n>>]
  <2> DEFINE none == <<>>
             all == Seq(X)
  <2>1. none \in all BY <1>3
  <2>2. IsLoop(step, all, N) BY <1>2 DEF IsLoop
  <2> HIDE DEF N, step, none, all
  <2>3. \E g : IsRun(g, all, N, none, step) BY ONLY <1>1, <2>1, <2>2, Turns
  <2> QED BY <2>3 DEF none, all, IsRun
<1>5. ASSUME NEW n \in 1..N
      PROVE  g[n] = IF seq[n] \in S THEN Append(g[n - 1], seq[n]) ELSE g[n - 1]
  <2>0. n - 1 \in 0..N BY <1>1
  <2>1. g[n - 1] \in Seq(X) /\ <<g[n - 1], n>> \in Seq(X) \X (1..N) BY ONLY <2>0, g \in [0..N -> Seq(X)], n \in 1..N
  <2>2. g[n] = step[<<g[n - 1], n>>] BY <1>4
  <2> QED BY <2>1, <2>2
<1>6. KeptTurns(g, seq, S)
  <2>1. \A n \in 0..N : n # 0 => n \in 1..N OBVIOUS
  <2>2. g = [n \in 0..N |-> g[n]] OBVIOUS
  <2> QED BY <1>4, <1>5, <2>1, <2>2 DEF KeptTurns
<1> DEFINE f == KeptOf(seq, S)
<1>7. KeptTurns(f, seq, S) BY <1>6, Zenon DEF KeptOf
<1> HIDE DEF f
<1> DEFINE h == [n \in 0..Len(seq) |-> IF n = 0 THEN <<>>
                    ELSE IF seq[n] \in S THEN Append(f[n - 1], seq[n]) ELSE f[n - 1]]
<1>8. f = h BY <1>7 DEF KeptTurns
<1>9. DOMAIN h = 0..N /\ h[0] = <<>> /\ \A n \in 1..N : h[n] = IF seq[n] \in S THEN Append(f[n - 1], seq[n]) ELSE f[n - 1]
  OBVIOUS
<1>d. f = [n \in DOMAIN f |-> f[n]]
  <2>1. h = [n \in DOMAIN h |-> h[n]] OBVIOUS
  <2> HIDE DEF h
  <2> QED BY <1>8, <2>1
<1> HIDE DEF h
<1>10. DOMAIN f = 0..N /\ f[0] = <<>> /\ \A n \in 1..N : f[n] = IF seq[n] \in S THEN Append(f[n - 1], seq[n]) ELSE f[n - 1]
  BY <1>8, <1>9
<1>11. \A n \in 0..N : f[n] \in Seq(X)
  <2> DEFINE Good == {n \in 0..N : f[n] \in Seq(X)}
  <2>0. f[0] \in Seq(X) BY ONLY <1>3, <1>10
  <2>1. 0 \in Good BY <1>1, <2>0
  <2>2. ASSUME NEW n \in 1..N, n - 1 \in Good PROVE n \in Good
    <3>1. f[n - 1] \in Seq(X) /\ seq[n] \in X BY <2>2
    <3>2. Append(f[n - 1], seq[n]) \in Seq(X) BY ONLY <3>1
    <3>3. f[n] = IF seq[n] \in S THEN Append(f[n - 1], seq[n]) ELSE f[n - 1] BY <1>10
    <3>4. f[n] \in Seq(X) BY ONLY <3>1, <3>2, <3>3
    <3> QED BY <1>1, <3>4
  <2>3. \A n \in 0..N : n \in Good
    <3> HIDE DEF Good, N
    <3> QED BY <1>1, <2>1, <2>2, Counting
  <2> QED BY <2>3
<1>12. f \in [0..N -> Seq(X)] BY <1>10, <1>11, <1>d
<1>13. Kept(seq, S) = f[Len(seq)] BY KeptIs DEF f
<1> QED BY <1>10, <1>12, <1>13
-----------------------------------------------------------------------------
\* v comes before w.
Under(s, v, w) == \E i, j \in 1..Len(s) : i < j /\ s[i] = v /\ s[j] = w

\* What is in the first n places of s, and in which order.
HasIn(s, n, x) == \E i \in 1..n : s[i] = x

UnderIn(s, n, v, w) == \E i, j \in 1..n : i < j /\ s[i] = v /\ s[j] = w

LEMMA InAll ==
    ASSUME NEW X, NEW s \in Seq(X)
    PROVE  /\ \A x : x \in ToSet(s) <=> HasIn(s, Len(s), x)
           /\ \A v, w : Under(s, v, w) <=> UnderIn(s, Len(s), v, w)
<1>1. DOMAIN s = 1..Len(s) OBVIOUS
<1> QED BY <1>1 DEF ToSet, HasIn, Under, UnderIn

LEMMA InNext ==
    ASSUME NEW s, NEW n \in Nat
    PROVE  /\ \A x : HasIn(s, n + 1, x) <=> HasIn(s, n, x) \/ x = s[n + 1]
           /\ \A v, w : UnderIn(s, n + 1, v, w) <=> UnderIn(s, n, v, w) \/ (HasIn(s, n, v) /\ w = s[n + 1])
<1>1. \A i : i \in 1..(n + 1) <=> i \in 1..n \/ i = n + 1 OBVIOUS
<1>2. \A i \in 1..n : i < n + 1 /\ ~(n + 1 < i) OBVIOUS
<1>3. ~(n + 1 < n + 1) OBVIOUS
<1> QED BY <1>1, <1>2, <1>3 DEF HasIn, UnderIn

LEMMA InAppended ==
    ASSUME NEW X, NEW s \in Seq(X), NEW e \in X
    PROVE  /\ Append(s, e) \in Seq(X)
           /\ \A x : x \in ToSet(Append(s, e)) <=> x \in ToSet(s) \/ x = e
           /\ \A v, w : Under(Append(s, e), v, w) <=> Under(s, v, w) \/ (v \in ToSet(s) /\ w = e)
<1> DEFINE t == Append(s, e)
           n == Len(s)
<1>1. t \in Seq(X) /\ Len(t) = n + 1 /\ t[n + 1] = e /\ n \in Nat /\ \A i \in 1..n : t[i] = s[i] OBVIOUS
<1> HIDE DEF t, n
<1>2. /\ \A x : HasIn(t, n, x) <=> HasIn(s, n, x)
      /\ \A v, w : UnderIn(t, n, v, w) <=> UnderIn(s, n, v, w)
  BY <1>1 DEF HasIn, UnderIn
<1>3. /\ \A x : HasIn(t, n + 1, x) <=> HasIn(t, n, x) \/ x = e
      /\ \A v, w : UnderIn(t, n + 1, v, w) <=> UnderIn(t, n, v, w) \/ (HasIn(t, n, v) /\ w = e)
  BY ONLY <1>1, InNext
<1>4. /\ \A x : x \in ToSet(t) <=> HasIn(t, n + 1, x)
      /\ \A v, w : Under(t, v, w) <=> UnderIn(t, n + 1, v, w)
  BY ONLY <1>1, InAll
<1>5. /\ \A x : x \in ToSet(s) <=> HasIn(s, n, x)
      /\ \A v, w : Under(s, v, w) <=> UnderIn(s, n, v, w)
  BY InAll DEF n
<1>6. /\ t \in Seq(X)
      /\ \A x : x \in ToSet(t) <=> x \in ToSet(s) \/ x = e
      /\ \A v, w : Under(t, v, w) <=> Under(s, v, w) \/ (v \in ToSet(s) /\ w = e)
  BY ONLY <1>1, <1>2, <1>3, <1>4, <1>5
<1> QED BY <1>6 DEF t

LEMMA InEmpty == /\ \A x : x \notin ToSet(<<>>) /\ \A v, w : ~Under(<<>>, v, w)
BY DEF ToSet, Under

\* Kept() keeps what it should, in the order it had.
LEMMA KeptFacts ==
    ASSUME NEW X, NEW seq \in Seq(X), NEW S
    PROVE  /\ Kept(seq, S) \in Seq(X)
           /\ \A x : x \in ToSet(Kept(seq, S)) <=> x \in ToSet(seq) /\ x \in S
           /\ \A v, w : Under(Kept(seq, S), v, w) <=> Under(seq, v, w) /\ v \in S /\ w \in S
<1> DEFINE N == Len(seq)
           Right(q, n) == /\ q \in Seq(X)
                          /\ \A x : x \in ToSet(q) <=> HasIn(seq, n, x) /\ x \in S
                          /\ \A v, w : Under(q, v, w) <=> UnderIn(seq, n, v, w) /\ v \in S /\ w \in S
<1>1. PICK f \in [0..N -> Seq(X)] :
        /\ f[0] = <<>> /\ Kept(seq, S) = f[N]
        /\ \A n \in 1..N : f[n] = IF seq[n] \in S THEN Append(f[n - 1], seq[n]) ELSE f[n - 1]
  BY KeptSteps
<1>2. N \in Nat OBVIOUS
<1> DEFINE Good == {n \in 0..N : Right(f[n], n)}
<1>3. 0 \in Good
  <2>1. \A v, w : ~HasIn(seq, 0, v) /\ ~UnderIn(seq, 0, v, w) BY DEF HasIn, UnderIn
  <2>2. <<>> \in Seq(X) OBVIOUS
  <2>3. Right(<<>>, 0) BY <2>1, <2>2, InEmpty
  <2> HIDE DEF Right
  <2> QED BY <1>1, <1>2, <2>3
<1>4. ASSUME NEW n \in 1..N, n - 1 \in Good PROVE n \in Good
  <2> DEFINE q == f[n - 1]
             e == seq[n]
             m == n - 1
  <2>1. Right(q, m) BY <1>4
  <2>2. e \in X /\ m \in Nat /\ n = m + 1 /\ n \in 0..N OBVIOUS
  <2>3. /\ \A x : HasIn(seq, m + 1, x) <=> HasIn(seq, m, x) \/ x = seq[m + 1]
        /\ \A v, w : UnderIn(seq, m + 1, v, w) <=> UnderIn(seq, m, v, w) \/ (HasIn(seq, m, v) /\ w = seq[m + 1])
    <3> HIDE DEF m
    <3> QED BY <2>2, InNext
  <2>4. e = seq[m + 1] BY <2>2
  <2>5. f[n] = IF e \in S THEN Append(q, e) ELSE q BY <1>1
  <2> HIDE DEF q, e, m, N
  <2>6. /\ Append(q, e) \in Seq(X)
        /\ \A x : x \in ToSet(Append(q, e)) <=> x \in ToSet(q) \/ x = e
        /\ \A v, w : Under(Append(q, e), v, w) <=> Under(q, v, w) \/ (v \in ToSet(q) /\ w = e)
    BY ONLY <2>1, <2>2, InAppended
  <2>7. Right(f[n], m + 1)
    <3>1. CASE e \in S
      <4> DEFINE t == Append(q, e)
      <4> HIDE DEF t
      <4>0. /\ t \in Seq(X)
            /\ \A x : x \in ToSet(t) <=> x \in ToSet(q) \/ x = e
            /\ \A v, w : Under(t, v, w) <=> Under(q, v, w) \/ (v \in ToSet(q) /\ w = e)
        BY <2>6 DEF t
      <4>1. f[n] = t BY <2>5, <3>1 DEF t
      <4>2. Right(t, m + 1) BY ONLY <2>1, <2>3, <2>4, <3>1, <4>0
      <4> QED BY <4>1, <4>2
    <3>2. CASE e \notin S
      <4>1. f[n] = q BY <2>5, <3>2
      <4>2. Right(q, m + 1) BY ONLY <2>1, <2>3, <2>4, <3>2
      <4> QED BY <4>1, <4>2
    <3> QED BY <3>1, <3>2
  <2> HIDE DEF Right
  <2> QED BY <2>2, <2>7
<1>5. Right(f[N], N)
  <2>1. \A n \in 0..N : n \in Good
    <3> HIDE DEF Good, N
    <3> QED BY <1>2, <1>3, <1>4, Counting
  <2>2. N \in 0..N BY <1>2
  <2> QED BY <2>1, <2>2
<1>6. /\ \A x : x \in ToSet(seq) <=> HasIn(seq, N, x)
      /\ \A v, w : Under(seq, v, w) <=> UnderIn(seq, N, v, w)
  BY InAll
<1> HIDE DEF N
<1> QED BY <1>1, <1>5, <1>6

\* What comes first in a concatenation.
LEMMA InJoined ==
    ASSUME NEW X, NEW s \in Seq(X), NEW t \in Seq(X)
    PROVE  /\ s \o t \in Seq(X)
           /\ \A x : x \in ToSet(s \o t) <=> x \in ToSet(s) \/ x \in ToSet(t)
           /\ \A v, w : Under(s \o t, v, w) <=>
                Under(s, v, w) \/ Under(t, v, w) \/ (v \in ToSet(s) /\ w \in ToSet(t))
<1> DEFINE r == s \o t
           m == Len(s)
           n == Len(t)
<1>1. /\ r \in Seq(X) /\ m \in Nat /\ n \in Nat /\ Len(r) = m + n
      /\ DOMAIN s = 1..m /\ DOMAIN t = 1..n /\ DOMAIN r = 1..(m + n)
      /\ \A i \in 1..m : r[i] = s[i]
      /\ \A i \in 1..n : r[m + i] = t[i]
  OBVIOUS
<1> HIDE DEF r, m, n
<1>2. /\ \A i \in 1..m : i \in 1..(m + n)
      /\ \A i \in 1..n : m + i \in 1..(m + n)
      /\ \A i \in 1..(m + n) : i \in 1..m \/ (i - m \in 1..n /\ i = m + (i - m))
  BY <1>1
<1>3. \A x : x \in ToSet(r) <=> x \in ToSet(s) \/ x \in ToSet(t)
  <2>1. ASSUME NEW x, x \in ToSet(r) PROVE x \in ToSet(s) \/ x \in ToSet(t)
    <3>1. PICK i \in 1..(m + n) : r[i] = x BY <1>1, <2>1 DEF ToSet
    <3> QED BY <1>1, <1>2, <3>1 DEF ToSet
  <2>2. ASSUME NEW x, x \in ToSet(s) \/ x \in ToSet(t) PROVE x \in ToSet(r)
    <3>1. CASE x \in ToSet(s)
      <4>1. PICK i \in 1..m : s[i] = x BY <1>1, <3>1 DEF ToSet
      <4>2. i \in DOMAIN r /\ r[i] = x BY <1>1, <1>2, <4>1
      <4> QED BY <4>2 DEF ToSet
    <3>2. CASE x \in ToSet(t)
      <4>1. PICK i \in 1..n : t[i] = x BY <1>1, <3>2 DEF ToSet
      <4>2. m + i \in DOMAIN r /\ r[m + i] = x BY <1>1, <1>2, <4>1
      <4> QED BY <4>2 DEF ToSet
    <3> QED BY <2>2, <3>1, <3>2
  <2> QED BY <2>1, <2>2
<1>4. ASSUME NEW v, NEW w, Under(r, v, w)
      PROVE  Under(s, v, w) \/ Under(t, v, w) \/ (v \in ToSet(s) /\ w \in ToSet(t))
  <2>1. PICK i, j \in 1..(m + n) : i < j /\ r[i] = v /\ r[j] = w BY <1>1, <1>4 DEF Under
  <2>2. CASE j \in 1..m
    <3>1. i \in 1..m BY <1>1, <2>1, <2>2
    <3>2. s[i] = v /\ s[j] = w BY <1>1, <2>1, <2>2, <3>1
    <3> QED BY <2>1, <2>2, <3>1, <3>2 DEF Under, m
  <2>3. CASE i \in 1..m /\ j \notin 1..m
    <3>1. j - m \in 1..n /\ r[j] = t[j - m] BY <1>1, <1>2, <2>3
    <3>2. v = s[i] /\ w = t[j - m] BY <1>1, <2>1, <2>3, <3>1
    <3>3. v \in ToSet(s) /\ w \in ToSet(t)
      <4>1. i \in DOMAIN s /\ j - m \in DOMAIN t BY <1>1, <2>3, <3>1
      <4> QED BY <3>2, <4>1 DEF ToSet
    <3> QED BY <3>3
  <2>4. CASE i \notin 1..m
    <3>1. i - m \in 1..n /\ j - m \in 1..n /\ i - m < j - m BY <1>1, <1>2, <2>1, <2>4
    <3>2. t[i - m] = v /\ t[j - m] = w BY <1>1, <1>2, <2>1, <3>1
    <3> QED BY <3>1, <3>2 DEF Under, n
  <2> QED BY <2>2, <2>3, <2>4
<1>5. ASSUME NEW v, NEW w, Under(s, v, w) PROVE Under(r, v, w)
  <2>1. PICK i, j \in 1..m : i < j /\ s[i] = v /\ s[j] = w BY <1>5 DEF Under, m
  <2> QED BY <1>1, <1>2, <2>1 DEF Under
<1>6. ASSUME NEW v, NEW w, Under(t, v, w) PROVE Under(r, v, w)
  <2>1. PICK i, j \in 1..n : i < j /\ t[i] = v /\ t[j] = w BY <1>6 DEF Under, n
  <2>2. m + i < m + j BY <1>1, <2>1
  <2> QED BY <1>1, <1>2, <2>1, <2>2 DEF Under
<1>7. ASSUME NEW v \in ToSet(s), NEW w \in ToSet(t) PROVE Under(r, v, w)
  <2>1. PICK i \in 1..m, j \in 1..n : s[i] = v /\ t[j] = w BY <1>1 DEF ToSet
  <2>2. i < m + j BY <1>1
  <2> QED BY <1>1, <1>2, <2>1, <2>2 DEF Under
<1>8. \A v, w : Under(r, v, w) <=> Under(s, v, w) \/ Under(t, v, w) \/ (v \in ToSet(s) /\ w \in ToSet(t))
  BY ONLY <1>4, <1>5, <1>6, <1>7
<1> QED BY <1>1, <1>3, <1>8 DEF r
-----------------------------------------------------------------------------
\* Lines.

\* The line above the i-th window of a line is the rest of it.
LEMMA LineRest ==
    ASSUME AreLines(lines), NEW w \in Everyone, NEW i \in 1..Len(lines[w])
    PROVE  /\ lines[w] \in Seq(Everyone) /\ lines[w][i] \in Everyone /\ Len(lines[w]) \in Nat
           /\ Len(lines[lines[w][i]]) = Len(lines[w]) - i + 1
           /\ \A j \in 1..(Len(lines[w]) - i + 1) : lines[lines[w][i]][j] = lines[w][i + j - 1]
<1> DEFINE s == lines[w]
           v == s[i]
<1>1. s \in Seq(Everyone) BY DEF AreLines
<1>2. v \in Everyone /\ Len(s) \in Nat BY <1>1
<1>3. lines[v] = SubSeq(s, i, Len(s)) BY DEF AreLines
<1>4. /\ Len(SubSeq(s, i, Len(s))) = Len(s) - i + 1
      /\ \A j \in 1..(Len(s) - i + 1) : SubSeq(s, i, Len(s))[j] = s[i + j - 1]
  BY <1>1, <1>2
<1> QED BY <1>1, <1>2, <1>3, <1>4

LEMMA LineFacts ==
    ASSUME AreLines(lines), NEW w \in Everyone
    PROVE  /\ lines[w] \in Seq(Everyone) /\ Len(lines[w]) \in Nat \ {0} /\ lines[w][1] = w
           /\ DOMAIN lines[w] = 1..Len(lines[w])
           /\ Lineage(w) \subseteq Everyone /\ w \in Lineage(w)
           /\ \A v : v \in Lineage(w) <=> \E i \in 1..Len(lines[w]) : lines[w][i] = v
<1>1. lines[w] \in Seq(Everyone) /\ lines[w] # <<>> /\ lines[w][1] = w BY DEF AreLines
<1> DEFINE s == lines[w]
<1>2. s \in Seq(Everyone) /\ s # <<>> /\ s[1] = w BY <1>1
<1> HIDE DEF s
<1>3. Len(s) \in Nat \ {0} /\ DOMAIN s = 1..Len(s) /\ \A i \in 1..Len(s) : s[i] \in Everyone
  BY <1>2
<1>4. ToSet(s) \subseteq Everyone /\ (\A v : v \in ToSet(s) <=> \E i \in 1..Len(s) : s[i] = v)
  BY <1>3 DEF ToSet
<1>5. 1 \in 1..Len(s) BY <1>3
<1>6. w \in ToSet(s) BY <1>2, <1>4, <1>5
<1> QED BY <1>2, <1>3, <1>4, <1>6 DEF s, Lineage

\* What is above an ancestor is above.
LEMMA LineageIn ==
    ASSUME AreLines(lines), NEW w \in Everyone, NEW v \in Lineage(w)
    PROVE  Lineage(v) \subseteq Lineage(w)
<1>1. PICK i \in 1..Len(lines[w]) : lines[w][i] = v BY LineFacts
<1>2. v \in Everyone BY LineFacts
<1>3. ASSUME NEW u \in Lineage(v) PROVE u \in Lineage(w)
  <2>1. PICK j \in 1..Len(lines[v]) : lines[v][j] = u BY <1>2, LineFacts
  <2>2. /\ Len(lines[w]) \in Nat /\ Len(lines[v]) = Len(lines[w]) - i + 1
        /\ \A k \in 1..(Len(lines[w]) - i + 1) : lines[v][k] = lines[w][i + k - 1]
    BY <1>1, LineRest
  <2>3. i + j - 1 \in 1..Len(lines[w]) /\ lines[w][i + j - 1] = u BY <2>1, <2>2
  <2> QED BY <2>3, LineFacts
<1> QED BY <1>3

\* Two windows of a line lie one in the other.
LEMMA LineageChain ==
    ASSUME AreLines(lines), NEW w \in Everyone, NEW u \in Lineage(w), NEW v \in Lineage(w)
    PROVE  u \in Lineage(v) \/ v \in Lineage(u)
<1>1. PICK i \in 1..Len(lines[w]) : lines[w][i] = u BY LineFacts
<1>2. PICK j \in 1..Len(lines[w]) : lines[w][j] = v BY LineFacts
<1>0. u \in Everyone /\ v \in Everyone /\ Len(lines[w]) \in Nat BY LineFacts
<1>3. CASE i <= j
  <2>1. /\ Len(lines[u]) = Len(lines[w]) - i + 1
        /\ \A k \in 1..(Len(lines[w]) - i + 1) : lines[u][k] = lines[w][i + k - 1]
    BY <1>1, LineRest
  <2>2. j - i + 1 \in 1..(Len(lines[w]) - i + 1) /\ i + (j - i + 1) - 1 = j BY <1>0, <1>3
  <2>3. lines[u][j - i + 1] = v BY <1>2, <2>1, <2>2
  <2> QED BY <1>0, <2>1, <2>2, <2>3, LineFacts
<1>4. CASE j <= i
  <2>1. /\ Len(lines[v]) = Len(lines[w]) - j + 1
        /\ \A k \in 1..(Len(lines[w]) - j + 1) : lines[v][k] = lines[w][j + k - 1]
    BY <1>2, LineRest
  <2>2. i - j + 1 \in 1..(Len(lines[w]) - j + 1) /\ j + (i - j + 1) - 1 = i BY <1>0, <1>4
  <2>3. lines[v][i - j + 1] = u BY <1>1, <2>1, <2>2
  <2> QED BY <1>0, <2>1, <2>2, <2>3, LineFacts
<1> QED BY <1>3, <1>4

\* A window that lies in another has the longer line.
LEMMA LineLength ==
    ASSUME AreLines(lines), NEW w \in Everyone, NEW v \in Lineage(w), v # w
    PROVE  Len(lines[v]) < Len(lines[w]) /\ w \notin Lineage(v)
<1>1. ASSUME NEW x \in Everyone, NEW y \in Lineage(x), x # y PROVE Len(lines[y]) < Len(lines[x])
  <2>1. PICK i \in 1..Len(lines[x]) : lines[x][i] = y BY LineFacts
  <2>2. lines[x][1] = x BY LineFacts
  <2>3. Len(lines[y]) = Len(lines[x]) - i + 1 /\ Len(lines[x]) \in Nat BY <2>1, LineRest
  <2> QED BY <1>1, <2>1, <2>2, <2>3
<1>2. v \in Everyone BY LineFacts
<1>3. Len(lines[v]) \in Nat /\ Len(lines[w]) \in Nat BY <1>2, LineFacts
<1>4. Len(lines[v]) < Len(lines[w]) BY <1>1
<1>5. w \in Lineage(v) => Len(lines[w]) < Len(lines[v]) BY <1>1, <1>2
<1> QED BY <1>3, <1>4, <1>5

\* The parent.
LEMMA ParentFacts ==
    ASSUME AreLines(lines), NEW w \in Everyone, RootWindow \notin Everyone
    PROVE  /\ Parent(w) = RootWindow <=> Len(lines[w]) = 1
           /\ Parent(w) = RootWindow => Lineage(w) = {w}
           /\ Parent(w) # RootWindow =>
                /\ Parent(w) \in Everyone /\ Parent(w) # w /\ Parent(w) \in Lineage(w)
                /\ Lineage(w) = {w} \cup Lineage(Parent(w))
                /\ Len(lines[w]) = Len(lines[Parent(w)]) + 1
<1>1. Len(lines[w]) \in Nat \ {0} /\ lines[w][1] = w BY LineFacts
<1>2. CASE Len(lines[w]) = 1
  <2>1. Parent(w) = RootWindow BY <1>2 DEF Parent
  <2>2. Lineage(w) = {w} BY <1>1, <1>2, LineFacts
  <2> QED BY <1>2, <2>1, <2>2
<1>3. CASE Len(lines[w]) # 1
  <2>0. \A m \in Nat \ {0} : m # 1 => 2 \in 1..m OBVIOUS
  <2>1. 2 \in 1..Len(lines[w]) BY ONLY <1>1, <1>3, <2>0
  <2> DEFINE p == lines[w][2]
  <2>2. /\ p \in Everyone /\ Len(lines[p]) = Len(lines[w]) - 1
        /\ \A j \in 1..(Len(lines[w]) - 1) : lines[p][j] = lines[w][j + 1]
    <3>1. /\ p \in Everyone /\ Len(lines[p]) = Len(lines[w]) - 2 + 1
          /\ \A j \in 1..(Len(lines[w]) - 2 + 1) : lines[p][j] = lines[w][2 + j - 1]
      BY <2>1, LineRest
    <3>2. \A j \in 1..(Len(lines[w]) - 1) : 2 + j - 1 = j + 1 OBVIOUS
    <3> QED BY <1>1, <3>1, <3>2
  <2>3. Parent(w) = p BY <1>3 DEF Parent
  <2>4. p # w BY <1>1, <2>2
  <2>5. p \in Lineage(w) BY <2>1, LineFacts
  <2>6. Lineage(w) \subseteq {w} \cup Lineage(p)
    <3>1. ASSUME NEW v \in Lineage(w), v # w PROVE v \in Lineage(p)
      <4>1. PICK i \in 1..Len(lines[w]) : lines[w][i] = v BY LineFacts
      <4>2. i - 1 \in 1..(Len(lines[w]) - 1) BY <1>1, <3>1, <4>1
      <4>3. lines[p][i - 1] = v BY <2>2, <4>1, <4>2
      <4> QED BY <2>2, <4>2, <4>3, LineFacts
    <3> QED BY <3>1
  <2>7. {w} \cup Lineage(p) \subseteq Lineage(w) BY <2>5, LineFacts, LineageIn
  <2>8. Parent(w) # RootWindow BY <2>2, <2>3
  <2> QED BY <1>1, <1>3, <2>2, <2>3, <2>4, <2>5, <2>6, <2>7, <2>8
<1> QED BY <1>2, <1>3

\* The top of a line.
LEMMA TopFacts ==
    ASSUME AreLines(lines), NEW w \in Everyone, RootWindow \notin Everyone
    PROVE  /\ TopLevel(w) \in Everyone /\ TopLevel(w) \in Lineage(w)
           /\ Lineage(TopLevel(w)) = {TopLevel(w)} /\ Parent(TopLevel(w)) = RootWindow
           /\ \A v \in Lineage(w) : TopLevel(v) = TopLevel(w)
           /\ Parent(w) = RootWindow => TopLevel(w) = w
<1> DEFINE n == Len(lines[w])
           t == lines[w][n]
<1>1. n \in Nat \ {0} /\ n \in 1..n BY LineFacts
<1>2. TopLevel(w) = t BY DEF TopLevel, Last
<1>3. t \in Everyone /\ t \in Lineage(w) BY <1>1, LineFacts
<1>4. Len(lines[t]) = 1
  <2> HIDE DEF n
  <2>1. n \in 1..Len(lines[w]) BY <1>1 DEF n
  <2>2. Len(lines[t]) = Len(lines[w]) - n + 1 BY <2>1, LineRest
  <2>3. Len(lines[t]) = n - n + 1 BY <2>2 DEF n
  <2> QED BY <1>1, <2>3
<1>5. Parent(t) = RootWindow /\ Lineage(t) = {t} BY <1>3, <1>4, ParentFacts
<1>6. ASSUME NEW v \in Lineage(w) PROVE TopLevel(v) = t
  <2>1. PICK i \in 1..n : lines[w][i] = v BY LineFacts
  <2>2. /\ Len(lines[v]) = n - i + 1
        /\ \A j \in 1..(n - i + 1) : lines[v][j] = lines[w][i + j - 1]
    BY <2>1, LineRest
  <2>3. n - i + 1 \in 1..(n - i + 1) /\ i + (n - i + 1) - 1 = n BY <1>1
  <2>4. lines[v][Len(lines[v])] = t BY <2>2, <2>3
  <2> QED BY <2>4 DEF TopLevel, Last
<1>7. Parent(w) = RootWindow => t = w
  <2>1. Parent(w) = RootWindow => Lineage(w) = {w} BY ParentFacts
  <2> QED BY <1>3, <2>1
<1> QED BY <1>2, <1>3, <1>5, <1>6, <1>7

\* The windows of a subtree of the top level.
LEMMA TopSubtree ==
    ASSUME AreLines(lines), NEW w \in Everyone, RootWindow \notin Everyone
    PROVE  /\ Subtree(TopLevel(w)) \subseteq Everyone
           /\ \A v \in Everyone : v \in Subtree(TopLevel(w)) <=> TopLevel(v) = TopLevel(w)
<1>1. ASSUME NEW v \in Everyone, TopLevel(w) \in Lineage(v) PROVE TopLevel(v) = TopLevel(w)
  <2>1. TopLevel(TopLevel(w)) = TopLevel(v) BY <1>1, TopFacts
  <2>2. TopLevel(w) \in Lineage(w) BY TopFacts
  <2>3. TopLevel(TopLevel(w)) = TopLevel(w) BY <2>2, TopFacts
  <2> QED BY <2>1, <2>3
<1>2. \A v \in Everyone : TopLevel(v) \in Lineage(v) BY TopFacts
<1> QED BY <1>1, <1>2 DEF Subtree

\* Above an ancestor of w there is a child of it in the line of w.
LEMMA ChildInLine ==
    ASSUME AreLines(lines), RootWindow \notin Everyone, NEW w \in Everyone, NEW v \in Lineage(w), v # w
    PROVE  \E c \in Lineage(w) : Parent(c) = v
<1>1. PICK i \in 1..Len(lines[w]) : lines[w][i] = v BY LineFacts
<1>2. lines[w][1] = w /\ Len(lines[w]) \in Nat BY LineFacts
<1>3. i # 1 /\ i - 1 \in 1..Len(lines[w]) BY <1>1, <1>2
<1> DEFINE c == lines[w][i - 1]
<1>4. /\ c \in Everyone /\ Len(lines[c]) = Len(lines[w]) - (i - 1) + 1
      /\ \A j \in 1..(Len(lines[w]) - (i - 1) + 1) : lines[c][j] = lines[w][(i - 1) + j - 1]
  <2> DEFINE k == i - 1
  <2>1. k \in 1..Len(lines[w]) BY <1>3
  <2> HIDE DEF k
  <2>2. /\ lines[w][k] \in Everyone /\ Len(lines[lines[w][k]]) = Len(lines[w]) - k + 1
        /\ \A j \in 1..(Len(lines[w]) - k + 1) : lines[lines[w][k]][j] = lines[w][k + j - 1]
    BY <2>1, LineRest
  <2> QED BY <2>2 DEF k
<1>5. 2 \in 1..(Len(lines[w]) - (i - 1) + 1) /\ (i - 1) + 2 - 1 = i BY <1>2, <1>3
<1>6. lines[c][2] = v BY <1>1, <1>4, <1>5
<1>7. Len(lines[c]) # 1 BY <1>2, <1>3, <1>4
<1>8. Parent(c) = v BY <1>6, <1>7 DEF Parent
<1>9. c \in Lineage(w) BY <1>3, LineFacts
<1> QED BY <1>8, <1>9
-----------------------------------------------------------------------------
\* The inductive invariant.

Devices == ToSet(GrabDevices)

\* What the clients made stays, and `kin' is what the walk finds in it.
Settled ==
    /\ \E s \in Structures : lines = s.lines
    /\ AreLines(lines) /\ lines[Owner] = <<Owner>>
    /\ transients \in [Everyone -> Everyone \cup {RootWindow, NoWindow}]
    /\ kinds \in [Everyone -> {"plain", "modal", "popup", "tooltip", "input"}]
    /\ leaders \subseteq Everyone
    /\ kin = {p \in Everyone \X Everyone : lorieWindowFamilyContains(p[1], p[2])}

\* Of a realized window every ancestor is, and the focus is on a realized window.
Standing(vs, f) ==
    /\ vs \subseteq Everyone /\ \A w \in vs : Lineage(w) \subseteq vs
    /\ f \in vs \cup {NoWindow}

FamilyInv ==
    /\ Settled
    /\ Standing(visible, focus)
    /\ grabs \in [Devices -> Everyone \cup {NoWindow}]
    /\ IsStacking(order, lines)

\* The names of no window are not windows.
LEMMA NoNames == RootWindow \notin Everyone /\ NoWindow \notin Everyone /\ RootWindow # NoWindow /\ Owner \in Everyone
BY FamilyAssumption DEF Everyone

LEMMA DevicesAre == GrabDevices \in Seq(Devices) /\ Len(GrabDevices) \in Nat
                    /\ \A d \in Devices : \E k \in 1..Len(GrabDevices) : GrabDevices[k] = d
<1>1. GrabDevices \in Seq(STRING) BY FamilyAssumption
<1> QED BY <1>1 DEF Devices, ToSet

LEMMA KinAreWindows == ASSUME Settled, NEW x, NEW y, lorieWindowBelongsTo(x, y) PROVE x \in Everyone /\ y \in Everyone
BY DEF Settled, lorieWindowBelongsTo

\* The least member of a set of numbers.
LEMMA LeastMember ==
    ASSUME NEW I, I \subseteq Nat, I # {}
    PROVE  Min(I) \in I /\ \A y \in I : Min(I) <= y
<1>1. IsWellFoundedOn(OpToRel(<, Nat), Nat) BY NatLessThanWellFounded
<1>2. PICK x \in I : \A y \in I : ~(<<y, x>> \in OpToRel(<, Nat)) BY <1>1, WFMin
<1>3. \A y \in I : ~(y < x) BY <1>2 DEF OpToRel
<1>4. \A y \in I : x <= y BY <1>3
<1> QED BY <1>4, Zenon DEF Min

-----------------------------------------------------------------------------
\* The popups of the owner's family that w lies in.
PopupsOver(st, w) ==
    {v \in Lineage(w) \ {Owner} : v \in st.visible /\ OverrideRedirect(v) /\ MemberAt(st, v, Owner)}

\* lorieWindowGrabPopup() finds one if there is one.
LEMMA GrabPopupIs ==
    ASSUME Settled, NEW st, NEW w \in Everyone
    PROVE  LET p == lorieWindowGrabPopup(st, w, Owner)
           IN  /\ p \in PopupsOver(st, w) \/ p = NoWindow
               /\ p = NoWindow => PopupsOver(st, w) = {}
<1> DEFINE s == lines[w]
           B == {i \in 1..Len(s) : s[i] = Owner}
           below == IF B # {} THEN Min(B) ELSE 0
           line == IF below = 0 THEN s ELSE SubSeq(s, 1, below - 1)
           I == {i \in 1..Len(line) : line[i] \in st.visible /\ OverrideRedirect(line[i]) /\ MemberAt(st, line[i], Owner)}
           found == IF I # {} THEN Min(I) ELSE 0
           p == IF found = 0 THEN NoWindow ELSE line[found]
<1>1. lorieWindowGrabPopup(st, w, Owner) = p BY DEF lorieWindowGrabPopup, SelectInSeq
<1>2. AreLines(lines) /\ Len(lines[Owner]) = 1 BY DEF Settled
<1>3. /\ s \in Seq(Everyone) /\ Len(s) \in Nat \ {0}
      /\ \A v : v \in Lineage(w) <=> \E i \in 1..Len(s) : s[i] = v
  BY <1>2, LineFacts
<1>4. \A i \in B : i = Len(s)
  <2> SUFFICES ASSUME NEW i \in B PROVE i = Len(s) OBVIOUS
  <2>1. i \in 1..Len(lines[w]) /\ lines[w][i] = Owner OBVIOUS
  <2>2. Len(lines[lines[w][i]]) = Len(lines[w]) - i + 1 /\ Len(lines[w]) \in Nat BY <1>2, <2>1, LineRest
  <2>3. 1 = Len(lines[w]) - i + 1 BY <1>2, <2>1, <2>2
  <2> QED BY <2>1, <2>2, <2>3
<1> HIDE DEF s
<1>5. /\ Len(line) \in Nat
      /\ \A v : v \in Lineage(w) \ {Owner} <=> \E i \in 1..Len(line) : line[i] = v
  <2>1. CASE B = {}
    <3>1. line = s BY <2>1
    <3>2. Owner \notin Lineage(w) BY <1>3, <2>1
    <3> QED BY <1>3, <3>1, <3>2
  <2>2. CASE B # {}
    <3>1. B \subseteq Nat OBVIOUS
    <3>2. Min(B) \in B
      <4> HIDE DEF B
      <4> QED BY <2>2, <3>1, LeastMember
    <3>3. Min(B) = Len(s) BY <1>4, <3>2
    <3>4. below = Len(s) BY <2>2, <3>3
    <3>5. line = SubSeq(s, 1, Len(s) - 1) BY <1>3, <3>4
    <3>6. /\ Len(SubSeq(s, 1, Len(s) - 1)) = Len(s) - 1
          /\ \A i \in 1..(Len(s) - 1) : SubSeq(s, 1, Len(s) - 1)[i] = s[i]
      <4> DEFINE m == Len(s) - 1
      <4>1. m \in Nat /\ m <= Len(s) BY <1>3
      <4> HIDE DEF m
      <4>2. Len(SubSeq(s, 1, m)) = m /\ \A i \in 1..m : SubSeq(s, 1, m)[i] = s[i] BY <1>3, <4>1
      <4> QED BY <4>2 DEF m
    <3>7. s[Len(s)] = Owner BY <3>2, <3>3
    <3> HIDE DEF line
    <3>8. /\ Len(line) = Len(s) - 1 /\ \A i \in 1..(Len(s) - 1) : line[i] = s[i] BY <3>5, <3>6
    <3>9. \A i \in 1..(Len(s) - 1) : i \in 1..Len(s) /\ s[i] # Owner BY <1>3, <1>4
    <3>10. \A i \in 1..Len(s) : i = Len(s) \/ i \in 1..(Len(s) - 1) BY <1>3
    <3>11. Len(line) \in Nat BY <1>3, <3>8
    <3>12. ASSUME NEW v \in Lineage(w), v # Owner PROVE \E i \in 1..Len(line) : line[i] = v
      <4>1. PICK i \in 1..Len(s) : s[i] = v BY <1>3
      <4>2. i \in 1..(Len(s) - 1) BY <3>7, <3>10, <3>12, <4>1
      <4> QED BY <3>8, <4>1, <4>2
    <3>13. ASSUME NEW i \in 1..Len(line) PROVE line[i] \in Lineage(w) /\ line[i] # Owner
      BY <1>3, <3>8, <3>9
    <3> QED BY <3>11, <3>12, <3>13
  <2> QED BY <2>1, <2>2
<1> HIDE DEF line
<1>6. CASE I = {}
  <2>1. p = NoWindow BY <1>6
  <2>2. PopupsOver(st, w) = {}
    <3> SUFFICES ASSUME NEW v \in PopupsOver(st, w) PROVE FALSE OBVIOUS
    <3>1. v \in Lineage(w) \ {Owner} /\ v \in st.visible /\ OverrideRedirect(v) /\ MemberAt(st, v, Owner)
      BY DEF PopupsOver
    <3>2. PICK i \in 1..Len(line) : line[i] = v BY <1>5, <3>1
    <3> QED BY <1>6, <3>1, <3>2
  <2> QED BY <1>1, <2>1, <2>2
<1>7. CASE I # {}
  <2>1. I \subseteq Nat BY <1>5
  <2>2. Min(I) \in I
    <3> HIDE DEF I
    <3> QED BY <1>7, <2>1, LeastMember
  <2>3. Min(I) # 0 BY <1>5, <2>2
  <2>4. p = line[Min(I)] BY <1>7, <2>3
  <2>5. line[Min(I)] \in PopupsOver(st, w) BY <1>5, <2>2 DEF PopupsOver
  <2>6. p # NoWindow
    <3>1. line[Min(I)] \in Lineage(w) BY <2>5 DEF PopupsOver
    <3>2. Lineage(w) \subseteq Everyone BY <1>2, LineFacts
    <3> HIDE DEF p
    <3> QED BY <2>4, <3>1, <3>2, NoNames
  <2> QED BY <1>1, <2>4, <2>5, <2>6
<1> QED BY <1>6, <1>7
-----------------------------------------------------------------------------
\* The loop of lorieWindowBlur().

\* A turn has taken the focus from a popup it unmapped.
FocusLost(st) == focus \in visible \ st.visible

\* Why the grab of w may have ended.
MayEnd(st, w) ==
    \/ familyMember(w, Owner) \/ lorieWindowGrabPopup(Now, w, Owner) # NoWindow
    \/ FocusLost(st) /\ \E v \in Lineage(w) : FollowsFocus(v, Owner)

IsBlurState(st) ==
    /\ st = [visible |-> st.visible, grabs |-> st.grabs, focus |-> st.focus]
    /\ st.grabs \in [Devices -> Everyone \cup {NoWindow}]
    /\ Standing(st.visible, st.focus)

\* A state between turns.
Blurred(st) ==
    /\ IsBlurState(st)
    /\ st.visible \subseteq visible /\ (Owner \in visible => Owner \in st.visible)
    /\ st.focus = focus \/ FocusLost(st)
    /\ \A d \in Devices : st.grabs[d] = grabs[d] \/ (st.grabs[d] = NoWindow /\ MayEnd(st, grabs[d]))

\* The turn of d is done.
Freed(st, d) ==
    grabs[d] # NoWindow /\ familyMember(grabs[d], Owner) =>
        st.grabs[d] = NoWindow \/ (~lorieWindowBelongsTo(grabs[d], Owner) /\ FocusLost(st))

\* What later turns do not undo.
Further(st, new) ==
    /\ new.visible \subseteq st.visible
    /\ \A d \in Devices : st.grabs[d] = NoWindow => new.grabs[d] = NoWindow

LEMMA FurtherKeeps ==
    ASSUME NEW st, NEW new, Further(st, new)
    PROVE  /\ FocusLost(st) => FocusLost(new)
           /\ \A w : MayEnd(st, w) => MayEnd(new, w)
           /\ \A d \in Devices : Freed(st, d) => Freed(new, d)
<1>1. FocusLost(st) => FocusLost(new) BY DEF FocusLost, Further
<1>2. \A w : MayEnd(st, w) => MayEnd(new, w) BY <1>1, Zenon DEF MayEnd
<1>3. \A d \in Devices : Freed(st, d) => Freed(new, d) BY <1>1 DEF Freed, Further
<1> QED BY <1>1, <1>2, <1>3

\* Whoever a turn takes for a member is one, unless by the focus alone.
LEMMA MemberSince ==
    ASSUME NEW st, Blurred(st), NEW v, MemberAt(st, v, Owner)
    PROVE  familyMember(v, Owner) \/ (FollowsFocus(v, Owner) /\ FocusLost(st))
BY DEF Blurred, MemberAt, familyMember, Now

LEMMA UnmappedBlurs ==
    ASSUME FamilyInv, NEW st, Blurred(st), NEW w \in Everyone, NEW p \in PopupsOver(st, w)
    PROVE  Blurred(Unmapped(st, p)) /\ Further(st, Unmapped(st, p))
<1> DEFINE gone == Subtree(p)
           up == Parent(p)
           vs == st.visible \ gone
           gs == [d \in DOMAIN st.grabs |-> IF st.grabs[d] \in gone THEN NoWindow ELSE st.grabs[d]]
           f == IF st.focus \notin gone THEN st.focus ELSE IF up = RootWindow THEN NoWindow ELSE up
           new == [visible |-> vs, grabs |-> gs, focus |-> f]
<1>1. Unmapped(st, p) = new BY DEF Unmapped
<1>2. AreLines(lines) /\ Settled /\ Lineage(Owner) = {Owner}
  <2>1. AreLines(lines) /\ Settled /\ lines[Owner] = <<Owner>> BY DEF FamilyInv, Settled
  <2>2. ToSet(<<Owner>>) = {Owner} BY DEF ToSet
  <2> QED BY <2>1, <2>2 DEF Lineage
<1>3. /\ p \in Lineage(w) /\ p \in Everyone /\ p # Owner /\ p \in st.visible
      /\ OverrideRedirect(p) /\ MemberAt(st, p, Owner)
  BY <1>2, LineFacts DEF PopupsOver
<1>4. /\ st.grabs \in [Devices -> Everyone \cup {NoWindow}] /\ Standing(st.visible, st.focus)
      /\ st.visible \subseteq visible /\ (Owner \in visible => Owner \in st.visible)
      /\ st.focus = focus \/ FocusLost(st)
  BY DEF Blurred, IsBlurState
<1>5. gone \subseteq Everyone /\ Owner \notin gone /\ p \in gone /\ \A v \in Everyone : v \in gone <=> p \in Lineage(v)
  BY <1>2, <1>3, LineFacts DEF Subtree
<1>6. gs \in [Devices -> Everyone \cup {NoWindow}] BY <1>4
<1>7. Standing(vs, f)
  <2>1. vs \subseteq Everyone BY <1>4 DEF Standing
  <2>2. ASSUME NEW x \in vs, NEW y \in Lineage(x) PROVE y \in vs
    <3>1. x \in Everyone /\ x \in st.visible BY <2>1
    <3>2. y \in st.visible /\ y \in Everyone BY <1>4, <3>1 DEF Standing
    <3>3. y \in gone => p \in Lineage(x) BY <1>2, <1>5, <3>1, <3>2, LineageIn
    <3> QED BY <1>5, <2>2, <3>1, <3>2, <3>3
  <2>3. st.focus \in st.visible \cup {NoWindow} BY <1>4 DEF Standing
  <2>4. up # RootWindow => up \in vs
    <3> SUFFICES ASSUME up # RootWindow PROVE up \in vs OBVIOUS
    <3>1. up \in Everyone /\ up # p /\ up \in Lineage(p) BY <1>2, <1>3, NoNames, ParentFacts
    <3>2. up \in st.visible BY <1>3, <1>4, <3>1 DEF Standing
    <3>3. p \notin Lineage(up) BY <1>2, <1>3, <3>1, LineLength
    <3> HIDE DEF up, gone
    <3> QED BY <1>5, <3>1, <3>2, <3>3
  <2>5. f \in vs \cup {NoWindow} BY <2>3, <2>4
  <2> HIDE DEF f, vs
  <2> QED BY <2>1, <2>2, <2>5 DEF Standing
<1>8. st.focus \in gone => focus \in visible \ vs
  <2> SUFFICES ASSUME st.focus \in gone PROVE focus \in visible \ vs OBVIOUS
  <2>1. CASE st.focus = focus
    <3>1. focus \in visible \cup {NoWindow} BY DEF FamilyInv, Standing
    <3>2. focus # NoWindow BY <1>5, <2>1, NoNames
    <3> QED BY <2>1, <3>1, <3>2
  <2>2. CASE FocusLost(st) BY <2>2 DEF FocusLost
  <2> QED BY <1>4, <2>1, <2>2
<1> HIDE DEF vs, gs, f, gone
<1>9. new.visible = vs /\ new.grabs = gs /\ new.focus = f OBVIOUS
<1>10. FocusLost(new) <=> focus \in visible \ vs BY <1>9 DEF FocusLost
<1>11. IsBlurState(new) BY <1>6, <1>7, <1>9 DEF IsBlurState
<1>12. Further(st, new) BY <1>4, <1>9 DEF Further, gs, vs
<1>13. new.visible \subseteq visible /\ (Owner \in visible => Owner \in new.visible)
  BY <1>4, <1>5, <1>9 DEF vs
<1>14. new.focus = focus \/ FocusLost(new)
  <2>1. FocusLost(st) => FocusLost(new) BY <1>12, FurtherKeeps
  <2> QED BY <1>4, <1>8, <1>9, <1>10, <2>1 DEF f
<1>15. ASSUME NEW d \in Devices
       PROVE  new.grabs[d] = grabs[d] \/ (new.grabs[d] = NoWindow /\ MayEnd(new, grabs[d]))
  <2>1. st.grabs[d] = grabs[d] \/ (st.grabs[d] = NoWindow /\ MayEnd(st, grabs[d])) BY DEF Blurred
  <2>2. new.grabs[d] = IF st.grabs[d] \in gone THEN NoWindow ELSE st.grabs[d] BY <1>4, <1>9 DEF gs
  <2>3. MayEnd(st, grabs[d]) => MayEnd(new, grabs[d]) BY <1>12, FurtherKeeps
  <2>4. CASE st.grabs[d] \in gone /\ st.grabs[d] = grabs[d]
    <3> DEFINE g == grabs[d]
    <3>1. g \in Everyone /\ p \in Lineage(g) BY <1>5, <2>4
    <3>2. CASE familyMember(p, Owner)
      <4>1. p \in PopupsOver(Now, g)
        <5>1. p \in Now.visible BY <1>3, <1>4 DEF Now
        <5>2. MemberAt(Now, p, Owner) BY <3>2 DEF familyMember
        <5> QED BY <1>3, <3>1, <5>1, <5>2 DEF PopupsOver
      <4>2. lorieWindowGrabPopup(Now, g, Owner) # NoWindow BY <1>2, <3>1, <4>1, GrabPopupIs
      <4> QED BY <2>2, <2>4, <4>2 DEF MayEnd
    <3>3. CASE FollowsFocus(p, Owner) /\ FocusLost(st)
      <4>1. FocusLost(new) BY <1>12, <3>3, FurtherKeeps
      <4>2. MayEnd(new, g) BY <3>1, <3>3, <4>1, Zenon DEF MayEnd
      <4> QED BY <2>2, <2>4, <4>2
    <3> QED BY <1>3, <3>2, <3>3, MemberSince
  <2>5. CASE st.grabs[d] \in gone /\ st.grabs[d] # grabs[d] BY <1>5, <2>1, <2>5, NoNames
  <2>6. CASE st.grabs[d] \notin gone BY <2>1, <2>2, <2>3, <2>6
  <2> QED BY <2>4, <2>5, <2>6
<1>16. Blurred(new) BY <1>11, <1>13, <1>14, <1>15 DEF Blurred
<1> QED BY <1>1, <1>12, <1>16

LEMMA DeactivatedBlurs ==
    ASSUME FamilyInv, NEW st, Blurred(st), NEW d \in Devices
    PROVE  LET new == Deactivated(st, d, Owner)
           IN  Blurred(new) /\ Further(st, new) /\ Freed(new, d)
<1> DEFINE w == st.grabs[d]
           ends == w # NoWindow /\ MemberAt(st, w, Owner)
           new == Deactivated(st, d, Owner)
<1>1. /\ st.grabs \in [Devices -> Everyone \cup {NoWindow}]
      /\ st = [visible |-> st.visible, grabs |-> st.grabs, focus |-> st.focus]
  BY DEF Blurred, IsBlurState
<1>2. w = grabs[d] \/ (w = NoWindow /\ MayEnd(st, grabs[d])) BY DEF Blurred
<1>3. CASE ends
  <2> DEFINE gs == [st.grabs EXCEPT ![d] = NoWindow]
             end == [visible |-> st.visible, grabs |-> gs, focus |-> st.focus]
  <2>1. new = [st EXCEPT !.grabs[d] = NoWindow] BY <1>3 DEF Deactivated
  <2>2. new = end BY <1>1, <2>1
  <2>3. gs \in [Devices -> Everyone \cup {NoWindow}] /\ gs[d] = NoWindow
        /\ \A e \in Devices : e # d => gs[e] = st.grabs[e]
    BY <1>1
  <2> HIDE DEF gs
  <2>4. end.visible = st.visible /\ end.grabs = gs /\ end.focus = st.focus OBVIOUS
  <2> HIDE DEF end
  <2>5. Further(st, end) BY <2>3, <2>4 DEF Further
  <2>6. FocusLost(end) <=> FocusLost(st) BY <2>4 DEF FocusLost
  <2>7. \A x : MayEnd(st, x) => MayEnd(end, x) BY <2>5, FurtherKeeps
  <2>8. MayEnd(st, grabs[d])
    <3>1. w = grabs[d] /\ w \in Everyone BY <1>1, <1>2, <1>3
    <3>2. w \in Lineage(w) BY <3>1, LineFacts DEF FamilyInv, Settled
    <3>3. familyMember(w, Owner) \/ (FollowsFocus(w, Owner) /\ FocusLost(st)) BY <1>3, MemberSince
    <3>4. MayEnd(st, w)
      <4> HIDE DEF w
      <4> QED BY <3>2, <3>3, Zenon DEF MayEnd
    <3> QED BY <3>1, <3>4
  <2>9. ASSUME NEW e \in Devices
        PROVE  end.grabs[e] = grabs[e] \/ (end.grabs[e] = NoWindow /\ MayEnd(end, grabs[e]))
    <3>1. st.grabs[e] = grabs[e] \/ (st.grabs[e] = NoWindow /\ MayEnd(st, grabs[e])) BY DEF Blurred
    <3> QED BY <2>3, <2>4, <2>7, <2>8, <3>1
  <2>10. IsBlurState(end)
    <3>1. end = [visible |-> end.visible, grabs |-> end.grabs, focus |-> end.focus] BY <2>4 DEF end
    <3>2. Standing(end.visible, end.focus) BY <2>4 DEF Blurred, IsBlurState
    <3> QED BY <2>3, <2>4, <3>1, <3>2 DEF IsBlurState
  <2>11. Blurred(end) BY <2>4, <2>6, <2>9, <2>10 DEF Blurred
  <2>12. Freed(end, d) BY <2>3, <2>4 DEF Freed
  <2> QED BY <2>2, <2>5, <2>11, <2>12
<1>4. CASE ~ends
  <2>1. new = st BY <1>4 DEF Deactivated
  <2>2. Further(st, st) BY DEF Further
  <2>3. Freed(st, d)
    <3> SUFFICES ASSUME grabs[d] # NoWindow, familyMember(grabs[d], Owner), w # NoWindow
                 PROVE  ~lorieWindowBelongsTo(grabs[d], Owner) /\ FocusLost(st)
      BY DEF Freed
    <3>1. w = grabs[d] BY <1>2
    <3>2. ~MemberAt(st, w, Owner) BY <1>4
    <3>3. st.focus # focus BY <3>1, <3>2 DEF familyMember, MemberAt, Now
    <3>4. FocusLost(st) BY <3>3 DEF Blurred
    <3> QED BY <3>1, <3>2, <3>4 DEF MemberAt
  <2> QED BY <2>1, <2>2, <2>3
<1> QED BY <1>3, <1>4

LEMMA LoosenedBlurs ==
    ASSUME FamilyInv, NEW st, Blurred(st), NEW d \in Devices
    PROVE  LET new == Loosened(st, d, Owner)
           IN  Blurred(new) /\ Further(st, new) /\ Freed(new, d)
<1> DEFINE w == st.grabs[d]
           popup == IF w = NoWindow THEN NoWindow ELSE lorieWindowGrabPopup(st, w, Owner)
           mid == IF popup # NoWindow /\ kinds[popup] # "tooltip" THEN Unmapped(st, popup) ELSE st
<1>1. Loosened(st, d, Owner) = Deactivated(mid, d, Owner) BY DEF Loosened
<1>2. Blurred(mid) /\ Further(st, mid)
  <2>1. CASE popup # NoWindow /\ kinds[popup] # "tooltip"
    <3>1. w \in Everyone BY <2>1 DEF Blurred, IsBlurState
    <3>2. popup \in PopupsOver(st, w) BY <2>1, <3>1, GrabPopupIs DEF FamilyInv
    <3> HIDE DEF w, popup
    <3>3. Blurred(Unmapped(st, popup)) /\ Further(st, Unmapped(st, popup)) BY <3>1, <3>2, UnmappedBlurs
    <3> QED BY <2>1, <3>3
  <2>2. CASE ~(popup # NoWindow /\ kinds[popup] # "tooltip")
    <3>1. mid = st BY <2>2
    <3>2. Further(st, st) BY DEF Further
    <3> HIDE DEF mid
    <3> QED BY <3>1, <3>2
  <2> QED BY <2>1, <2>2
<1> HIDE DEF mid
<1> DEFINE new == Deactivated(mid, d, Owner)
<1>3. Blurred(new) /\ Further(mid, new) /\ Freed(new, d) BY <1>2, DeactivatedBlurs
<1>4. Further(st, new)
  <2> HIDE DEF new
  <2> QED BY <1>2, <1>3 DEF Further
<1> QED BY <1>1, <1>3, <1>4

BlurTurns(f) ==
    f = [n \in 0..Len(GrabDevices) |-> IF n = 0 THEN Now ELSE Loosened(f[n - 1], GrabDevices[n], Owner)]

BlurRun == CHOOSE f : BlurTurns(f)

\* lorieWindowBlur() in these terms.
LEMMA BlurIsRun ==
    ASSUME lorieWindowBlur(Owner)
    PROVE  LET end == BlurRun[Len(GrabDevices)]
           IN  /\ visible' = end.visible /\ grabs' = end.grabs
               /\ focus' = IF lorieWindowBelongsTo(end.focus, Owner) THEN NoWindow ELSE end.focus
               /\ UNCHANGED <<structure, order>>
BY DEF lorieWindowBlur, BlurRun, BlurTurns

\* The states a blur goes through.
BlurStates ==
    {st \in [visible : SUBSET Everyone, grabs : [Devices -> Everyone \cup {NoWindow}],
             focus : Everyone \cup {NoWindow}] : Blurred(st)}

LEMMA BlurStatesAre == \A st : st \in BlurStates <=> Blurred(st)
<1>1. ASSUME NEW st, Blurred(st)
      PROVE  st \in [visible : SUBSET Everyone, grabs : [Devices -> Everyone \cup {NoWindow}],
                     focus : Everyone \cup {NoWindow}]
  <2>1. /\ st = [visible |-> st.visible, grabs |-> st.grabs, focus |-> st.focus]
        /\ st.visible \in SUBSET Everyone /\ st.grabs \in [Devices -> Everyone \cup {NoWindow}]
        /\ st.focus \in Everyone \cup {NoWindow}
    BY <1>1 DEF Blurred, IsBlurState, Standing
  <2> QED BY <2>1
<1> QED BY <1>1 DEF BlurStates

LEMMA BlurRunIs == ASSUME FamilyInv PROVE BlurTurns(BlurRun)
<1> DEFINE N == Len(GrabDevices)
           X == BlurStates
           step == [p \in X \X (1..N) |-> Loosened(p[1], GrabDevices[p[2]], Owner)]
           base == Now
<1>1. N \in Nat /\ \A n \in 1..N : GrabDevices[n] \in Devices BY DevicesAre
<1>2. base \in X
  <2>1. IsBlurState(Now) BY DEF IsBlurState, Now, FamilyInv
  <2>2. Blurred(Now) BY <2>1 DEF Blurred, Now
  <2> QED BY <2>2, BlurStatesAre
<1>3. IsLoop(step, X, N)
  <2>1. ASSUME NEW st \in X, NEW n \in 1..N PROVE Loosened(st, GrabDevices[n], Owner) \in X
    <3>1. Blurred(st) /\ GrabDevices[n] \in Devices BY <1>1, BlurStatesAre
    <3>2. Blurred(Loosened(st, GrabDevices[n], Owner)) BY <3>1, LoosenedBlurs
    <3> QED BY <3>2, BlurStatesAre
  <2> HIDE DEF X, N
  <2> QED BY <2>1 DEF IsLoop
<1>4. PICK g : IsRun(g, X, N, base, step)
  <2> HIDE DEF N, X, step, base
  <2> QED BY ONLY <1>1, <1>2, <1>3, Turns
<1>5. g \in [0..N -> X] /\ g[0] = Now /\ \A n \in 1..N : g[n] = Loosened(g[n - 1], GrabDevices[n], Owner)
  <2> HIDE DEF X, N
  <2>0. g \in [0..N -> X] /\ g[0] = base /\ \A n \in 1..N : g[n] = step[<<g[n - 1], n>>]
    BY <1>4, Zenon DEF IsRun
  <2>1. ASSUME NEW n \in 1..N PROVE g[n] = Loosened(g[n - 1], GrabDevices[n], Owner)
    <3>1. n - 1 \in 0..N BY <1>1
    <3>2. g[n - 1] \in X BY <2>0, <3>1
    <3>3. g[n] = step[<<g[n - 1], n>>] BY <2>0
    <3> QED BY <3>2, <3>3
  <2> QED BY <2>0, <2>1
<1>6. BlurTurns(g)
  <2>1. \A n \in 0..N : n # 0 => n \in 1..N OBVIOUS
  <2>2. g = [n \in 0..N |-> g[n]] BY <1>5
  <2>3. \A n \in 0..N : g[n] = IF n = 0 THEN Now ELSE Loosened(g[n - 1], GrabDevices[n], Owner) BY <1>5, <2>1
  <2> QED BY <2>2, <2>3 DEF BlurTurns
<1> QED BY <1>6, Zenon DEF BlurRun

LEMMA BlurEnd ==
    ASSUME FamilyInv
    PROVE  LET end == BlurRun[Len(GrabDevices)]
           IN  Blurred(end) /\ \A d \in Devices : Freed(end, d)
<1> DEFINE N == Len(GrabDevices)
           f == BlurRun
           h == [n \in 0..N |-> IF n = 0 THEN Now ELSE Loosened(f[n - 1], GrabDevices[n], Owner)]
<1>1. N \in Nat /\ (\A n \in 1..N : GrabDevices[n] \in Devices)
      /\ \A d \in Devices : \E k \in 1..N : GrabDevices[k] = d
  BY DevicesAre
<1>2. f = h BY BlurRunIs DEF BlurTurns
<1>3. h[0] = Now /\ \A n \in 1..N : h[n] = Loosened(f[n - 1], GrabDevices[n], Owner) BY <1>1
<1> HIDE DEF f, h, N
<1>4. f[0] = Now /\ \A n \in 1..N : f[n] = Loosened(f[n - 1], GrabDevices[n], Owner) BY <1>2, <1>3
<1> DEFINE Done(n) == Blurred(f[n]) /\ \A k \in 1..n : Freed(f[n], GrabDevices[k])
           Good == {n \in 0..N : Done(n)}
<1>5. 0 \in Good
  <2>1. IsBlurState(Now) BY DEF IsBlurState, Now, FamilyInv
  <2>2. Blurred(Now) BY <2>1 DEF Blurred, Now
  <2> QED BY <1>1, <1>4, <2>2
<1>6. ASSUME NEW n \in 1..N, n - 1 \in Good PROVE n \in Good
  <2> DEFINE st == f[n - 1]
             d == GrabDevices[n]
             new == Loosened(st, d, Owner)
  <2>1. Blurred(st) /\ (\A k \in 1..(n - 1) : Freed(st, GrabDevices[k])) /\ d \in Devices BY <1>1, <1>6
  <2>2. f[n] = new BY <1>4
  <2> HIDE DEF st, d
  <2>3. Blurred(new) /\ Further(st, new) /\ Freed(new, d) BY <2>1, LoosenedBlurs
  <2> HIDE DEF new
  <2>4. ASSUME NEW k \in 1..n PROVE Freed(new, GrabDevices[k])
    <3>1. CASE k = n BY <2>3, <3>1 DEF d
    <3>2. CASE k # n
      <4>1. k \in 1..(n - 1) /\ k \in 1..N BY <1>1, <3>2
      <4>2. Freed(st, GrabDevices[k]) /\ GrabDevices[k] \in Devices BY <1>1, <2>1, <4>1
      <4> QED BY <2>3, <4>2, FurtherKeeps
    <3> QED BY <3>1, <3>2
  <2>5. Done(n) BY <2>2, <2>3, <2>4
  <2> HIDE DEF Done
  <2> QED BY <1>1, <2>5
<1>7. Done(N)
  <2>1. \A n \in 0..N : n \in Good
    <3> HIDE DEF Good
    <3> QED BY <1>1, <1>5, <1>6, Counting
  <2>2. N \in 0..N BY <1>1
  <2> HIDE DEF Done
  <2> QED BY <2>1, <2>2
<1>8. \A d \in Devices : Freed(f[N], d) BY <1>1, <1>7
<1> QED BY <1>7, <1>8 DEF f, N

\* The walk of lorieWindowFamilyContains() over lines ls and links ts.
WalkTurns(f, ls, ts, w, owner) ==
    f = [n \in 0..LinkLimit |->
          IF n = 0 THEN [at |-> w, link |-> NoWindow, over |-> FALSE]
          ELSE LET s == f[n - 1]
                   up == IF Len(ls[s.at]) = 1 THEN RootWindow ELSE ls[s.at][2]
                   link == IF s.link # NoWindow THEN s.link ELSE ts[s.at]
               IN  IF s.over \/ s.at = owner THEN [s EXCEPT !.over = TRUE]
                   ELSE IF up # RootWindow THEN [s EXCEPT !.at = up, !.link = link]
                   ELSE IF link \in Everyone THEN [s EXCEPT !.at = link, !.link = NoWindow]
                   ELSE [s EXCEPT !.over = TRUE]]

WalkRun(ls, ts, w, owner) == CHOOSE f : WalkTurns(f, ls, ts, w, owner)

WalkFinds(ls, ts, w, owner) ==
    WalkRun(ls, ts, w, owner)[LinkLimit].over /\ WalkRun(ls, ts, w, owner)[LinkLimit].at = owner

LEMMA ContainsIs ==
    ASSUME NEW w, NEW owner
    PROVE  lorieWindowFamilyContains(w, owner) = WalkFinds(lines, transients, w, owner)
BY DEF lorieWindowFamilyContains, Link, Parent, WalkFinds, WalkRun, WalkTurns

\* The structure stays, and the operators that read only it.
LEMMA SettledStays ==
    ASSUME Settled, UNCHANGED structure
    PROVE  Settled'
<1>1. lines' = lines /\ transients' = transients /\ kinds' = kinds /\ leaders' = leaders /\ kin' = kin
  BY DEF structure
<1>2. ASSUME NEW w, NEW owner
      PROVE  lorieWindowFamilyContains(w, owner)' = WalkFinds(lines', transients', w, owner)
  BY DEF lorieWindowFamilyContains, Link, Parent, WalkFinds, WalkRun, WalkTurns
<1>3. \A w, owner : lorieWindowFamilyContains(w, owner)' = lorieWindowFamilyContains(w, owner)
  BY <1>1, <1>2, ContainsIs
<1> QED BY <1>1, <1>3 DEF Settled

\* What BlurEndsFamilyGrabs says of a step.
BlurIsRight ==
    /\ \A d \in DOMAIN grabs :
         LET w == grabs[d]
         IN  w # NoWindow =>
             /\ grabs'[d] = NoWindow \/ grabs'[d] = w
             /\ grabs'[d] = NoWindow =>
                  \/ familyMember(w, Owner) \/ lorieWindowGrabPopup(Now, w, Owner) # NoWindow
                  \/ focus \in visible \ visible' /\ \E v \in Lineage(w) : FollowsFocus(v, Owner)
             /\ familyMember(w, Owner) =>
                  \/ grabs'[d] = NoWindow
                  \/ ~lorieWindowBelongsTo(w, Owner) /\ focus \in visible \ visible'
    /\ ~lorieWindowBelongsTo(focus', Owner)
    /\ \A w \in visible \ visible' : w # Owner

LEMMA BlurStep ==
    ASSUME FamilyInv, lorieWindowBlur(Owner)
    PROVE  FamilyInv' /\ BlurIsRight
<1> DEFINE end == BlurRun[Len(GrabDevices)]
<1>1. /\ visible' = end.visible /\ grabs' = end.grabs
      /\ focus' = IF lorieWindowBelongsTo(end.focus, Owner) THEN NoWindow ELSE end.focus
      /\ UNCHANGED <<structure, order>>
  BY BlurIsRun
<1>2. Blurred(end) /\ \A d \in Devices : Freed(end, d) BY BlurEnd
<1> HIDE DEF end
<1>3. Settled' BY <1>1, SettledStays DEF FamilyInv
<1>4. IsStacking(order, lines)' BY <1>1 DEF FamilyInv, structure
<1>5. grabs' \in [Devices -> Everyone \cup {NoWindow}] BY <1>1, <1>2 DEF Blurred, IsBlurState
<1>6. Standing(visible', focus')
  <2>1. Standing(end.visible, end.focus) BY <1>2 DEF Blurred, IsBlurState
  <2> QED BY <1>1, <2>1 DEF Standing
<1>7. Standing(visible, focus)'
  <2>1. lines' = lines BY <1>1 DEF structure
  <2> QED BY <1>6, <2>1 DEF Standing, Lineage
<1>8. FamilyInv' BY <1>3, <1>4, <1>5, <1>7 DEF FamilyInv
<1>9. ~lorieWindowBelongsTo(focus', Owner)
  <2>1. ~lorieWindowBelongsTo(NoWindow, Owner) BY KinAreWindows, NoNames DEF FamilyInv
  <2> QED BY <1>1, <2>1
<1>10. \A w \in visible \ visible' : w # Owner BY <1>1, <1>2 DEF Blurred
<1>11. FocusLost(end) <=> focus \in visible \ visible' BY <1>1 DEF FocusLost
<1>12. ASSUME NEW d \in DOMAIN grabs, grabs[d] # NoWindow
       PROVE  /\ grabs'[d] = NoWindow \/ grabs'[d] = grabs[d]
              /\ grabs'[d] = NoWindow => MayEnd(end, grabs[d])
              /\ familyMember(grabs[d], Owner) =>
                   grabs'[d] = NoWindow \/ (~lorieWindowBelongsTo(grabs[d], Owner) /\ FocusLost(end))
  <2>1. d \in Devices BY DEF FamilyInv
  <2>2. end.grabs[d] = grabs[d] \/ (end.grabs[d] = NoWindow /\ MayEnd(end, grabs[d])) BY <1>2, <2>1 DEF Blurred
  <2>3. Freed(end, d) BY <1>2, <2>1
  <2>4. grabs'[d] = end.grabs[d] BY <1>1
  <2> QED BY <1>12, <2>2, <2>3, <2>4 DEF Freed
<1>13. ASSUME NEW w, MayEnd(end, w)
       PROVE  \/ familyMember(w, Owner) \/ lorieWindowGrabPopup(Now, w, Owner) # NoWindow
              \/ focus \in visible \ visible' /\ \E v \in Lineage(w) : FollowsFocus(v, Owner)
  <2> DEFINE a == familyMember(w, Owner)
             b == lorieWindowGrabPopup(Now, w, Owner) # NoWindow
             c == \E v \in Lineage(w) : FollowsFocus(v, Owner)
  <2>1. a \/ b \/ (FocusLost(end) /\ c) BY <1>13, Zenon DEF MayEnd
  <2> HIDE DEF a, b, c
  <2>2. a \/ b \/ (focus \in visible \ visible' /\ c) BY <1>11, <2>1
  <2> QED BY <2>2 DEF a, b, c
<1>14. BlurIsRight BY <1>9, <1>10, <1>11, <1>12, <1>13, Zenon DEF BlurIsRight
<1> QED BY <1>8, <1>14
-----------------------------------------------------------------------------
\* Stackings as an order of the windows.

IsOnce(s) == \A v : ~Under(s, v, v)

LEMMA OnceIs == ASSUME NEW X, NEW s \in Seq(X) PROVE IsInjective(s) <=> IsOnce(s)
<1>1. DOMAIN s = 1..Len(s) /\ Len(s) \in Nat OBVIOUS
<1>2. ASSUME IsInjective(s), NEW v, Under(s, v, v) PROVE FALSE
  <2>1. PICK i, j \in 1..Len(s) : i < j /\ s[i] = v /\ s[j] = v BY <1>2 DEF Under
  <2> QED BY <1>1, <1>2, <2>1 DEF IsInjective
<1>3. ASSUME IsOnce(s), NEW i \in 1..Len(s), NEW j \in 1..Len(s), s[i] = s[j] PROVE i = j
  <2>1. ~(i < j) /\ ~(j < i) BY <1>3 DEF IsOnce, Under
  <2> QED BY <2>1
<1> QED BY <1>1, <1>2, <1>3 DEF IsInjective, IsOnce

\* Where nothing occurs twice, one of two comes first, and only one.
LEMMA UnderOrder ==
    ASSUME NEW X, NEW s \in Seq(X), IsOnce(s)
    PROVE  /\ \A u, v : u \in ToSet(s) /\ v \in ToSet(s) /\ u # v => Under(s, u, v) \/ Under(s, v, u)
           /\ \A u, v : Under(s, u, v) => ~Under(s, v, u)
           /\ \A u, v : Under(s, u, v) => u \in ToSet(s) /\ v \in ToSet(s) /\ u # v
           /\ \A i, j \in 1..Len(s) : Under(s, s[i], s[j]) <=> i < j
<1>1. DOMAIN s = 1..Len(s) /\ Len(s) \in Nat OBVIOUS
<1>2. \A i, j \in 1..Len(s) : s[i] = s[j] => i = j BY <1>1, OnceIs DEF IsInjective
<1>3. ASSUME NEW u \in ToSet(s), NEW v \in ToSet(s), u # v PROVE Under(s, u, v) \/ Under(s, v, u)
  <2>1. PICK i, j \in 1..Len(s) : s[i] = u /\ s[j] = v BY <1>1 DEF ToSet
  <2>2. i < j \/ j < i BY <1>3, <2>1
  <2> QED BY <2>1, <2>2 DEF Under
<1>4. ASSUME NEW i \in 1..Len(s), NEW j \in 1..Len(s) PROVE Under(s, s[i], s[j]) <=> i < j
  <2>1. Under(s, s[i], s[j]) => i < j BY <1>2 DEF Under
  <2>2. i < j => Under(s, s[i], s[j]) BY DEF Under
  <2> QED BY <2>1, <2>2
<1>5. ASSUME NEW u, NEW v, Under(s, u, v) PROVE ~Under(s, v, u) /\ u \in ToSet(s) /\ v \in ToSet(s) /\ u # v
  <2>1. PICK i, j \in 1..Len(s) : i < j /\ s[i] = u /\ s[j] = v BY <1>5 DEF Under
  <2>2. ~Under(s, v, u) BY <1>4, <2>1
  <2>3. u \in ToSet(s) /\ v \in ToSet(s) BY <1>1, <2>1 DEF ToSet
  <2>4. u # v BY <1>2, <2>1
  <2> QED BY <2>2, <2>3, <2>4
<1> QED BY <1>3, <1>4, <1>5

\* The place of a window.
LEMMA PlaceOrder ==
    ASSUME NEW X, NEW s \in Seq(X), IsOnce(s), NEW u \in ToSet(s), NEW v \in ToSet(s)
    PROVE  Place(s, u) < Place(s, v) <=> Under(s, u, v)
<1>1. DOMAIN s = 1..Len(s) OBVIOUS
<1>2. ASSUME NEW w \in ToSet(s) PROVE Place(s, w) \in 1..Len(s) /\ s[Place(s, w)] = w
  <2>1. \E i \in 1..Len(s) : s[i] = w BY <1>1 DEF ToSet
  <2> QED BY <2>1, Zenon DEF Place
<1> DEFINE i == Place(s, u)
           j == Place(s, v)
<1>3. i \in 1..Len(s) /\ j \in 1..Len(s) /\ s[i] = u /\ s[j] = v BY <1>2
<1> HIDE DEF i, j
<1>4. i < j <=> Under(s, u, v) BY <1>3, UnderOrder
<1> QED BY <1>4 DEF i, j

\* IsStacking() as an order.
IsStacked(stack) ==
    /\ stack \in Seq(Everyone) /\ ToSet(stack) = Everyone /\ IsOnce(stack)
    /\ \A w \in Everyone : \A u \in Lineage(w) \ {w} :
         Under(stack, u, w) /\ \A v : Under(stack, u, v) /\ Under(stack, v, w) => u \in Lineage(v)

LEMMA StackedIs ==
    ASSUME NEW stack, AreLines(lines)
    PROVE  IsStacking(stack, lines) <=> IsStacked(stack)
<1>1. ASSUME IsStacking(stack, lines) PROVE IsStacked(stack)
  <2>1. stack \in Seq(Everyone) /\ ToSet(stack) = Everyone /\ IsOnce(stack) BY <1>1, OnceIs DEF IsStacking
  <2>2. DOMAIN stack = 1..Len(stack) BY <2>1
  <2>3. ASSUME NEW w \in Everyone, NEW u \in Lineage(w), u # w
        PROVE  Under(stack, u, w) /\ \A v : Under(stack, u, v) /\ Under(stack, v, w) => u \in Lineage(v)
    <3>1. u \in Everyone BY LineFacts
    <3>2. PICK i, k \in 1..Len(stack) : stack[i] = u /\ stack[k] = w BY <2>1, <2>2, <3>1 DEF ToSet
    <3>3. stack[i] \in ToSet(lines[stack[k]]) BY <2>3, <3>2 DEF Lineage
    <3>4. i <= k /\ \A j \in i..k : stack[i] \in ToSet(lines[stack[j]]) BY <1>1, <3>3 DEF IsStacking
    <3>5. i < k BY <2>3, <3>2, <3>4
    <3>6. Under(stack, u, w) BY <3>2, <3>5 DEF Under
    <3>7. ASSUME NEW v, Under(stack, u, v), Under(stack, v, w) PROVE u \in Lineage(v)
      <4>1. v \in ToSet(stack) BY <2>1, <3>7, UnderOrder
      <4>2. PICK j \in 1..Len(stack) : stack[j] = v BY <2>2, <4>1 DEF ToSet
      <4>3. i < j /\ j < k BY <2>1, <3>2, <3>7, <4>2, UnderOrder
      <4>4. j \in i..k BY <4>3
      <4> QED BY <3>2, <3>4, <4>2, <4>4 DEF Lineage
    <3> QED BY <3>6, <3>7
  <2> QED BY <2>1, <2>3 DEF IsStacked
<1>2. ASSUME IsStacked(stack) PROVE IsStacking(stack, lines)
  <2>1. stack \in Seq(Everyone) /\ ToSet(stack) = Everyone /\ IsOnce(stack) /\ IsInjective(stack)
    BY <1>2, OnceIs DEF IsStacked
  <2>2. \A i \in 1..Len(stack) : stack[i] \in Everyone BY <2>1
  <2>3. ASSUME NEW i \in 1..Len(stack), NEW k \in 1..Len(stack), stack[i] \in ToSet(lines[stack[k]])
        PROVE  i <= k /\ \A j \in i..k : stack[i] \in ToSet(lines[stack[j]])
    <3> DEFINE u == stack[i]
               w == stack[k]
    <3>1. u \in Lineage(w) /\ w \in Everyone /\ u \in Everyone BY <2>2, <2>3 DEF Lineage
    <3>2. u \in ToSet(lines[u]) BY <3>1, LineFacts DEF Lineage
    <3>3. CASE u = w
      <4>1. i = k BY <2>1, <3>3 DEF IsInjective
      <4>2. \A j \in i..k : j = i BY <4>1
      <4> QED BY <3>2, <4>1, <4>2
    <3>4. CASE u # w
      <4>1. Under(stack, u, w) /\ \A v : Under(stack, u, v) /\ Under(stack, v, w) => u \in Lineage(v)
        BY <1>2, <3>1, <3>4 DEF IsStacked
      <4>2. i < k BY <2>1, <4>1, UnderOrder
      <4>3. ASSUME NEW j \in i..k PROVE stack[i] \in ToSet(lines[stack[j]])
        <5>0. j \in 1..Len(stack) BY <2>1
        <5>1. CASE j = i BY <3>2, <5>1
        <5>2. CASE j = k BY <2>3, <5>2
        <5>3. CASE j # i /\ j # k
          <6>1. i < j /\ j < k BY <5>3
          <6>2. Under(stack, u, stack[j]) /\ Under(stack, stack[j], w) BY <5>0, <6>1 DEF Under
          <6> QED BY <4>1, <6>2 DEF Lineage
        <5> QED BY <5>1, <5>2, <5>3
      <4> QED BY <4>2, <4>3
    <3> QED BY <3>3, <3>4
  <2> QED BY <2>1, <2>3 DEF IsStacking
<1> QED BY <1>1, <1>2

\* Raised() as an order: the subtree of the top level goes above the others.
LEMMA RaisedOrder ==
    ASSUME AreLines(lines), NEW stack, IsStacked(stack), NEW w \in Everyone
    PROVE  /\ IsStacked(Raised(stack, w))
           /\ \A u, v \in Everyone : Under(Raised(stack, w), u, v) <=>
                \/ TopLevel(u) # TopLevel(w) /\ TopLevel(v) = TopLevel(w)
                \/ (TopLevel(u) = TopLevel(w) <=> TopLevel(v) = TopLevel(w)) /\ Under(stack, u, v)
<1> DEFINE T == Subtree(TopLevel(w))
           a == Kept(stack, Everyone \ T)
           b == Kept(stack, T)
           new == Raised(stack, w)
           In(x) == TopLevel(x) = TopLevel(w)
<1>1. new = a \o b BY DEF Raised
<1>2. stack \in Seq(Everyone) /\ ToSet(stack) = Everyone /\ IsOnce(stack) BY DEF IsStacked
<1>3. \A x \in Everyone : x \in T <=> In(x) BY NoNames, TopSubtree
<1>4. T \subseteq Everyone BY NoNames, TopSubtree
<1>5. /\ a \in Seq(Everyone)
      /\ \A x : x \in ToSet(a) <=> x \in ToSet(stack) /\ x \in Everyone \ T
      /\ \A u, v : Under(a, u, v) <=> Under(stack, u, v) /\ u \in Everyone \ T /\ v \in Everyone \ T
  <2> DEFINE S == Everyone \ T
  <2> HIDE DEF S
  <2>1. /\ Kept(stack, S) \in Seq(Everyone)
        /\ \A x : x \in ToSet(Kept(stack, S)) <=> x \in ToSet(stack) /\ x \in S
        /\ \A u, v : Under(Kept(stack, S), u, v) <=> Under(stack, u, v) /\ u \in S /\ v \in S
    BY <1>2, KeptFacts
  <2> QED BY <2>1 DEF S
<1>6. /\ b \in Seq(Everyone)
      /\ \A x : x \in ToSet(b) <=> x \in ToSet(stack) /\ x \in T
      /\ \A u, v : Under(b, u, v) <=> Under(stack, u, v) /\ u \in T /\ v \in T
  <2> HIDE DEF T
  <2> QED BY <1>2, KeptFacts
<1> HIDE DEF a, b, T, new
<1>7. /\ a \o b \in Seq(Everyone)
      /\ \A x : x \in ToSet(a \o b) <=> x \in ToSet(a) \/ x \in ToSet(b)
      /\ \A u, v : Under(a \o b, u, v) <=> Under(a, u, v) \/ Under(b, u, v) \/ (u \in ToSet(a) /\ v \in ToSet(b))
  BY <1>5, <1>6, InJoined
<1>8. new \in Seq(Everyone) /\ ToSet(new) = Everyone BY <1>1, <1>2, <1>4, <1>5, <1>6, <1>7
<1>9. \A u, v : Under(new, u, v) <=>
        \/ Under(stack, u, v) /\ u \in Everyone \ T /\ v \in Everyone \ T
        \/ Under(stack, u, v) /\ u \in T /\ v \in T
        \/ u \in Everyone \ T /\ v \in T
  BY ONLY <1>1, <1>2, <1>4, <1>5, <1>6, <1>7
<1>10. ASSUME NEW u \in Everyone, NEW v \in Everyone
       PROVE  Under(new, u, v) <=> (~In(u) /\ In(v)) \/ ((In(u) <=> In(v)) /\ Under(stack, u, v))
  <2>1. (u \in T <=> In(u)) /\ (v \in T <=> In(v)) BY <1>3
  <2>2. Under(new, u, v) <=> (u \notin T /\ v \in T) \/ ((u \in T <=> v \in T) /\ Under(stack, u, v))
    BY ONLY <1>9, u \in Everyone, v \in Everyone
  <2> QED BY ONLY <2>1, <2>2
<1>11. IsOnce(new) BY <1>2, <1>9 DEF IsOnce
<1>12. ASSUME NEW x \in Everyone, NEW u \in Lineage(x), u # x
       PROVE  Under(new, u, x) /\ \A v : Under(new, u, v) /\ Under(new, v, x) => u \in Lineage(v)
  <2>1. u \in Everyone /\ TopLevel(u) = TopLevel(x) BY LineFacts, NoNames, TopFacts
  <2>2. In(u) <=> In(x) BY <2>1
  <2>3. Under(stack, u, x) /\ \A v : Under(stack, u, v) /\ Under(stack, v, x) => u \in Lineage(v)
    BY <1>12 DEF IsStacked
  <2>4. Under(new, u, x) BY <1>10, <2>1, <2>2, <2>3
  <2>5. ASSUME NEW v, Under(new, u, v), Under(new, v, x) PROVE u \in Lineage(v)
    <3>1. v \in Everyone BY <1>8, <1>11, <2>5, UnderOrder
    <3>2. \/ ~In(u) /\ In(v)
          \/ (In(u) <=> In(v)) /\ Under(stack, u, v)
      BY <1>10, <2>1, <2>5, <3>1
    <3>3. \/ ~In(v) /\ In(x)
          \/ (In(v) <=> In(x)) /\ Under(stack, v, x)
      BY <1>10, <2>5, <3>1
    <3> HIDE DEF In
    <3> QED BY <2>2, <2>3, <3>2, <3>3
  <2> QED BY <2>4, <2>5
<1>13. IsStacked(new) BY <1>8, <1>11, <1>12 DEF IsStacked
<1>14. \A u, v \in Everyone : Under(new, u, v) <=>
                \/ TopLevel(u) # TopLevel(w) /\ TopLevel(v) = TopLevel(w)
                \/ (TopLevel(u) = TopLevel(w) <=> TopLevel(v) = TopLevel(w)) /\ Under(stack, u, v)
  BY ONLY <1>10
<1> QED BY ONLY <1>13, <1>14 DEF new
-----------------------------------------------------------------------------
\* The loop of lorieWindowActivationApply().

RestackTurns(f, m) ==
    f = [n \in 0..Len(m) |-> IF n = 0 THEN order ELSE Raised(f[n - 1], m[n])]

RestackRun(m) == CHOOSE f : RestackTurns(f, m)

LEMMA RestackedIs ==
    ASSUME NEW owner
    PROVE  Restacked(owner) = RestackRun(Collected(owner))[Len(Collected(owner))]
BY DEF Restacked, RestackRun, RestackTurns

LEMMA RestackRunIs ==
    ASSUME FamilyInv, NEW m \in Seq(Everyone)
    PROVE  RestackTurns(RestackRun(m), m)
<1> DEFINE N == Len(m)
           X == {stack \in Seq(Everyone) : IsStacked(stack)}
           step == [p \in X \X (1..N) |-> Raised(p[1], m[p[2]])]
<1>1. N \in Nat /\ \A n \in 1..N : m[n] \in Everyone OBVIOUS
<1>a. AreLines(lines) BY DEF FamilyInv, Settled
<1>b. \A stack : stack \in X <=> IsStacked(stack) BY DEF IsStacked
<1> HIDE DEF X
<1>2. order \in X BY <1>a, <1>b, StackedIs DEF FamilyInv
<1>3. IsLoop(step, X, N)
  <2>1. ASSUME NEW st \in X, NEW n \in 1..N PROVE Raised(st, m[n]) \in X
    <3>1. IsStacked(st) /\ m[n] \in Everyone BY <1>1, <1>b
    <3>2. IsStacked(Raised(st, m[n])) BY <1>a, <3>1, RaisedOrder
    <3> QED BY <1>b, <3>2
  <2> HIDE DEF N
  <2> QED BY <2>1 DEF IsLoop
<1>4. PICK g : IsRun(g, X, N, order, step)
  <2> HIDE DEF N, step
  <2> QED BY ONLY <1>1, <1>2, <1>3, Turns
<1>5. g \in [0..N -> X] /\ g[0] = order /\ \A n \in 1..N : g[n] = Raised(g[n - 1], m[n])
  <2> HIDE DEF N
  <2>0. g \in [0..N -> X] /\ g[0] = order /\ \A n \in 1..N : g[n] = step[<<g[n - 1], n>>]
    BY <1>4, Zenon DEF IsRun
  <2>1. ASSUME NEW n \in 1..N PROVE g[n] = Raised(g[n - 1], m[n])
    <3>1. n - 1 \in 0..N BY <1>1
    <3>2. g[n - 1] \in X BY <2>0, <3>1
    <3>3. g[n] = step[<<g[n - 1], n>>] BY <2>0
    <3> QED BY <3>2, <3>3
  <2> QED BY <2>0, <2>1
<1>6. RestackTurns(g, m)
  <2>1. \A n \in 0..N : n # 0 => n \in 1..N OBVIOUS
  <2>2. g = [n \in 0..N |-> g[n]] BY <1>5
  <2>3. \A n \in 0..N : g[n] = IF n = 0 THEN order ELSE Raised(g[n - 1], m[n]) BY <1>5, <2>1
  <2> QED BY <2>2, <2>3 DEF RestackTurns
<1> QED BY <1>6, Zenon DEF RestackRun

\* In the first n turns the top-level window of v was raised after that of u.
Later(m, n, u, v) ==
    \E j \in 1..n : TopLevel(m[j]) = TopLevel(v) /\ \A i \in j..n : TopLevel(m[i]) # TopLevel(u)

LEMMA LaterNext ==
    ASSUME NEW m, NEW n \in Nat, NEW u, NEW v
    PROVE  /\ Later(m, n + 1, u, v) <=>
                TopLevel(m[n + 1]) # TopLevel(u) /\ (TopLevel(m[n + 1]) = TopLevel(v) \/ Later(m, n, u, v))
           /\ TopLevel(u) = TopLevel(v) => ~Later(m, n, u, v)
<1>1. \A j \in 1..(n + 1) : n + 1 \in j..(n + 1) /\ \A i \in j..n : i \in j..(n + 1) OBVIOUS
<1>2. \A j \in 1..n : \A i \in j..(n + 1) : i = n + 1 \/ i \in j..n OBVIOUS
<1>3. \A j \in 1..(n + 1) : j = n + 1 \/ j \in 1..n OBVIOUS
<1>4. \A i \in (n + 1)..(n + 1) : i = n + 1 OBVIOUS
<1>5. n + 1 \in 1..(n + 1) /\ \A j \in 1..n : j \in 1..(n + 1) OBVIOUS
<1>6. ASSUME Later(m, n + 1, u, v)
      PROVE  TopLevel(m[n + 1]) # TopLevel(u) /\ (TopLevel(m[n + 1]) = TopLevel(v) \/ Later(m, n, u, v))
  <2>1. PICK j \in 1..(n + 1) : TopLevel(m[j]) = TopLevel(v) /\ \A i \in j..(n + 1) : TopLevel(m[i]) # TopLevel(u)
    BY <1>6 DEF Later
  <2>2. TopLevel(m[n + 1]) # TopLevel(u) BY <1>1, <2>1
  <2>3. j \in 1..n => Later(m, n, u, v) BY <1>1, <2>1 DEF Later
  <2> QED BY <1>3, <2>1, <2>2, <2>3
<1>7. ASSUME TopLevel(m[n + 1]) # TopLevel(u), TopLevel(m[n + 1]) = TopLevel(v)
      PROVE  Later(m, n + 1, u, v)
  BY <1>4, <1>5, <1>7 DEF Later
<1>8. ASSUME TopLevel(m[n + 1]) # TopLevel(u), Later(m, n, u, v) PROVE Later(m, n + 1, u, v)
  <2>1. PICK j \in 1..n : TopLevel(m[j]) = TopLevel(v) /\ \A i \in j..n : TopLevel(m[i]) # TopLevel(u)
    BY <1>8 DEF Later
  <2>2. \A i \in j..(n + 1) : TopLevel(m[i]) # TopLevel(u) BY <1>2, <1>8, <2>1
  <2> QED BY <1>5, <2>1, <2>2 DEF Later
<1>9. ASSUME Later(m, n, u, v) PROVE TopLevel(u) # TopLevel(v)
  <2>1. PICK j \in 1..n : TopLevel(m[j]) = TopLevel(v) /\ \A i \in j..n : TopLevel(m[i]) # TopLevel(u)
    BY <1>9 DEF Later
  <2>2. j \in j..n OBVIOUS
  <2> QED BY <2>1, <2>2
<1> QED BY <1>6, <1>7, <1>8, <1>9

\* The stacking after all turns: by the last raise, and as before among those
\* that rose together or not at all.
LEMMA RestackOrder ==
    ASSUME FamilyInv, NEW m \in Seq(Everyone)
    PROVE  LET new == RestackRun(m)[Len(m)]
           IN  /\ IsStacked(new)
               /\ \A u, v \in Everyone : Under(new, u, v) <=>
                    Later(m, Len(m), u, v) \/ (~Later(m, Len(m), v, u) /\ Under(order, u, v))
<1> DEFINE N == Len(m)
           f == RestackRun(m)
           h == [n \in 0..N |-> IF n = 0 THEN order ELSE Raised(f[n - 1], m[n])]
           Right(n) == /\ IsStacked(f[n])
                       /\ \A u, v \in Everyone : Under(f[n], u, v) <=>
                            Later(m, n, u, v) \/ (~Later(m, n, v, u) /\ Under(order, u, v))
           Good == {n \in 0..N : Right(n)}
<1>1. N \in Nat /\ \A n \in 1..N : m[n] \in Everyone OBVIOUS
<1>2. f = h BY RestackRunIs DEF RestackTurns
<1>3. h[0] = order /\ \A n \in 1..N : h[n] = Raised(f[n - 1], m[n]) BY <1>1
<1> HIDE DEF f, h, N
<1>4. f[0] = order /\ \A n \in 1..N : f[n] = Raised(f[n - 1], m[n]) BY <1>2, <1>3
<1>a. AreLines(lines) BY DEF FamilyInv, Settled
<1>5. 0 \in Good
  <2>1. IsStacked(order) BY <1>a, StackedIs DEF FamilyInv
  <2>2. \A u, v : ~Later(m, 0, u, v) BY DEF Later
  <2>3. Right(0) BY <1>4, <2>1, <2>2
  <2> HIDE DEF Right
  <2> QED BY <1>1, <2>3
<1>6. ASSUME NEW n \in 1..N, n - 1 \in Good PROVE n \in Good
  <2> DEFINE k == n - 1
             old == f[k]
             t == TopLevel(m[n])
  <2>1. k \in Nat /\ k + 1 = n /\ m[n] \in Everyone BY <1>1
  <2>2. IsStacked(old) BY <1>6
  <2>3. \A u, v \in Everyone : Under(old, u, v) <=> Later(m, k, u, v) \/ (~Later(m, k, v, u) /\ Under(order, u, v))
    BY <1>6
  <2>4. f[n] = Raised(old, m[n]) BY <1>4
  <2> HIDE DEF k, old
  <2>5. /\ IsStacked(f[n])
        /\ \A u, v \in Everyone : Under(f[n], u, v) <=>
             \/ TopLevel(u) # t /\ TopLevel(v) = t
             \/ (TopLevel(u) = t <=> TopLevel(v) = t) /\ Under(old, u, v)
    BY <1>a, <2>1, <2>2, <2>4, RaisedOrder
  <2>6. ASSUME NEW u, NEW v
        PROVE  /\ Later(m, n, u, v) <=> t # TopLevel(u) /\ (t = TopLevel(v) \/ Later(m, k, u, v))
               /\ TopLevel(u) = TopLevel(v) => ~Later(m, k, u, v)
    <3>1. /\ Later(m, k + 1, u, v) <=>
                TopLevel(m[k + 1]) # TopLevel(u) /\ (TopLevel(m[k + 1]) = TopLevel(v) \/ Later(m, k, u, v))
          /\ TopLevel(u) = TopLevel(v) => ~Later(m, k, u, v)
      BY ONLY <2>1, LaterNext
    <3> QED BY <2>1, <3>1
  <2> HIDE DEF t
  <2>7. ASSUME NEW u \in Everyone, NEW v \in Everyone
        PROVE  Under(f[n], u, v) <=> Later(m, n, u, v) \/ (~Later(m, n, v, u) /\ Under(order, u, v))
    <3>1. /\ Later(m, n, u, v) <=> t # TopLevel(u) /\ (t = TopLevel(v) \/ Later(m, k, u, v))
          /\ Later(m, n, v, u) <=> t # TopLevel(v) /\ (t = TopLevel(u) \/ Later(m, k, v, u))
          /\ TopLevel(u) = TopLevel(v) => ~Later(m, k, u, v) /\ ~Later(m, k, v, u)
      BY <2>6
    <3>2. Under(old, u, v) <=> Later(m, k, u, v) \/ (~Later(m, k, v, u) /\ Under(order, u, v)) BY <2>3
    <3>3. Under(f[n], u, v) <=>
             \/ TopLevel(u) # t /\ TopLevel(v) = t
             \/ (TopLevel(u) = t <=> TopLevel(v) = t) /\ Under(old, u, v)
      BY <2>5
    <3> QED BY ONLY <3>1, <3>2, <3>3
  <2>8. Right(n) BY <2>5, <2>7
  <2> HIDE DEF Right
  <2> QED BY <1>1, <2>8
<1>7. Right(N)
  <2>1. \A n \in 0..N : n \in Good
    <3> HIDE DEF Good
    <3> QED BY <1>1, <1>5, <1>6, Counting
  <2>2. N \in 0..N BY <1>1
  <2> HIDE DEF Right
  <2> QED BY <2>1, <2>2
<1> QED BY <1>7 DEF f, N
-----------------------------------------------------------------------------
\* The walk of lorieWindowFamilyContains().

Walkers == [at : Everyone, link : Everyone \cup {RootWindow, NoWindow}, over : BOOLEAN]

Start(w) == [at |-> w, link |-> NoWindow, over |-> FALSE]

WalkStep(s, owner) ==
    LET link == Link(s.link, s.at)
    IN  IF s.over \/ s.at = owner THEN [s EXCEPT !.over = TRUE]
        ELSE IF Parent(s.at) # RootWindow THEN [s EXCEPT !.at = Parent(s.at), !.link = link]
        ELSE IF link \in Everyone THEN [s EXCEPT !.at = link, !.link = NoWindow]
        ELSE [s EXCEPT !.over = TRUE]

LEMMA WalkerType ==
    ASSUME Settled, NEW s \in Walkers, NEW owner
    PROVE  WalkStep(s, owner) \in Walkers
<1> DEFINE link == Link(s.link, s.at)
           up == Parent(s.at)
<1>1. s.at \in Everyone /\ s.link \in Everyone \cup {RootWindow, NoWindow} BY DEF Walkers
<1>2. link \in Everyone \cup {RootWindow, NoWindow} BY <1>1 DEF Link, Settled
<1>3. up # RootWindow => up \in Everyone BY <1>1, NoNames, ParentFacts DEF Settled
<1>4. WalkStep(s, owner) = IF s.over \/ s.at = owner THEN [s EXCEPT !.over = TRUE]
        ELSE IF up # RootWindow THEN [s EXCEPT !.at = up, !.link = link]
        ELSE IF link \in Everyone THEN [s EXCEPT !.at = link, !.link = NoWindow]
        ELSE [s EXCEPT !.over = TRUE]
  BY DEF WalkStep
<1> HIDE DEF link, up
<1>5. [s EXCEPT !.over = TRUE] \in Walkers BY DEF Walkers
<1>6. up # RootWindow => [s EXCEPT !.at = up, !.link = link] \in Walkers BY <1>2, <1>3 DEF Walkers
<1>7. link \in Everyone => [s EXCEPT !.at = link, !.link = NoWindow] \in Walkers BY DEF Walkers
<1> QED BY <1>4, <1>5, <1>6, <1>7

\* The walk step by step.
LEMMA WalkSteps ==
    ASSUME Settled, NEW w \in Everyone, NEW owner
    PROVE  \E f : /\ f[0] = Start(w)
                  /\ \A n \in 0..LinkLimit : f[n] \in Walkers
                  /\ \A n \in 1..LinkLimit : f[n] = WalkStep(f[n - 1], owner)
                  /\ lorieWindowFamilyContains(w, owner) <=> f[LinkLimit].over /\ f[LinkLimit].at = owner
<1> DEFINE N == LinkLimit
           X == Walkers
           base == Start(w)
           step == [p \in X \X (1..N) |-> WalkStep(p[1], owner)]
           f == WalkRun(lines, transients, w, owner)
           h == [n \in 0..N |-> IF n = 0 THEN base ELSE WalkStep(f[n - 1], owner)]
<1>1. N \in Nat BY FamilyAssumption
<1>2. base \in X BY DEF Start, Walkers
<1>3. IsLoop(step, X, N)
  <2>1. ASSUME NEW s \in X, NEW n \in 1..N PROVE WalkStep(s, owner) \in X BY WalkerType
  <2> HIDE DEF X, N
  <2> QED BY <2>1 DEF IsLoop
<1>4. PICK g : IsRun(g, X, N, base, step)
  <2> HIDE DEF N, X, step, base
  <2> QED BY ONLY <1>1, <1>2, <1>3, Turns
<1>5. g \in [0..N -> X] /\ g[0] = base /\ \A n \in 1..N : g[n] = WalkStep(g[n - 1], owner)
  <2> HIDE DEF N, X, base
  <2>0. g \in [0..N -> X] /\ g[0] = base /\ \A n \in 1..N : g[n] = step[<<g[n - 1], n>>]
    BY <1>4, Zenon DEF IsRun
  <2>1. ASSUME NEW n \in 1..N PROVE g[n] = WalkStep(g[n - 1], owner)
    <3>1. n - 1 \in 0..N BY <1>1
    <3>2. g[n - 1] \in X BY <2>0, <3>1
    <3>3. g[n] = step[<<g[n - 1], n>>] BY <2>0
    <3> QED BY <3>2, <3>3
  <2> QED BY <2>0, <2>1
<1>6. \A k : WalkTurns(k, lines, transients, w, owner) <=>
              k = [n \in 0..N |-> IF n = 0 THEN base ELSE WalkStep(k[n - 1], owner)]
  BY DEF WalkTurns, WalkStep, Start, Link, Parent
<1>7. WalkTurns(g, lines, transients, w, owner)
  <2> HIDE DEF base
  <2>1. \A n \in 0..N : n # 0 => n \in 1..N BY <1>1
  <2>2. g = [n \in 0..N |-> g[n]] BY <1>5
  <2>3. \A n \in 0..N : g[n] = IF n = 0 THEN base ELSE WalkStep(g[n - 1], owner) BY <1>5, <2>1
  <2>4. g = [n \in 0..N |-> IF n = 0 THEN base ELSE WalkStep(g[n - 1], owner)] BY <2>2, <2>3
  <2> QED BY <1>6, <2>4
<1>8. WalkTurns(f, lines, transients, w, owner) BY <1>7, Zenon DEF WalkRun
<1>9. f = h BY <1>6, <1>8
<1>10. h[0] = base /\ \A n \in 1..N : h[n] = WalkStep(f[n - 1], owner) BY <1>1
<1> HIDE DEF f, h
<1>11. f[0] = base /\ \A n \in 1..N : f[n] = WalkStep(f[n - 1], owner) BY <1>9, <1>10
<1>12. \A n \in 0..N : f[n] \in X
  <2> HIDE DEF base, X
  <2> DEFINE Good == {n \in 0..N : f[n] \in X}
  <2>1. 0 \in Good BY <1>1, <1>2, <1>11
  <2>2. ASSUME NEW n \in 1..N, n - 1 \in Good PROVE n \in Good
    <3>1. f[n - 1] \in X BY <2>2
    <3>2. f[n] \in X BY <1>11, <3>1, WalkerType DEF X
    <3> QED BY <1>1, <3>2
  <2> HIDE DEF Good
  <2>3. \A n \in 0..N : n \in Good BY <1>1, <2>1, <2>2, Counting
  <2> QED BY <2>3 DEF Good
<1>13. lorieWindowFamilyContains(w, owner) <=> f[LinkLimit].over /\ f[LinkLimit].at = owner
  BY ContainsIs DEF WalkFinds, f
<1> QED BY <1>11, <1>12, <1>13

\* Once found, found.
LEMMA WalkStays ==
    ASSUME NEW owner, NEW f, \A n \in 0..LinkLimit : f[n] \in Walkers,
           \A n \in 1..LinkLimit : f[n] = WalkStep(f[n - 1], owner),
           NEW n \in 0..LinkLimit, f[n].over
    PROVE  f[LinkLimit].over /\ f[LinkLimit].at = f[n].at
<1>1. LinkLimit \in Nat BY FamilyAssumption
<1> DEFINE M == LinkLimit - n
           Good == {k \in 0..M : f[n + k].over /\ f[n + k].at = f[n].at}
<1>2. M \in Nat /\ n + M = LinkLimit BY <1>1
<1>3. 0 \in Good
  <2>1. n + 0 = n OBVIOUS
  <2> QED BY <1>2, <2>1
<1>4. ASSUME NEW k \in 1..M, k - 1 \in Good PROVE k \in Good
  <2> DEFINE i == n + k
             s == f[i - 1]
  <2>1. i \in 1..LinkLimit /\ i - 1 \in 0..LinkLimit /\ n + (k - 1) = i - 1 BY <1>1
  <2>2. s \in Walkers /\ s.over /\ s.at = f[n].at BY <1>4, <2>1
  <2>3. f[i] = WalkStep(s, owner) BY <2>1
  <2> HIDE DEF s
  <2>4. WalkStep(s, owner) = [s EXCEPT !.over = TRUE] BY <2>2 DEF WalkStep
  <2>5. f[i].over /\ f[i].at = s.at BY <2>2, <2>3, <2>4 DEF Walkers
  <2> QED BY <1>2, <2>2, <2>5
<1>5. M \in Good
  <2>1. M \in 0..M BY <1>2
  <2> HIDE DEF Good, M
  <2> QED BY <1>2, <1>3, <1>4, <2>1, Counting
<1> QED BY <1>2, <1>5

\* A window is of its own family.
LEMMA KinToItself ==
    ASSUME Settled, NEW w \in Everyone
    PROVE  lorieWindowBelongsTo(w, w)
<1>1. PICK f : /\ f[0] = Start(w)
               /\ \A n \in 0..LinkLimit : f[n] \in Walkers
               /\ \A n \in 1..LinkLimit : f[n] = WalkStep(f[n - 1], w)
               /\ lorieWindowFamilyContains(w, w) <=> f[LinkLimit].over /\ f[LinkLimit].at = w
  BY WalkSteps
<1>2. 1 \in 1..LinkLimit /\ 1 \in 0..LinkLimit /\ 1 - 1 = 0 BY FamilyAssumption
<1>3. f[1] = WalkStep(Start(w), w) BY <1>1, <1>2
<1>4. f[1].over /\ f[1].at = w BY <1>3 DEF WalkStep, Start
<1>5. f[LinkLimit].over /\ f[LinkLimit].at = f[1].at BY <1>1, <1>2, <1>4, WalkStays
<1>6. lorieWindowFamilyContains(w, w) BY <1>1, <1>4, <1>5
<1> QED BY <1>6 DEF Settled, lorieWindowBelongsTo
-----------------------------------------------------------------------------
\* Activation.

\* The windows that visitFamily() composes.
Composed ==
    {w \in visible : /\ kinds[w] # "input" /\ familyMember(w, Owner)
                     /\ \A v \in Lineage(w) \ {w} : ~familyMember(v, Owner)}

LEMMA VisitedFacts ==
    ASSUME FamilyInv
    PROVE  /\ Visited(Owner) \in Seq(Everyone) /\ ToSet(Visited(Owner)) = Composed /\ IsOnce(Visited(Owner))
           /\ \A u, v : Under(Visited(Owner), u, v) <=> Under(order, u, v) /\ u \in Composed /\ v \in Composed
<1>1. Visited(Owner) = Kept(order, Composed) BY DEF Visited, Composed
<1>2. IsStacked(order) BY StackedIs DEF FamilyInv, Settled
<1>3. order \in Seq(Everyone) /\ ToSet(order) = Everyone /\ IsOnce(order) BY <1>2 DEF IsStacked
<1>4. Composed \subseteq Everyone BY DEF Composed, FamilyInv, Standing
<1>5. /\ Kept(order, Composed) \in Seq(Everyone)
      /\ \A x : x \in ToSet(Kept(order, Composed)) <=> x \in ToSet(order) /\ x \in Composed
      /\ \A u, v : Under(Kept(order, Composed), u, v) <=> Under(order, u, v) /\ u \in Composed /\ v \in Composed
  BY <1>3, KeptFacts
<1>6. ToSet(Kept(order, Composed)) = Composed BY <1>3, <1>4, <1>5
<1>7. IsOnce(Kept(order, Composed)) BY <1>3, <1>5 DEF IsOnce
<1> QED BY <1>1, <1>5, <1>6, <1>7

\* What collectActivation() adds to the owner.
Added == Kept(Visited(Owner), Everyone \ {Owner})

LEMMA AddedFacts ==
    ASSUME FamilyInv
    PROVE  /\ Added \in Seq(Everyone) /\ ToSet(Added) = Composed \ {Owner} /\ IsOnce(Added)
           /\ \A u, v : Under(Added, u, v) <=>
                Under(order, u, v) /\ u \in Composed \ {Owner} /\ v \in Composed \ {Owner}
<1> DEFINE S == Everyone \ {Owner}
           q == Visited(Owner)
<1>1. /\ q \in Seq(Everyone) /\ ToSet(q) = Composed /\ IsOnce(q)
      /\ \A u, v : Under(q, u, v) <=> Under(order, u, v) /\ u \in Composed /\ v \in Composed
  BY VisitedFacts
<1>2. Composed \subseteq Everyone BY DEF Composed, FamilyInv, Standing
<1>3. Added = Kept(q, S) BY DEF Added
<1>4. \A x : x \in S <=> x \in Everyone /\ x # Owner OBVIOUS
<1> HIDE DEF q, S
<1>5. /\ Kept(q, S) \in Seq(Everyone)
      /\ \A x : x \in ToSet(Kept(q, S)) <=> x \in ToSet(q) /\ x \in S
      /\ \A u, v : Under(Kept(q, S), u, v) <=> Under(q, u, v) /\ u \in S /\ v \in S
  BY <1>1, KeptFacts
<1>6. ToSet(Kept(q, S)) = Composed \ {Owner} BY <1>1, <1>2, <1>4, <1>5
<1>7. IsOnce(Kept(q, S)) BY <1>1, <1>5 DEF IsOnce
<1>8. \A u, v : Under(Kept(q, S), u, v) <=>
                Under(order, u, v) /\ u \in Composed \ {Owner} /\ v \in Composed \ {Owner}
  BY <1>1, <1>2, <1>4, <1>5
<1> QED BY <1>3, <1>5, <1>6, <1>7, <1>8

LEMMA CollectedFacts ==
    ASSUME FamilyInv
    PROVE  /\ Collected(Owner) \in Seq(Everyone) /\ Tail(Collected(Owner)) = Added
           /\ ToSet(Collected(Owner)) = {Owner} \cup Composed /\ IsOnce(Collected(Owner))
           /\ \A u, v : Under(Collected(Owner), u, v) <=>
                Under(Added, u, v) \/ (u = Owner /\ v \in Composed \ {Owner})
<1> DEFINE one == <<Owner>>
<1>1. Collected(Owner) = one \o Added BY DEF Collected, Added
<1>2. /\ Added \in Seq(Everyone) /\ ToSet(Added) = Composed \ {Owner} /\ IsOnce(Added)
      /\ \A u, v : Under(Added, u, v) => u \in Composed \ {Owner}
  BY AddedFacts
<1>3. one \in Seq(Everyone) /\ ToSet(one) = {Owner} /\ \A u, v : ~Under(one, u, v) BY NoNames DEF ToSet, Under
<1>4. Tail(one \o Added) = Added BY <1>2, NoNames
<1> HIDE DEF one
<1>5. /\ one \o Added \in Seq(Everyone)
      /\ \A x : x \in ToSet(one \o Added) <=> x \in ToSet(one) \/ x \in ToSet(Added)
      /\ \A u, v : Under(one \o Added, u, v) <=>
           Under(one, u, v) \/ Under(Added, u, v) \/ (u \in ToSet(one) /\ v \in ToSet(Added))
  BY <1>2, <1>3, InJoined
<1>6. \A u, v : Under(one \o Added, u, v) <=> Under(Added, u, v) \/ (u = Owner /\ v \in Composed \ {Owner})
  BY <1>2, <1>3, <1>5
<1>7. IsOnce(one \o Added) BY <1>2, <1>6 DEF IsOnce
<1>8. ToSet(one \o Added) = {Owner} \cup Composed BY <1>2, <1>3, <1>5
<1> QED BY <1>1, <1>4, <1>5, <1>6, <1>7, <1>8

\* In the owner's own tree only the owner is composed.
LEMMA OwnTree ==
    ASSUME FamilyInv
    PROVE  TopLevel(Owner) = Owner /\ \A w \in Composed : TopLevel(w) = Owner => w = Owner
<1>1. AreLines(lines) /\ Settled /\ lines[Owner] = <<Owner>> BY DEF FamilyInv, Settled
<1>2. TopLevel(Owner) = Owner BY <1>1 DEF TopLevel, Last
<1>3. familyMember(Owner, Owner) BY <1>1, KinToItself, NoNames DEF familyMember, MemberAt
<1>4. ASSUME NEW w \in Composed, TopLevel(w) = Owner, w # Owner PROVE FALSE
  <2>1. w \in Everyone BY DEF Composed, FamilyInv, Standing
  <2>2. Owner \in Lineage(w) BY <1>1, <1>4, <2>1, NoNames, TopFacts
  <2> QED BY <1>3, <1>4, <2>2 DEF Composed
<1> QED BY <1>2, <1>4

\* What is raised after is above.
LEMMA RaisedAfter ==
    ASSUME FamilyInv, NEW u \in Everyone, NEW v \in Everyone, NEW x \in ToSet(Collected(Owner)),
           TopLevel(x) = TopLevel(v),
           \A y \in ToSet(Collected(Owner)) : TopLevel(y) = TopLevel(u) => Under(Collected(Owner), y, x)
    PROVE  Under(Restacked(Owner), u, v)
<1> DEFINE m == Collected(Owner)
<1>1. m \in Seq(Everyone) /\ IsOnce(m) BY CollectedFacts
<1>2. Restacked(Owner) = RestackRun(m)[Len(m)] BY RestackedIs
<1>3. /\ x \in ToSet(m) /\ TopLevel(x) = TopLevel(v)
      /\ \A y \in ToSet(m) : TopLevel(y) = TopLevel(u) => Under(m, y, x)
  OBVIOUS
<1> HIDE DEF m
<1>4. DOMAIN m = 1..Len(m) BY <1>1
<1>5. PICK j \in 1..Len(m) : m[j] = x BY <1>3, <1>4 DEF ToSet
<1>6. ASSUME NEW i \in j..Len(m) PROVE TopLevel(m[i]) # TopLevel(u)
  <2>1. i \in 1..Len(m) /\ ~(i < j) BY <1>1
  <2>2. m[i] \in ToSet(m) BY <1>4, <2>1 DEF ToSet
  <2>3. ~Under(m, m[i], x) BY <1>1, <1>5, <2>1, UnderOrder
  <2> QED BY <1>3, <2>2, <2>3
<1>7. Later(m, Len(m), u, v) BY <1>3, <1>5, <1>6 DEF Later
<1> QED BY <1>1, <1>2, <1>7, RestackOrder

\* Within a tree of the top level nothing changes.
LEMMA RaisedTogether ==
    ASSUME FamilyInv, NEW u \in Everyone, NEW v \in Everyone, TopLevel(u) = TopLevel(v)
    PROVE  Under(Restacked(Owner), u, v) <=> Under(order, u, v)
<1> DEFINE m == Collected(Owner)
<1>1. m \in Seq(Everyone) /\ Len(m) \in Nat BY CollectedFacts
<1>2. Restacked(Owner) = RestackRun(m)[Len(m)] BY RestackedIs
<1> HIDE DEF m
<1>3. ~Later(m, Len(m), u, v) /\ ~Later(m, Len(m), v, u) BY <1>1, LaterNext
<1> QED BY <1>1, <1>2, <1>3, RestackOrder

\* Composed windows of different trees keep their order.
LEMMA RaisedInOrder ==
    ASSUME FamilyInv, NEW u \in Composed \ {Owner}, NEW v \in Composed \ {Owner},
           TopLevel(u) # TopLevel(v), Under(order, u, v)
    PROVE  Under(Restacked(Owner), u, v)
<1> DEFINE m == Collected(Owner)
<1>1. /\ ToSet(m) = {Owner} \cup Composed
      /\ \A a, b : Under(m, a, b) <=> Under(Added, a, b) \/ (a = Owner /\ b \in Composed \ {Owner})
  BY CollectedFacts
<1>2. \A a, b : Under(Added, a, b) <=>
        Under(order, a, b) /\ a \in Composed \ {Owner} /\ b \in Composed \ {Owner}
  BY AddedFacts
<1>3. Composed \subseteq Everyone BY DEF Composed, FamilyInv, Standing
<1>4. AreLines(lines) /\ IsStacked(order) BY StackedIs DEF FamilyInv, Settled
<1>5. order \in Seq(Everyone) /\ ToSet(order) = Everyone /\ IsOnce(order) BY <1>4 DEF IsStacked
<1>6. ASSUME NEW y \in ToSet(m), TopLevel(y) = TopLevel(u) PROVE Under(m, y, v)
  <2>1. CASE y = Owner BY <1>1, <2>1
  <2>2. CASE y # Owner
    <3>1. y \in Composed /\ y \in Everyone BY <1>1, <1>3, <2>2
    <3>2. ~Under(order, v, y)
      <4> SUFFICES ASSUME Under(order, v, y) PROVE FALSE OBVIOUS
      <4> DEFINE t == TopLevel(u)
      <4>1. t \in Lineage(y) /\ t \in Lineage(u) /\ t \in Everyone BY <1>3, <1>4, <1>6, <3>1, NoNames, TopFacts
      <4>2. v # t
        <5>1. v = t => TopLevel(v) = t BY <1>3, <1>4, <4>1, NoNames, TopFacts
        <5> QED BY <5>1
      <4>3. t # y
        <5> SUFFICES ASSUME t = y PROVE FALSE OBVIOUS
        <5>1. u = t \/ Under(order, t, u) BY <1>3, <1>4, <4>1 DEF IsStacked
        <5>2. PICK i, j \in 1..Len(order) : order[i] = u /\ order[j] = v
          <6>1. DOMAIN order = 1..Len(order) /\ u \in ToSet(order) /\ v \in ToSet(order) BY <1>3, <1>5
          <6> QED BY <6>1 DEF ToSet
        <5>3. PICK k \in 1..Len(order) : order[k] = y
          <6>1. DOMAIN order = 1..Len(order) /\ y \in ToSet(order) BY <1>5, <3>1
          <6> QED BY <6>1 DEF ToSet
        <5>4. i < j /\ j < k BY <1>5, <5>2, <5>3, UnderOrder
        <5>5. u = y \/ k < i BY <1>5, <5>1, <5>2, <5>3, UnderOrder
        <5>6. u # y BY <1>5, <5>2, <5>3, <5>4, UnderOrder
        <5> QED BY <5>4, <5>5, <5>6
      <4>4. Under(order, t, v)
        <5>1. PICK i, j, k, l \in 1..Len(order) : order[i] = u /\ order[j] = v /\ order[k] = y /\ order[l] = t
          <6>1. DOMAIN order = 1..Len(order) /\ {u, v, y, t} \subseteq ToSet(order) BY <1>3, <1>5, <3>1, <4>1
          <6> QED BY <6>1 DEF ToSet
        <5>2. i < j BY <1>5, <5>1, UnderOrder
        <5>3. t = u \/ Under(order, t, u) BY <1>3, <1>4, <4>1 DEF IsStacked
        <5>4. t = u \/ l < i BY <1>5, <5>1, <5>3, UnderOrder
        <5>5. t = u => Under(order, t, v) OBVIOUS
        <5>6. t # u => Under(order, order[l], order[j]) BY <1>5, <5>2, <5>4, UnderOrder
        <5> QED BY <5>1, <5>5, <5>6
      <4>5. t \in Lineage(v) BY <1>4, <3>1, <4>1, <4>3, <4>4 DEF IsStacked
      <4>6. TopLevel(v) = t
        <5>1. TopLevel(t) = TopLevel(v) BY <1>3, <1>4, <4>5, NoNames, TopFacts
        <5>2. TopLevel(t) = t BY <1>3, <1>4, <4>1, NoNames, TopFacts
        <5> QED BY <5>1, <5>2
      <4> QED BY <4>6
    <3>3. y # v BY <1>6
    <3>4. Under(order, y, v) BY <1>3, <1>5, <3>1, <3>2, <3>3, UnderOrder
    <3> QED BY <1>1, <1>2, <2>2, <3>1, <3>4
  <2> QED BY <2>1, <2>2
<1>7. v \in ToSet(m) /\ u \in Everyone /\ v \in Everyone BY <1>1, <1>3
<1> QED BY <1>6, <1>7, RaisedAfter

LEMMA TargetFacts ==
    ASSUME FamilyInv
    PROVE  LET target == Target(Owner)
           IN  /\ target = Owner \/ target \in Composed
               /\ target = Owner => \A w \in Composed \ {Owner} : kinds[w] # "modal"
               /\ target # Owner =>
                    /\ kinds[target] = "modal"
                    /\ \A w \in Composed \ {Owner} : kinds[w] = "modal" /\ w # target => Under(order, w, target)
<1> DEFINE S == {w \in Everyone : kinds[w] = "modal"}
           q == Kept(Added, S)
           last == q[Len(q)]
<1>1. Target(Owner) = IF q = <<>> THEN Owner ELSE last BY CollectedFacts DEF Target, Last
<1>2. /\ Added \in Seq(Everyone) /\ ToSet(Added) = Composed \ {Owner} /\ IsOnce(Added)
      /\ \A u, v : Under(Added, u, v) => Under(order, u, v)
  BY AddedFacts
<1>3. \A x \in Everyone : x \in S <=> kinds[x] = "modal" OBVIOUS
<1>4. Composed \subseteq Everyone BY DEF Composed, FamilyInv, Standing
<1> HIDE DEF S
<1>5. /\ q \in Seq(Everyone)
      /\ \A x : x \in ToSet(q) <=> x \in ToSet(Added) /\ x \in S
      /\ \A u, v : Under(q, u, v) <=> Under(Added, u, v) /\ u \in S /\ v \in S
  BY <1>2, KeptFacts
<1> HIDE DEF q
<1>6. IsOnce(q) BY <1>2, <1>5 DEF IsOnce
<1>7. CASE q = <<>>
  <2>1. Target(Owner) = Owner BY <1>1, <1>7
  <2>2. ToSet(q) = {} BY <1>7 DEF ToSet
  <2>3. \A w \in Composed \ {Owner} : kinds[w] # "modal" BY <1>2, <1>3, <1>4, <1>5, <2>2
  <2> QED BY <2>1, <2>3
<1>8. CASE q # <<>>
  <2>1. Target(Owner) = last BY <1>1, <1>8
  <2>2. Len(q) \in Nat /\ Len(q) # 0 /\ DOMAIN q = 1..Len(q) /\ Len(q) \in 1..Len(q) BY <1>5, <1>8
  <2>3. last \in ToSet(q) BY <2>2 DEF ToSet
  <2>4. last \in Composed \ {Owner} /\ last \in S /\ kinds[last] = "modal"
    <3> HIDE DEF last
    <3> QED BY <1>2, <1>3, <1>4, <1>5, <2>3
  <2>5. ASSUME NEW w \in Composed \ {Owner}, kinds[w] = "modal", w # last PROVE Under(order, w, last)
    <3>1. w \in ToSet(q) BY <1>2, <1>3, <1>4, <1>5, <2>5
    <3>2. PICK i \in 1..Len(q) : q[i] = w BY <2>2, <3>1 DEF ToSet
    <3>3. i < Len(q) BY <2>2, <2>5, <3>2
    <3>4. Under(q, w, last) BY <2>2, <3>2, <3>3 DEF Under
    <3> QED BY <1>2, <1>5, <3>4
  <2> HIDE DEF last
  <2> QED BY <2>1, <2>4, <2>5
<1> QED BY <1>7, <1>8

\* What ActivationIsOrderly says of a step.
ActivationIsRight ==
    LET family == Visited(Owner)
        tops == {TopLevel(w) : w \in ToSet(family)}
        below(v, w) == Place(order', v) < Place(order', w)
    IN  /\ \A v \in Everyone, t \in tops : Parent(v) = RootWindow /\ v \notin tops => below(v, t)
        /\ \A w \in ToSet(family) : TopLevel(w) # Owner => below(Owner, w)
        /\ \A i, j \in 1..Len(family) : i < j /\ family[i] # Owner /\ family[j] # Owner
               => TopLevel(family[i]) = TopLevel(family[j]) \/ below(family[i], family[j])
        /\ focus' # focus =>
             \/ focus' = Owner /\ \A w \in ToSet(family) : kinds[w] # "modal"
             \/ /\ kinds[focus'] = "modal"
                /\ \A w \in ToSet(family) : kinds[w] = "modal" => ~below(focus', w)

LEMMA FocusStep ==
    ASSUME FamilyInv, lorieWindowFocus(Owner)
    PROVE  FamilyInv' /\ ActivationIsRight
<1> DEFINE m == Collected(Owner)
           family == Visited(Owner)
           new == Restacked(Owner)
           tops == {TopLevel(w) : w \in Composed}
<1>1. order' = new /\ focus' \in {focus, Target(Owner)} /\ UNCHANGED <<structure, visible, grabs>> /\ Owner \in visible
  BY DEF lorieWindowFocus
<1>2. AreLines(lines) /\ Settled /\ lines' = lines BY <1>1 DEF FamilyInv, Settled, structure
<1>3. Composed \subseteq Everyone /\ Composed \subseteq visible BY DEF Composed, FamilyInv, Standing
<1>4. m \in Seq(Everyone) /\ ToSet(m) = {Owner} \cup Composed
      /\ \A u, v : Under(m, u, v) <=> Under(Added, u, v) \/ (u = Owner /\ v \in Composed \ {Owner})
  BY CollectedFacts
<1>5. IsStacked(new)
  <2>1. new = RestackRun(m)[Len(m)] BY RestackedIs
  <2> HIDE DEF new, m
  <2> QED BY <1>4, <2>1, RestackOrder
<1>6. new \in Seq(Everyone) /\ ToSet(new) = Everyone /\ IsOnce(new) BY <1>5 DEF IsStacked
<1>7. /\ family \in Seq(Everyone) /\ ToSet(family) = Composed /\ IsOnce(family)
      /\ \A u, v : Under(family, u, v) <=> Under(order, u, v) /\ u \in Composed /\ v \in Composed
  BY VisitedFacts
<1>8. FamilyInv'
  <2>1. Settled' BY <1>1, <1>2, SettledStays
  <2>2. IsStacking(order', lines')
    <3>1. IsStacking(new, lines) BY <1>2, <1>5, StackedIs
    <3> HIDE DEF new
    <3> QED BY <1>1, <1>2, <3>1
  <2>3. Standing(visible, focus)'
    <3>1. Target(Owner) \in visible
      <4>1. Target(Owner) = Owner \/ Target(Owner) \in Composed BY TargetFacts
      <4> QED BY <1>1, <1>3, <4>1
    <3> QED BY <1>1, <1>2, <3>1 DEF FamilyInv, Standing, Lineage
  <2>4. grabs' \in [Devices -> Everyone \cup {NoWindow}] BY <1>1 DEF FamilyInv
  <2> QED BY <2>1, <2>2, <2>3, <2>4 DEF FamilyInv
<1> HIDE DEF new
<1>9. \A u, v \in Everyone : Place(order', u) < Place(order', v) <=> Under(new, u, v)
  BY <1>1, <1>6, PlaceOrder
<1>10. TopLevel(Owner) = Owner /\ \A w \in Composed : TopLevel(w) = Owner => w = Owner BY OwnTree
<1>11. ASSUME NEW v \in Everyone, NEW t \in tops, Parent(v) = RootWindow, v \notin tops PROVE Under(new, v, t)
  <2>1. PICK x \in Composed : t = TopLevel(x) OBVIOUS
  <2>2. t \in Everyone /\ TopLevel(t) = t /\ TopLevel(v) = v BY <1>2, <1>3, <1>11, <2>1, NoNames, TopFacts
  <2>3. ASSUME NEW y \in ToSet(m), TopLevel(y) = TopLevel(v) PROVE Under(m, y, x)
    <3>1. y \notin Composed BY <1>11, <2>2, <2>3
    <3>2. y = Owner /\ x # Owner BY <1>4, <2>3, <3>1
    <3> QED BY <1>4, <3>2
  <2>4. x \in ToSet(m) BY <1>4
  <2>5. TopLevel(x) = TopLevel(t) BY <2>1, <2>2
  <2> QED BY <2>2, <2>3, <2>4, <2>5, RaisedAfter DEF new
<1>12. ASSUME NEW w \in Composed, TopLevel(w) # Owner PROVE Under(new, Owner, w)
  <2>1. w # Owner /\ w \in Everyone BY <1>3, <1>10, <1>12
  <2>2. ASSUME NEW y \in ToSet(m), TopLevel(y) = TopLevel(Owner) PROVE Under(m, y, w)
    <3>1. y = Owner BY <1>4, <1>10, <2>2
    <3> QED BY <1>4, <2>1, <3>1
  <2>3. w \in ToSet(m) BY <1>4
  <2> QED BY <2>1, <2>2, <2>3, NoNames, RaisedAfter DEF new
<1>13. ASSUME NEW i \in 1..Len(family), NEW j \in 1..Len(family), i < j, family[i] # Owner, family[j] # Owner,
              TopLevel(family[i]) # TopLevel(family[j])
       PROVE  Under(new, family[i], family[j]) /\ family[i] \in Everyone /\ family[j] \in Everyone
  <2>1. Under(family, family[i], family[j]) BY <1>13 DEF Under
  <2>2. Under(order, family[i], family[j]) /\ family[i] \in Composed \ {Owner} /\ family[j] \in Composed \ {Owner}
    BY <1>7, <1>13, <2>1
  <2> HIDE DEF family
  <2> QED BY <1>3, <1>13, <2>2, RaisedInOrder DEF new
<1>14. ASSUME focus' # focus
       PROVE  \/ focus' = Owner /\ \A w \in Composed : kinds[w] # "modal"
              \/ focus' \in Everyone /\ kinds[focus'] = "modal" /\ \A w \in Composed : kinds[w] = "modal" => ~Under(new, focus', w)
  <2> DEFINE target == Target(Owner)
  <2>1. focus' = target BY <1>1, <1>14
  <2>2. /\ target = Owner \/ target \in Composed
        /\ target = Owner => \A w \in Composed \ {Owner} : kinds[w] # "modal"
        /\ target # Owner =>
             /\ kinds[target] = "modal"
             /\ \A w \in Composed \ {Owner} : kinds[w] = "modal" /\ w # target => Under(order, w, target)
    BY TargetFacts
  <2> HIDE DEF target
  <2>3. CASE target = Owner
    <3>1. CASE Owner \in Composed /\ kinds[Owner] = "modal"
      <4>1. \A w \in Composed : kinds[w] = "modal" => w = Owner BY <2>2, <2>3
      <4>2. ~Under(new, Owner, Owner) BY <1>6 DEF IsOnce
      <4> QED BY <1>3, <2>1, <2>3, <3>1, <4>1, <4>2
    <3>2. CASE ~(Owner \in Composed /\ kinds[Owner] = "modal") BY <2>1, <2>2, <2>3, <3>2
    <3> QED BY <3>1, <3>2
  <2>4. CASE target # Owner
    <3>1. target \in Composed \ {Owner} /\ target \in Everyone /\ kinds[target] = "modal" BY <1>3, <2>2, <2>4
    <3>2. ASSUME NEW w \in Composed, kinds[w] = "modal" PROVE ~Under(new, target, w)
      <4>1. CASE w = target BY <1>6, <4>1 DEF IsOnce
      <4>2. CASE w # target /\ w = Owner
        <5>1. TopLevel(target) # Owner BY <1>10, <3>1
        <5>2. Under(new, Owner, target) BY <1>12, <3>1, <5>1
        <5> QED BY <1>6, <4>2, <5>2, UnderOrder
      <4>3. CASE w # target /\ w # Owner
        <5>1. Under(order, w, target) /\ w \in Everyone BY <1>3, <2>2, <2>4, <3>2, <4>3
        <5>2. Under(new, w, target)
          <6>1. CASE TopLevel(w) = TopLevel(target) BY <3>1, <5>1, <6>1, RaisedTogether DEF new
          <6>2. CASE TopLevel(w) # TopLevel(target) BY <3>1, <4>3, <5>1, <6>2, RaisedInOrder DEF new
          <6> QED BY <6>1, <6>2
        <5> QED BY <1>6, <5>2, UnderOrder
      <4> QED BY <4>1, <4>2, <4>3
    <3> QED BY <2>1, <3>1, <3>2
  <2> QED BY <2>3, <2>4
<1>15. ActivationIsRight
  <2>1. {TopLevel(w) : w \in ToSet(family)} = tops BY <1>7
  <2>2. \A t \in tops : t \in Everyone BY <1>2, <1>3, NoNames, TopFacts
  <2>3. \A v \in Everyone, t \in tops : Parent(v) = RootWindow /\ v \notin tops => Place(order', v) < Place(order', t)
    <3> HIDE DEF tops
    <3> QED BY <1>9, <1>11, <2>2
  <2>4. \A w \in ToSet(family) : TopLevel(w) # Owner => Place(order', Owner) < Place(order', w)
    BY <1>3, <1>7, <1>9, <1>12, NoNames
  <2>5. \A i, j \in 1..Len(family) : i < j /\ family[i] # Owner /\ family[j] # Owner
               => TopLevel(family[i]) = TopLevel(family[j]) \/ Place(order', family[i]) < Place(order', family[j])
    <3> HIDE DEF family
    <3> QED BY <1>9, <1>13
  <2>6. focus' # focus =>
             \/ focus' = Owner /\ \A w \in ToSet(family) : kinds[w] # "modal"
             \/ /\ kinds[focus'] = "modal"
                /\ \A w \in ToSet(family) : kinds[w] = "modal" => ~(Place(order', focus') < Place(order', w))
    <3> HIDE DEF family
    <3> QED BY <1>3, <1>7, <1>9, <1>14
  <2> HIDE DEF tops, family
  <2>7. \A v \in Everyone, t \in {TopLevel(w) : w \in ToSet(family)} :
           Parent(v) = RootWindow /\ v \notin {TopLevel(w) : w \in ToSet(family)} => Place(order', v) < Place(order', t)
    BY <2>1, <2>3
  <2> QED BY <2>4, <2>5, <2>6, <2>7 DEF ActivationIsRight, family
<1> QED BY <1>8, <1>15
-----------------------------------------------------------------------------
\* Where the walk of lorieWindowFamilyContains() goes.

LEMMA NearestFacts ==
    ASSUME Settled, NEW v \in Everyone
    PROVE  /\ Nearest(v) \in Everyone \cup {RootWindow, NoWindow}
           /\ transients[v] # NoWindow => Nearest(v) = transients[v]
           /\ transients[v] = NoWindow /\ Parent(v) = RootWindow => Nearest(v) = NoWindow
           /\ transients[v] = NoWindow /\ Parent(v) # RootWindow => Nearest(v) = Nearest(Parent(v))
<1> DEFINE I(w) == {i \in 1..Len(lines[w]) : transients[lines[w][i]] # NoWindow}
<1>1. AreLines(lines) /\ transients \in [Everyone -> Everyone \cup {RootWindow, NoWindow}] BY DEF Settled
<1>2. \A w \in Everyone : Len(lines[w]) \in Nat \ {0} /\ lines[w][1] = w /\ lines[w] \in Seq(Everyone)
  BY <1>1, LineFacts
<1>4. \A w \in Everyone : I(w) \subseteq 1..Len(lines[w]) /\ I(w) \subseteq Nat BY <1>2
<1>5. \A w \in Everyone : I(w) # {} => Min(I(w)) \in I(w) /\ \A y \in I(w) : Min(I(w)) <= y
  <2> HIDE DEF I
  <2> QED BY <1>4, LeastMember
<1>3. \A w \in Everyone : Nearest(w) = IF I(w) = {} THEN NoWindow ELSE transients[lines[w][Min(I(w))]]
  <2> SUFFICES ASSUME NEW w \in Everyone
               PROVE  Nearest(w) = IF I(w) = {} THEN NoWindow ELSE transients[lines[w][Min(I(w))]]
    OBVIOUS
  <2> DEFINE i == IF I(w) # {} THEN Min(I(w)) ELSE 0
  <2>1. Nearest(w) = IF i = 0 THEN NoWindow ELSE transients[lines[w][i]] BY DEF Nearest, SelectInSeq
  <2>2. I(w) # {} => Min(I(w)) # 0
    <3>1. \A k \in I(w) : k # 0 BY <1>2
    <3> HIDE DEF I
    <3> QED BY <1>5, <3>1
  <2> HIDE DEF I
  <2> QED BY <2>1, <2>2
<1>6. Nearest(v) \in Everyone \cup {RootWindow, NoWindow}
  <2>1. CASE I(v) = {} BY <1>3, <2>1
  <2>2. CASE I(v) # {}
    <3>1. Min(I(v)) \in 1..Len(lines[v]) BY <1>4, <1>5, <2>2
    <3>2. lines[v][Min(I(v))] \in Everyone
      <4> DEFINE k == Min(I(v))
      <4>1. k \in 1..Len(lines[v]) BY <3>1
      <4> HIDE DEF k
      <4>2. lines[v][k] \in Everyone BY <1>2, <4>1
      <4> QED BY <4>2 DEF k
    <3> HIDE DEF I
    <3> QED BY <1>1, <1>3, <2>2, <3>2
  <2> QED BY <2>1, <2>2
<1>7. ASSUME transients[v] # NoWindow PROVE Nearest(v) = transients[v]
  <2>1. 1 \in I(v) BY <1>2, <1>7
  <2>2. Min(I(v)) \in 1..Len(lines[v]) /\ Min(I(v)) <= 1 BY <1>4, <1>5, <2>1
  <2>3. Min(I(v)) = 1 BY <1>2, <2>2
  <2> HIDE DEF I
  <2> QED BY <1>2, <1>3, <2>1, <2>3
<1>8. ASSUME transients[v] = NoWindow, Parent(v) = RootWindow PROVE Nearest(v) = NoWindow
  <2>1. Len(lines[v]) = 1 BY <1>1, <1>8, NoNames, ParentFacts
  <2>2. I(v) = {} BY <1>2, <1>8, <2>1
  <2> QED BY <1>3, <2>2
<1>9. ASSUME transients[v] = NoWindow, Parent(v) # RootWindow PROVE Nearest(v) = Nearest(Parent(v))
  <2> DEFINE p == Parent(v)
  <2>1. p \in Everyone /\ Len(lines[v]) = Len(lines[p]) + 1 BY <1>1, <1>9, NoNames, ParentFacts
  <2>2. p = lines[v][2] /\ 2 \in 1..Len(lines[v])
    <3>1. Len(lines[v]) # 1 BY <1>2, <2>1
    <3>2. \A m \in Nat \ {0} : m # 1 => 2 \in 1..m OBVIOUS
    <3>3. Len(lines[v]) \in Nat \ {0} BY <1>2
    <3>4. 2 \in 1..Len(lines[v]) BY ONLY <3>1, <3>2, <3>3
    <3> QED BY <3>1, <3>4 DEF Parent
  <2>3. \A j \in 1..Len(lines[p]) : lines[p][j] = lines[v][j + 1]
    <3>1. \A j \in 1..(Len(lines[v]) - 2 + 1) : lines[p][j] = lines[v][2 + j - 1] BY <1>1, <2>2, LineRest
    <3>2. Len(lines[p]) \in Nat BY <1>2, <2>1
    <3>3. \A j \in 1..Len(lines[p]) : j \in 1..(Len(lines[v]) - 2 + 1) /\ 2 + j - 1 = j + 1 BY <2>1, <3>2
    <3> QED BY <3>1, <3>3
  <2> HIDE DEF p
  <2>4. ASSUME NEW j \in I(p) PROVE j + 1 \in I(v)
    <3>1. j \in 1..Len(lines[p]) /\ transients[lines[p][j]] # NoWindow OBVIOUS
    <3>2. Len(lines[p]) \in Nat BY <1>2, <2>1
    <3>3. j + 1 \in 1..Len(lines[v]) BY <2>1, <3>1, <3>2
    <3>4. lines[p][j] = lines[v][j + 1] BY <2>3, <3>1
    <3> QED BY <3>1, <3>3, <3>4
  <2>5. ASSUME NEW i \in I(v) PROVE i - 1 \in I(p)
    <3>1. i \in 1..Len(lines[v]) /\ transients[lines[v][i]] # NoWindow OBVIOUS
    <3>2. i # 1 BY <1>2, <1>9, <3>1
    <3>3. i - 1 \in 1..Len(lines[p]) /\ (i - 1) + 1 = i BY <1>2, <2>1, <3>1, <3>2
    <3>4. lines[p][i - 1] = lines[v][i] BY <2>3, <3>3
    <3> QED BY <3>1, <3>3, <3>4
  <2>6. CASE I(v) = {}
    <3>1. I(p) = {} BY <2>4, <2>6
    <3> QED BY <1>3, <2>1, <2>6, <3>1 DEF p
  <2>7. CASE I(v) # {}
    <3> DEFINE a == Min(I(v))
               b == Min(I(p))
    <3>1. I(p) # {} BY <2>5, <2>7
    <3>2. a \in I(v) /\ b \in I(p) BY <1>5, <2>1, <2>7, <3>1
    <3>3. b <= a - 1 BY <1>5, <2>1, <2>5, <3>1, <3>2
    <3>4. a <= b + 1 BY <1>5, <2>4, <2>7, <3>2
    <3>5. a \in Nat /\ b \in Nat BY <1>4, <2>1, <3>2
    <3>6. b \in 1..Len(lines[p]) BY <1>4, <2>1, <3>2
    <3> HIDE DEF a, b
    <3>7. a = b + 1 BY <3>3, <3>4, <3>5
    <3>8. lines[p][b] = lines[v][a] BY <2>3, <3>6, <3>7
    <3> HIDE DEF I
    <3> QED BY <1>3, <2>1, <2>7, <3>1, <3>8 DEF p, a, b
  <2> QED BY <2>6, <2>7
<1> QED BY <1>6, <1>7, <1>8, <1>9

\* A window and what transient links lead to from a set of windows.
Onward(S) == S \cup ({Nearest(v) : v \in S} \cap Everyone)

HopTurns(f, w) ==
    f = [n \in 0..Cardinality(Everyone) |-> IF n = 0 THEN {w} ELSE Onward(f[n - 1])]

HopRun(w) == CHOOSE f : HopTurns(f, w)

LEMMA StationsAre == ASSUME NEW w PROVE Stations(w) = HopRun(w)[Cardinality(Everyone)]
BY DEF Stations, HopRun, HopTurns, Onward

LEMMA HowMany == IsFiniteSet(Everyone) /\ Cardinality(Everyone) \in Nat \ {0}
<1>1. IsFiniteSet({Owner} \cup Companions)
  <2>1. IsFiniteSet(Companions \cup {Owner}) BY FamilyAssumption, FS_AddElement
  <2>2. Companions \cup {Owner} = {Owner} \cup Companions OBVIOUS
  <2> QED BY <2>1, <2>2
<1>2. IsFiniteSet(Everyone) BY <1>1 DEF Everyone
<1>3. Cardinality(Everyone) \in Nat BY <1>2, FS_CardinalityType
<1>4. Cardinality(Everyone) # 0 BY <1>2, NoNames, FS_EmptySet
<1> QED BY <1>2, <1>3, <1>4

\* Stations() hop by hop.
LEMMA Hops ==
    ASSUME NEW w \in Everyone
    PROVE  \E f : /\ f[0] = {w} /\ Stations(w) = f[Cardinality(Everyone)]
                  /\ \A n \in 0..Cardinality(Everyone) : f[n] \subseteq Everyone
                  /\ \A n \in 1..Cardinality(Everyone) : f[n] = Onward(f[n - 1])
<1> DEFINE N == Cardinality(Everyone)
           X == SUBSET Everyone
           base == {w}
           step == [p \in X \X (1..N) |-> Onward(p[1])]
           f == HopRun(w)
           h == [n \in 0..N |-> IF n = 0 THEN base ELSE Onward(f[n - 1])]
<1>1. N \in Nat BY HowMany
<1>2. base \in X OBVIOUS
<1>3. \A s \in X : Onward(s) \in X BY DEF Onward
<1>4. PICK g : IsRun(g, X, N, base, step)
  <2> HIDE DEF N, X, base
  <2>1. IsLoop(step, X, N) BY <1>3 DEF IsLoop
  <2> HIDE DEF step
  <2> QED BY ONLY <1>1, <1>2, <2>1, Turns
<1> HIDE DEF X, base, N
<1>5. g \in [0..N -> X] /\ g[0] = base /\ \A n \in 1..N : g[n] = Onward(g[n - 1])
  <2>0. g \in [0..N -> X] /\ g[0] = base /\ \A n \in 1..N : g[n] = step[<<g[n - 1], n>>]
    BY <1>4, Zenon DEF IsRun
  <2>1. ASSUME NEW n \in 1..N PROVE g[n] = Onward(g[n - 1])
    <3>1. n - 1 \in 0..N BY <1>1
    <3>2. g[n - 1] \in X BY <2>0, <3>1
    <3>3. g[n] = step[<<g[n - 1], n>>] BY <2>0
    <3> QED BY <3>2, <3>3
  <2> QED BY <2>0, <2>1
<1>6. HopTurns(g, w)
  <2>1. \A n \in 0..N : n # 0 => n \in 1..N BY <1>1
  <2>2. g = [n \in 0..N |-> g[n]] BY <1>5
  <2>3. \A n \in 0..N : g[n] = IF n = 0 THEN base ELSE Onward(g[n - 1]) BY <1>5, <2>1
  <2>4. g = [n \in 0..N |-> IF n = 0 THEN base ELSE Onward(g[n - 1])] BY <2>2, <2>3
  <2> QED BY <2>4 DEF HopTurns, N, base
<1>7. HopTurns(f, w) BY <1>6, Zenon DEF HopRun
<1>8. f = h BY <1>7 DEF HopTurns, N, base
<1>9. h[0] = base /\ \A n \in 1..N : h[n] = Onward(f[n - 1]) BY <1>1
<1>10. Stations(w) = f[N] BY StationsAre DEF N
<1> HIDE DEF f, h
<1>11. f[0] = base /\ \A n \in 1..N : f[n] = Onward(f[n - 1]) BY <1>8, <1>9
<1> DEFINE Good == {n \in 0..N : f[n] \in X}
<1>12. 0 \in Good BY <1>1, <1>2, <1>11
<1>13. ASSUME NEW n \in 1..N, n - 1 \in Good PROVE n \in Good
  <2>1. f[n] \in X BY <1>3, <1>11, <1>13
  <2> QED BY <1>1, <2>1
<1>14. \A n \in 0..N : n \in Good
  <2> HIDE DEF Good
  <2> QED BY <1>1, <1>12, <1>13, Counting
<1>15. \A n \in 0..N : f[n] \in X BY <1>14
<1> HIDE DEF Good
<1>16. f[0] = {w} BY <1>11 DEF base
<1>17. \A n \in 0..N : f[n] \subseteq Everyone BY <1>15 DEF X
<1> QED BY <1>10, <1>11, <1>16, <1>17 DEF N

\* Nothing leads out of the stations, and the last hop adds nothing.
LEMMA StationsClosed ==
    ASSUME NEW f, NEW w \in Everyone, f[0] = {w},
           \A n \in 0..Cardinality(Everyone) : f[n] \subseteq Everyone,
           \A n \in 1..Cardinality(Everyone) : f[n] = Onward(f[n - 1])
    PROVE  /\ f[Cardinality(Everyone)] = f[Cardinality(Everyone) - 1]
           /\ w \in f[Cardinality(Everyone)]
           /\ \A v \in f[Cardinality(Everyone)] : Nearest(v) \in Everyone => Nearest(v) \in f[Cardinality(Everyone)]
<1> DEFINE N == Cardinality(Everyone)
           M == N - 1
           Closed(S) == Onward(S) = S
           Good == {n \in 0..M : w \in f[n] /\ (Closed(f[n]) \/ Cardinality(f[n]) >= n + 1)}
<1>1. N \in Nat \ {0} /\ M \in Nat /\ M \in 0..N /\ N \in 1..N BY HowMany
<1>2. \A S : S \subseteq Everyone => IsFiniteSet(S) /\ Cardinality(S) \in Nat /\ Cardinality(S) <= N /\ (Cardinality(S) = N => S = Everyone)
  <2> SUFFICES ASSUME NEW S, S \subseteq Everyone
               PROVE  IsFiniteSet(S) /\ Cardinality(S) \in Nat /\ Cardinality(S) <= N /\ (Cardinality(S) = N => S = Everyone)
    OBVIOUS
  <2>1. S \in SUBSET Everyone OBVIOUS
  <2>2. IsFiniteSet(S) /\ Cardinality(S) <= N /\ (N = Cardinality(S) => Everyone = S) BY <2>1, HowMany, FS_Subset
  <2> QED BY <2>2, FS_CardinalityType
<1>3. 0 \in Good
  <2>1. Cardinality({w}) = 1 BY FS_Singleton
  <2>2. w \in f[0] /\ Cardinality(f[0]) = 1 BY <2>1
  <2>3. 1 >= 0 + 1 OBVIOUS
  <2>4. Cardinality(f[0]) >= 0 + 1 BY <2>2, <2>3
  <2>5. 0 \in 0..M BY <1>1
  <2> HIDE DEF Closed, M
  <2> QED BY <2>2, <2>4, <2>5
<1>4. ASSUME NEW n \in 1..M, n - 1 \in Good PROVE n \in Good
  <2> DEFINE S == f[n - 1]
             T == f[n]
  <2>1. n \in 1..N /\ n \in 0..N /\ n - 1 \in 0..N /\ n \in Nat /\ (n - 1) + 1 = n BY <1>1
  <2>2. T = Onward(S) /\ S \subseteq Everyone /\ T \subseteq Everyone /\ w \in S BY <1>4, <2>1
  <2>3. Closed(S) \/ Cardinality(S) >= n BY <1>4, <2>1
  <2>4. S \subseteq T BY <2>2 DEF Onward
  <2> HIDE DEF S, T
  <2>5. CASE Closed(S)
    <3>1. T = S BY <2>2, <2>5
    <3>2. Closed(T) /\ w \in T BY <2>2, <2>5, <3>1
    <3> QED BY <3>2 DEF T
  <2>6. CASE ~Closed(S)
    <3>1. PICK x \in T : x \notin S BY <2>2, <2>4, <2>6
    <3>2. S \cup {x} \subseteq T BY <2>4, <3>1
    <3>3. IsFiniteSet(S) /\ Cardinality(S) \in Nat /\ IsFiniteSet(T) /\ Cardinality(T) \in Nat BY <1>2, <2>2
    <3>4. Cardinality(S \cup {x}) = Cardinality(S) + 1 BY <3>1, <3>3, FS_AddElement
    <3>5. Cardinality(S \cup {x}) <= Cardinality(T) BY <3>2, <3>3, FS_Subset
    <3>6. Cardinality(T) >= n + 1 BY <2>1, <2>3, <2>6, <3>3, <3>4, <3>5
    <3>7. w \in T BY <2>2, <2>4
    <3> QED BY <3>6, <3>7 DEF T
  <2> QED BY <2>5, <2>6
<1>5. M \in Good
  <2>1. M \in 0..M BY <1>1
  <2> HIDE DEF Good, M
  <2> QED BY <1>1, <1>3, <1>4, <2>1, Counting
<1> DEFINE S == f[M]
<1>6. w \in S /\ S \subseteq Everyone /\ (Closed(S) \/ Cardinality(S) >= N) BY <1>1, <1>5
<1>7. f[N] = Onward(S) BY <1>1
<1> HIDE DEF S
<1>8. Closed(S)
  <2>1. CASE Cardinality(S) >= N
    <3>1. Cardinality(S) = N BY <1>1, <1>2, <1>6, <2>1
    <3>2. S = Everyone BY <1>2, <1>6, <3>1
    <3> QED BY <3>2 DEF Onward
  <2> QED BY <1>6, <2>1
<1>9. f[N] = S BY <1>7, <1>8
<1>10. \A v \in S : Nearest(v) \in Everyone => Nearest(v) \in S BY <1>8 DEF Onward
<1> QED BY <1>6, <1>9, <1>10 DEF S

\* The link a walk will follow from the top of the line it is on.
Eff(s) == IF s.link # NoWindow THEN s.link ELSE Nearest(s.at)

\* A walk on the line of v that has not come to the owner.
OnLine(s, v) == s \in Walkers /\ ~s.over /\ s.at \in Lineage(v) /\ Eff(s) = Nearest(v)

LEMMA LineStep ==
    ASSUME Settled, NEW owner, NEW v \in Everyone, NEW s, OnLine(s, v), s.at # owner
    PROVE  /\ Parent(s.at) # RootWindow =>
                OnLine(WalkStep(s, owner), v) /\ WalkStep(s, owner).at = Parent(s.at)
           /\ Parent(s.at) = RootWindow /\ Nearest(v) \in Everyone => WalkStep(s, owner) = Start(Nearest(v))
           /\ Parent(s.at) = RootWindow /\ Nearest(v) \notin Everyone =>
                WalkStep(s, owner).over /\ WalkStep(s, owner).at = s.at
<1> DEFINE at == s.at
           link == Link(s.link, at)
           up == Parent(at)
           new == WalkStep(s, owner)
<1>1. s \in Walkers /\ ~s.over /\ at \in Lineage(v) /\ Eff(s) = Nearest(v) BY DEF OnLine
<1>2. at \in Everyone /\ s.link \in Everyone \cup {RootWindow, NoWindow} BY <1>1 DEF Walkers
<1>3. new = IF up # RootWindow THEN [s EXCEPT !.at = up, !.link = link]
            ELSE IF link \in Everyone THEN [s EXCEPT !.at = link, !.link = NoWindow]
            ELSE [s EXCEPT !.over = TRUE]
  BY <1>1 DEF WalkStep
<1>4. new \in Walkers BY <1>1, WalkerType
<1>5. link = IF s.link # NoWindow THEN s.link ELSE transients[at] BY DEF Link
<1>6. Nearest(v) = IF s.link # NoWindow THEN s.link ELSE Nearest(at) BY <1>1 DEF Eff
<1>7. /\ transients[at] # NoWindow => Nearest(at) = transients[at]
      /\ transients[at] = NoWindow /\ up = RootWindow => Nearest(at) = NoWindow
      /\ transients[at] = NoWindow /\ up # RootWindow => Nearest(at) = Nearest(up)
  BY <1>2, NearestFacts
<1>8. AreLines(lines) BY DEF Settled
<1> HIDE DEF up, link, new
<1>9. ASSUME up # RootWindow PROVE OnLine(new, v) /\ new.at = up
  <2>1. new = [s EXCEPT !.at = up, !.link = link] BY <1>3, <1>9
  <2>2. new.at = up /\ new.link = link /\ ~new.over BY <1>1, <2>1 DEF Walkers
  <2>3. up \in Lineage(at) BY <1>2, <1>8, <1>9, NoNames, ParentFacts DEF up
  <2>4. up \in Lineage(v) BY <1>1, <1>8, <2>3, LineageIn
  <2>5. (IF link # NoWindow THEN link ELSE Nearest(up)) = Nearest(v) BY <1>5, <1>6, <1>7, <1>9
  <2>6. Eff(new) = Nearest(v) BY <2>2, <2>5 DEF Eff
  <2> QED BY <1>4, <2>2, <2>4, <2>6 DEF OnLine
<1>10. ASSUME up = RootWindow PROVE link = Nearest(v) BY <1>5, <1>6, <1>7, <1>10
<1>11. ASSUME up = RootWindow, Nearest(v) \in Everyone PROVE new = Start(Nearest(v))
  <2>1. new = [s EXCEPT !.at = link, !.link = NoWindow] BY <1>3, <1>10, <1>11
  <2>2. link = Nearest(v) BY <1>10, <1>11
  <2> QED BY <1>1, <2>1, <2>2 DEF Walkers, Start
<1>12. ASSUME up = RootWindow, Nearest(v) \notin Everyone PROVE new.over /\ new.at = s.at
  <2>1. new = [s EXCEPT !.over = TRUE] BY <1>3, <1>10, <1>12
  <2> QED BY <1>1, <2>1 DEF Walkers
<1> QED BY <1>9, <1>11, <1>12 DEF up, new

LEMMA StartIsOnLine ==
    ASSUME Settled, NEW v \in Everyone PROVE OnLine(Start(v), v)
<1>1. v \in Lineage(v) BY LineFacts DEF Settled
<1> QED BY <1>1 DEF OnLine, Start, Walkers, Eff

\* A walk that is over stays where it is.
LEMMA OverStays ==
    ASSUME NEW owner, NEW s \in Walkers, s.over \/ s.at = owner
    PROVE  WalkStep(s, owner).over /\ WalkStep(s, owner).at = s.at
<1>1. WalkStep(s, owner) = [s EXCEPT !.over = TRUE] BY DEF WalkStep
<1> QED BY <1>1 DEF Walkers

\* What the walk finds is there.
LEMMA WalkIsSound ==
    ASSUME Settled, NEW w \in Everyone, NEW owner, lorieWindowFamilyContains(w, owner)
    PROVE  \E v \in Stations(w) : owner \in Lineage(v)
<1> DEFINE C == Cardinality(Everyone)
           S == Stations(w)
<1>1. PICK f : /\ f[0] = Start(w)
               /\ \A n \in 0..LinkLimit : f[n] \in Walkers
               /\ \A n \in 1..LinkLimit : f[n] = WalkStep(f[n - 1], owner)
               /\ lorieWindowFamilyContains(w, owner) <=> f[LinkLimit].over /\ f[LinkLimit].at = owner
  BY WalkSteps
<1>2. w \in S /\ S \subseteq Everyone /\ \A v \in S : Nearest(v) \in Everyone => Nearest(v) \in S
  <2>1. PICK h : /\ h[0] = {w} /\ Stations(w) = h[C]
                 /\ \A n \in 0..C : h[n] \subseteq Everyone
                 /\ \A n \in 1..C : h[n] = Onward(h[n - 1])
    BY Hops
  <2>2. /\ w \in h[C]
        /\ \A v \in h[C] : Nearest(v) \in Everyone => Nearest(v) \in h[C]
    BY <2>1, StationsClosed
  <2>3. C \in 0..C BY HowMany
  <2> QED BY <2>1, <2>2, <2>3
<1> HIDE DEF S
<1> DEFINE Fine(s) == \E v \in S : s.at \in Lineage(v) /\ (~s.over => OnLine(s, v))
           Good == {n \in 0..LinkLimit : Fine(f[n])}
<1>3. LinkLimit \in Nat BY FamilyAssumption
<1>4. 0 \in Good
  <2>1. OnLine(Start(w), w) /\ Start(w).at = w BY StartIsOnLine DEF Start
  <2>2. Fine(Start(w)) BY <1>2, <2>1 DEF OnLine
  <2> HIDE DEF Fine
  <2> QED BY <1>1, <1>3, <2>2
<1>5. ASSUME NEW n \in 1..LinkLimit, n - 1 \in Good PROVE n \in Good
  <2> DEFINE s == f[n - 1]
             new == f[n]
  <2>1. PICK v \in S : s.at \in Lineage(v) /\ (~s.over => OnLine(s, v)) BY <1>5
  <2>2. new = WalkStep(s, owner) /\ n - 1 \in 0..LinkLimit /\ n \in 0..LinkLimit BY <1>1, <1>3
  <2>3. s \in Walkers BY <1>1, <2>2
  <2>4. v \in Everyone BY <1>2
  <2> HIDE DEF s, new
  <2>5. CASE s.over \/ s.at = owner
    <3>1. new.over /\ new.at = s.at BY <2>2, <2>3, <2>5, OverStays
    <3>2. Fine(new) BY <2>1, <3>1
    <3> QED BY <2>2, <3>2 DEF new
  <2>6. CASE ~(s.over \/ s.at = owner)
    <3>1. OnLine(s, v) /\ s.at # owner BY <2>1, <2>6
    <3>2. CASE Parent(s.at) # RootWindow
      <4>1. OnLine(new, v) BY <2>2, <2>4, <3>1, <3>2, LineStep
      <4>2. Fine(new) BY <4>1 DEF OnLine
      <4> QED BY <2>2, <4>2 DEF new
    <3>3. CASE Parent(s.at) = RootWindow /\ Nearest(v) \in Everyone
      <4>1. new = Start(Nearest(v)) BY <2>2, <2>4, <3>1, <3>3, LineStep
      <4>2. OnLine(new, Nearest(v)) BY <3>3, <4>1, StartIsOnLine
      <4>3. Nearest(v) \in S BY <1>2, <3>3
      <4>4. Fine(new) BY <4>2, <4>3 DEF OnLine
      <4> QED BY <2>2, <4>4 DEF new
    <3>4. CASE Parent(s.at) = RootWindow /\ Nearest(v) \notin Everyone
      <4>1. new.over /\ new.at = s.at BY <2>2, <2>4, <3>1, <3>4, LineStep
      <4>2. Fine(new) BY <2>1, <4>1
      <4> QED BY <2>2, <4>2 DEF new
    <3> QED BY <3>2, <3>3, <3>4
  <2> QED BY <2>5, <2>6
<1>6. LinkLimit \in Good
  <2>1. LinkLimit \in 0..LinkLimit BY <1>3
  <2> HIDE DEF Good
  <2> QED BY <1>3, <1>4, <1>5, <2>1, Counting
<1>7. f[LinkLimit].at = owner BY <1>1
<1>8. Fine(f[LinkLimit]) BY <1>6
<1> QED BY <1>7, <1>8 DEF S

\* The parents in a line.
LEMMA LineParents ==
    ASSUME AreLines(lines), NEW v \in Everyone, NEW k \in 1..Len(lines[v])
    PROVE  Parent(lines[v][k]) = IF k = Len(lines[v]) THEN RootWindow ELSE lines[v][k + 1]
<1> DEFINE m == Len(lines[v])
           u == lines[v][k]
<1>1. m \in Nat /\ Len(lines[u]) = m - k + 1 /\ \A j \in 1..(m - k + 1) : lines[u][j] = lines[v][k + j - 1]
  BY LineRest
<1>2. Parent(u) = IF Len(lines[u]) = 1 THEN RootWindow ELSE lines[u][2] BY DEF Parent
<1>3. k \in 1..m OBVIOUS
<1> HIDE DEF m, u
<1>4. Len(lines[u]) = 1 <=> k = m BY <1>1, <1>3
<1>5. k # m => 2 \in 1..(m - k + 1) /\ k + 2 - 1 = k + 1 BY <1>1, <1>3
<1>6. k # m => lines[u][2] = lines[v][k + 1] BY <1>1, <1>5
<1> QED BY <1>2, <1>4, <1>6 DEF m, u

\* A walk that starts on a line finds the owner there, or goes on where the
\* nearest link of the line leads, in as many steps as the line is long.
LEMMA LineWalk ==
    ASSUME Settled, NEW owner, NEW f, \A n \in 0..LinkLimit : f[n] \in Walkers,
           \A n \in 1..LinkLimit : f[n] = WalkStep(f[n - 1], owner),
           NEW v \in Everyone, NEW n \in Nat, n + Len(lines[v]) <= LinkLimit, f[n] = Start(v)
    PROVE  /\ owner \in Lineage(v) =>
                f[n + Len(lines[v])].over /\ f[n + Len(lines[v])].at = owner
           /\ owner \notin Lineage(v) /\ Nearest(v) \in Everyone =>
                f[n + Len(lines[v])] = Start(Nearest(v))
<1> DEFINE m == Len(lines[v])
           M == m - 1
           Found(s) == s.over /\ s.at = owner /\ owner \in Lineage(v)
           Going(s, k) == OnLine(s, v) /\ s.at = lines[v][k + 1] /\ \A j \in 1..k : lines[v][j] # owner
           Good == {k \in 0..M : Found(f[n + k]) \/ Going(f[n + k], k)}
<1>1. LinkLimit \in Nat BY FamilyAssumption
<1>2. AreLines(lines) BY DEF Settled
<1>3. /\ m \in Nat \ {0} /\ lines[v][1] = v
      /\ \A u : u \in Lineage(v) <=> \E i \in 1..m : lines[v][i] = u
  BY <1>2, LineFacts
<1>4. \A k \in 1..m : Parent(lines[v][k]) = IF k = m THEN RootWindow ELSE lines[v][k + 1] BY <1>2, LineParents
<1>5. n + m <= LinkLimit OBVIOUS
<1> HIDE DEF m
<1>6. M \in Nat /\ M + 1 = m /\ \A k \in 0..m : n + k \in 0..LinkLimit BY <1>1, <1>3, <1>5
<1>7. \A k \in 1..m : n + k \in 1..LinkLimit /\ (n + k) - 1 = n + (k - 1) BY <1>1, <1>3, <1>5
<1>8. 0 \in Good
  <2>1. Going(Start(v), 0)
    <3>1. OnLine(Start(v), v) /\ Start(v).at = v BY StartIsOnLine DEF Start
    <3>2. 0 + 1 = 1 /\ 1..0 = {} OBVIOUS
    <3> QED BY <1>3, <3>1, <3>2
  <2>2. n + 0 = n /\ 0 \in 0..M BY <1>6
  <2> HIDE DEF Going, Found
  <2> QED BY <2>1, <2>2
<1>9. ASSUME NEW k \in 1..m, k - 1 \in Good
      PROVE  \/ Found(f[n + k])
             \/ k # m /\ Going(f[n + k], k)
             \/ /\ k = m /\ owner \notin Lineage(v)
                /\ Nearest(v) \in Everyone => f[n + k] = Start(Nearest(v))
  <2> DEFINE s == f[n + (k - 1)]
             new == f[n + k]
  <2>1. s \in Walkers /\ new = WalkStep(s, owner)
    <3>1. k - 1 \in 0..m BY <1>3
    <3>2. n + (k - 1) \in 0..LinkLimit BY <1>6, <3>1
    <3>3. n + k \in 1..LinkLimit /\ (n + k) - 1 = n + (k - 1) BY <1>7
    <3> QED BY <3>2, <3>3
  <2>2. Found(s) \/ Going(s, k - 1) BY <1>9
  <2> HIDE DEF s, new
  <2>3. CASE Found(s)
    <3>1. new.over /\ new.at = s.at BY <2>1, <2>3, OverStays
    <3>2. Found(new) BY <2>3, <3>1
    <3> QED BY <3>2 DEF new
  <2>4. CASE Going(s, k - 1)
    <3>1. OnLine(s, v) /\ s.at = lines[v][k] /\ \A j \in 1..(k - 1) : lines[v][j] # owner
      <4>1. (k - 1) + 1 = k BY <1>3
      <4> QED BY <2>4, <4>1
    <3>2. CASE s.at = owner
      <4>1. new.over /\ new.at = s.at BY <2>1, <3>2, OverStays
      <4>2. owner \in Lineage(v) BY <3>1, <3>2 DEF OnLine
      <4>3. Found(new) BY <3>2, <4>1, <4>2
      <4> QED BY <4>3 DEF new
    <3>3. CASE s.at # owner
      <4>1. \A j \in 1..k : lines[v][j] # owner
        <5>1. \A j \in 1..k : j = k \/ j \in 1..(k - 1) BY <1>3
        <5> QED BY <3>1, <3>3, <5>1
      <4>2. Parent(s.at) = IF k = m THEN RootWindow ELSE lines[v][k + 1] BY <1>4, <3>1
      <4>3. CASE k # m
        <5>1. k \in 1..m /\ k + 1 \in 1..m BY <1>3, <4>3
        <5>2. lines[v][k + 1] \in Everyone BY <1>2, <5>1, LineRest DEF m
        <5>3. Parent(s.at) # RootWindow BY <4>2, <4>3, <5>2, NoNames
        <5>4. OnLine(new, v) /\ new.at = lines[v][k + 1] BY <2>1, <3>1, <3>3, <4>2, <4>3, <5>3, LineStep
        <5>5. Going(new, k) BY <4>1, <5>4
        <5> HIDE DEF Going
        <5> QED BY <4>3, <5>5 DEF new
      <4>4. CASE k = m
        <5>1. Parent(s.at) = RootWindow BY <4>2, <4>4
        <5>2. owner \notin Lineage(v) BY <1>3, <4>1, <4>4
        <5>3. Nearest(v) \in Everyone => new = Start(Nearest(v)) BY <2>1, <3>1, <3>3, <5>1, LineStep
        <5> QED BY <4>4, <5>2, <5>3 DEF new
      <4> QED BY <4>3, <4>4
    <3> QED BY <3>2, <3>3
  <2> QED BY <2>2, <2>3, <2>4
<1>10. M \in Good
  <2>1. M \in 0..M /\ \A k \in 1..M : k \in 1..m /\ k # m /\ k \in 0..M BY <1>6
  <2>2. ASSUME NEW k \in 1..M, k - 1 \in Good PROVE k \in Good
    <3> HIDE DEF Found, Going
    <3>1. Found(f[n + k]) \/ Going(f[n + k], k) BY <1>9, <2>1, <2>2
    <3> QED BY <2>1, <3>1
  <2> HIDE DEF Good, M
  <2> QED BY <1>6, <1>8, <2>1, <2>2, Counting
<1>11. m \in 1..m /\ m - 1 = M BY <1>6
<1>12. \/ Found(f[n + m])
       \/ /\ owner \notin Lineage(v)
          /\ Nearest(v) \in Everyone => f[n + m] = Start(Nearest(v))
  <2> HIDE DEF Found, Going, Good
  <2> QED BY <1>9, <1>10, <1>11
<1> QED BY <1>12 DEF m

LEMMA Times ==
    ASSUME NEW a \in Nat, NEW b \in Nat, NEW d \in Nat, a <= b
    PROVE  a * d \in Nat /\ b * d \in Nat /\ a * d <= b * d /\ (a + 1) * d = a * d + d
<1> DEFINE c == b - a
<1>1. c \in Nat /\ b = a + c OBVIOUS
<1> HIDE DEF c
<1>2. (a + c) * d = a * d + c * d /\ c * d >= 0 /\ a * d \in Nat /\ c * d \in Nat BY <1>1
<1>3. (a + 1) * d = a * d + d OBVIOUS
<1> QED BY <1>1, <1>2, <1>3

\* What is there the walk finds, if it has the links to go round every line.
LEMMA WalkIsComplete ==
    ASSUME Settled, NEW w \in Everyone, NEW owner, NEW goal \in Stations(w), owner \in Lineage(goal),
           NEW depth \in Nat, Cardinality(Everyone) * depth <= LinkLimit,
           \A v \in Everyone : Len(lines[v]) <= depth
    PROVE  lorieWindowFamilyContains(w, owner)
<1> DEFINE N == Cardinality(Everyone)
           M == N - 1
<1>1. PICK f : /\ f[0] = Start(w)
               /\ \A n \in 0..LinkLimit : f[n] \in Walkers
               /\ \A n \in 1..LinkLimit : f[n] = WalkStep(f[n - 1], owner)
               /\ lorieWindowFamilyContains(w, owner) <=> f[LinkLimit].over /\ f[LinkLimit].at = owner
  BY WalkSteps
<1>2. PICK h : /\ h[0] = {w} /\ Stations(w) = h[N]
               /\ \A n \in 0..N : h[n] \subseteq Everyone
               /\ \A n \in 1..N : h[n] = Onward(h[n - 1])
  BY Hops
<1>3. h[N] = h[M] BY <1>2, StationsClosed
<1>4. LinkLimit \in Nat /\ N \in Nat \ {0} /\ M \in Nat /\ M + 1 = N /\ M \in 0..N BY HowMany, FamilyAssumption
<1>5. N * depth <= LinkLimit OBVIOUS
<1>6. \A v \in Everyone : Len(lines[v]) \in Nat BY LineFacts DEF Settled
<1> HIDE DEF N
<1>7. \A k \in 0..M : /\ k * depth \in Nat /\ (k + 1) * depth = k * depth + depth /\ (k + 1) * depth \in Nat
                      /\ k * depth <= (k + 1) * depth /\ (k + 1) * depth <= LinkLimit
  <2> SUFFICES ASSUME NEW k \in 0..M
               PROVE  /\ k * depth \in Nat /\ (k + 1) * depth = k * depth + depth /\ (k + 1) * depth \in Nat
                      /\ k * depth <= (k + 1) * depth /\ (k + 1) * depth <= LinkLimit
    OBVIOUS
  <2> DEFINE j == k + 1
  <2>1. k \in Nat /\ j \in Nat /\ k <= j /\ j <= N BY <1>4
  <2> HIDE DEF j
  <2>2. k * depth \in Nat /\ j * depth \in Nat /\ k * depth <= j * depth /\ (k + 1) * depth = k * depth + depth BY <2>1, Times
  <2>3. j * depth <= N * depth /\ N * depth \in Nat BY <1>4, <2>1, Times
  <2>4. j * depth <= LinkLimit BY <1>4, <1>5, <2>2, <2>3
  <2> QED BY <2>2, <2>4 DEF j
<1> DEFINE Late(x) == \E n \in 0..x : f[n].over /\ f[n].at = owner
           Met(x, v) == \E n \in 0..x : f[n] = Start(v)
           Good == {k \in 0..M : \A v \in h[k] : Late(k * depth) \/ Met(k * depth, v)}
<1>8. \A x, y \in Nat : x <= y => (Late(x) => Late(y)) /\ \A v : Met(x, v) => Met(y, v)
  <2>1. \A x, y \in Nat : x <= y => \A n \in 0..x : n \in 0..y OBVIOUS
  <2> QED BY <2>1
\* From a line the walk goes on, or the owner is found.
<1>9. ASSUME NEW k \in 0..M, NEW u \in Everyone, Met(k * depth, u)
      PROVE  /\ owner \in Lineage(u) => Late((k + 1) * depth)
             /\ Late((k + 1) * depth) \/ (Nearest(u) \in Everyone => Met((k + 1) * depth, Nearest(u)))
  <2> DEFINE a == k * depth
             b == (k + 1) * depth
  <2>1. a \in Nat /\ b \in Nat /\ b = a + depth /\ b <= LinkLimit BY <1>7
  <2>2. PICK n \in 0..a : f[n] = Start(u) BY <1>9
  <2> HIDE DEF a, b
  <2> DEFINE e == n + Len(lines[u])
  <2>3. n \in Nat /\ e \in 0..b /\ e <= LinkLimit BY <1>4, <1>6, <2>1
  <2>4. /\ owner \in Lineage(u) => f[e].over /\ f[e].at = owner
        /\ owner \notin Lineage(u) /\ Nearest(u) \in Everyone => f[e] = Start(Nearest(u))
    BY <1>1, <2>2, <2>3, LineWalk
  <2> HIDE DEF e
  <2>5. owner \in Lineage(u) => Late(b) BY <2>3, <2>4
  <2>6. owner \notin Lineage(u) /\ Nearest(u) \in Everyone => Met(b, Nearest(u)) BY <2>3, <2>4
  <2> HIDE DEF Late, Met
  <2> QED BY <2>5, <2>6 DEF b
<1>10. 0 \in Good
  <2>1. 0 * depth = 0 /\ 0 \in 0..M BY <1>4
  <2>2. Met(0, w) BY <1>1
  <2> HIDE DEF Late, Met
  <2> QED BY <1>2, <2>1, <2>2
<1>11. ASSUME NEW k \in 1..M, k - 1 \in Good PROVE k \in Good
  <2> DEFINE i == k - 1
             a == i * depth
             b == k * depth
  <2>1. i \in 0..M /\ k \in 0..M /\ i + 1 = k /\ k \in 1..N /\ i \in 0..N BY <1>4
  <2>2. a \in Nat /\ b \in Nat /\ a <= b BY <1>7, <2>1
  <2>3. \A v \in h[i] : Late(a) \/ Met(a, v) BY <1>11
  <2>4. h[k] = Onward(h[i]) /\ h[i] \subseteq Everyone BY <1>2, <2>1
  <2>5. \A u \in Everyone : Met(a, u) => Late(b) \/ (Nearest(u) \in Everyone => Met(b, Nearest(u)))
    <3> HIDE DEF i, Late, Met
    <3> QED BY <1>9, <2>1
  <2>6. (Late(a) => Late(b)) /\ \A v : Met(a, v) => Met(b, v) BY <1>8, <2>2
  <2> HIDE DEF Late, Met, a, b, i
  <2>7. \A v \in h[k] : Late(b) \/ Met(b, v) BY <2>3, <2>4, <2>5, <2>6 DEF Onward
  <2> QED BY <2>1, <2>7 DEF b
<1>12. M \in Good /\ M \in 0..M
  <2>1. M \in 0..M BY <1>4
  <2> HIDE DEF Good, M
  <2> QED BY <1>4, <1>10, <1>11, <2>1, Counting
<1>13. Late(M * depth) \/ Met(M * depth, goal) BY <1>2, <1>3, <1>12
<1>14. goal \in Everyone BY <1>2, <1>3, <1>4
<1>15. Late((M + 1) * depth)
  <2>1. M * depth \in Nat /\ (M + 1) * depth \in Nat /\ M * depth <= (M + 1) * depth BY <1>7, <1>12
  <2> HIDE DEF M
  <2>2. CASE Late(M * depth) BY <1>8, <2>1, <2>2
  <2>3. CASE Met(M * depth, goal)
    <3> HIDE DEF Late, Met
    <3> QED BY <1>9, <1>12, <1>14, <2>3
  <2> QED BY <1>13, <2>2, <2>3
<1>16. PICK n \in 0..((M + 1) * depth) : f[n].over /\ f[n].at = owner BY <1>15
<1>17. n \in 0..LinkLimit
  <2> DEFINE b == (M + 1) * depth
  <2>1. b \in Nat /\ b <= LinkLimit /\ n \in 0..b BY <1>7, <1>12
  <2> HIDE DEF b
  <2> QED BY <1>4, <2>1
<1>18. f[LinkLimit].over /\ f[LinkLimit].at = f[n].at BY <1>1, <1>16, <1>17, WalkStays
<1> QED BY <1>1, <1>16, <1>18

LEMMA KinAreExact ==
    ASSUME Settled, WalkBudget, NEW w \in Everyone, NEW v \in Everyone
    PROVE  lorieWindowBelongsTo(w, v) <=> \E s \in Stations(w) : v \in Lineage(s)
<1>1. lorieWindowBelongsTo(w, v) <=> lorieWindowFamilyContains(w, v) BY DEF Settled, lorieWindowBelongsTo
<1>2. PICK depth \in 1..LinkLimit : /\ Cardinality(Everyone) * depth <= LinkLimit
                                    /\ \A s \in Structures, u \in Everyone : Len(s.lines[u]) <= depth
  BY DEF WalkBudget
<1>0. depth \in Nat BY FamilyAssumption
<1>3. PICK s \in Structures : lines = s.lines BY DEF Settled
<1>4. \A u \in Everyone : Len(lines[u]) <= depth BY <1>2, <1>3
<1>5. (\E u \in Stations(w) : v \in Lineage(u)) => lorieWindowFamilyContains(w, v) BY <1>0, <1>2, <1>4, WalkIsComplete
<1>6. lorieWindowFamilyContains(w, v) => \E u \in Stations(w) : v \in Lineage(u) BY WalkIsSound
<1> QED BY <1>1, <1>5, <1>6
-----------------------------------------------------------------------------
\* The walk of lorieInspectFamily().

\* Siblings do not lie one in the other.
LEMMA Siblings ==
    ASSUME AreLines(lines), NEW u \in Everyone, NEW v \in Everyone, Parent(u) = Parent(v), u \in Lineage(v)
    PROVE  u = v
<1> SUFFICES ASSUME u # v PROVE FALSE OBVIOUS
<1>1. Parent(v) # RootWindow BY NoNames, ParentFacts
<1>2. Lineage(v) = {v} \cup Lineage(Parent(v)) /\ Parent(u) # u /\ Parent(u) \in Lineage(u) BY <1>1, NoNames, ParentFacts
<1>3. u \in Lineage(Parent(u)) BY <1>2
<1>4. Parent(u) \in Everyone BY <1>1, NoNames, ParentFacts
<1>5. u \notin Lineage(Parent(u)) BY <1>2, LineLength
<1> QED BY <1>3, <1>5

\* The sibling above, if there is one.
LEMMA PrevSibIs ==
    ASSUME IsStacked(order), NEW u \in Everyone
    PROVE  \/ PrevSib(u) = 0 /\ \A y \in Everyone : Parent(y) = Parent(u) => ~Under(order, u, y)
           \/ /\ PrevSib(u) \in 1..Len(order) /\ order[PrevSib(u)] \in Everyone
              /\ Parent(order[PrevSib(u)]) = Parent(u) /\ Under(order, u, order[PrevSib(u)])
              /\ \A y \in Everyone : Parent(y) = Parent(u) /\ Under(order, u, y) =>
                   y = order[PrevSib(u)] \/ Under(order, order[PrevSib(u)], y)
<1> DEFINE A == {i \in 1..Len(order) : order[i] = u}
           at == IF A # {} THEN Min(A) ELSE 0
           J == {i \in (at + 1)..Len(order) : Parent(order[i]) = Parent(u)}
           k == IF J # {} THEN Min(J) ELSE 0
<1>1. PrevSib(u) = k BY DEF PrevSib, SelectInSeq, SelectInSubSeq
<1>2. order \in Seq(Everyone) /\ ToSet(order) = Everyone /\ IsOnce(order) BY DEF IsStacked
<1>3. DOMAIN order = 1..Len(order) /\ Len(order) \in Nat /\ \A i \in 1..Len(order) : order[i] \in Everyone BY <1>2
<1>4. \A y \in Everyone : \E i \in 1..Len(order) : order[i] = y BY <1>2, <1>3 DEF ToSet
<1>5. A # {} /\ A \subseteq Nat BY <1>3, <1>4
<1>6. Min(A) \in A
  <2> HIDE DEF A
  <2> QED BY <1>5, LeastMember
<1>7. at \in 1..Len(order) /\ order[at] = u
  <2>1. at = Min(A) BY <1>5
  <2>2. at \in A BY <1>6, <2>1
  <2> HIDE DEF at
  <2> QED BY <2>2
<1> HIDE DEF at
<1>8. \A i \in 1..Len(order) : i \in (at + 1)..Len(order) <=> Under(order, u, order[i])
  <2>1. \A i \in 1..Len(order) : Under(order, order[at], order[i]) <=> at < i BY <1>2, <1>7, UnderOrder
  <2>2. \A i \in 1..Len(order) : i \in (at + 1)..Len(order) <=> at < i BY <1>3, <1>7
  <2> QED BY <1>7, <2>1, <2>2
<1>9. J \subseteq 1..Len(order) /\ J \subseteq Nat BY <1>3, <1>7
<1>10. \A y \in Everyone : Parent(y) = Parent(u) /\ Under(order, u, y) => \E i \in J : order[i] = y
  <2> SUFFICES ASSUME NEW y \in Everyone, Parent(y) = Parent(u), Under(order, u, y) PROVE \E i \in J : order[i] = y
    OBVIOUS
  <2>1. PICK i \in 1..Len(order) : order[i] = y BY <1>4
  <2>2. i \in (at + 1)..Len(order) BY <1>8, <2>1
  <2> QED BY <2>1, <2>2
<1>11. CASE J = {} BY <1>1, <1>10, <1>11
<1>12. CASE J # {}
  <2>1. k = Min(J) BY <1>12
  <2>2. Min(J) \in J /\ \A i \in J : Min(J) <= i
    <3> HIDE DEF J
    <3> QED BY <1>9, <1>12, LeastMember
  <2>3. k \in J /\ \A i \in J : k <= i BY <2>1, <2>2
  <2>4. k \in 1..Len(order) /\ Parent(order[k]) = Parent(u) BY <1>9, <2>3
  <2>5. Under(order, u, order[k]) BY <1>8, <2>3, <2>4
  <2>6. ASSUME NEW y \in Everyone, Parent(y) = Parent(u), Under(order, u, y)
        PROVE  y = order[k] \/ Under(order, order[k], y)
    <3>1. PICK i \in J : order[i] = y BY <1>10, <2>6
    <3>2. k <= i /\ i \in 1..Len(order) BY <1>9, <2>3, <3>1
    <3> HIDE DEF k, J
    <3>3. k = i \/ k < i BY <2>4, <3>2
    <3>4. k < i => Under(order, order[k], order[i]) BY <1>2, <2>4, <3>2, UnderOrder
    <3> QED BY <3>1, <3>3, <3>4
  <2> HIDE DEF k, J
  <2> QED BY <1>1, <1>3, <2>4, <2>5, <2>6
<1> QED BY <1>11, <1>12

\* The lowest child, if there is one.
LEMMA LastChildIs ==
    ASSUME IsStacked(order), NEW w \in Everyone
    PROVE  \/ LastChild(w) = 0 /\ \A y \in Everyone : Parent(y) # w
           \/ /\ LastChild(w) \in 1..Len(order) /\ order[LastChild(w)] \in Everyone
              /\ Parent(order[LastChild(w)]) = w
              /\ \A y \in Everyone : Parent(y) = w =>
                   y = order[LastChild(w)] \/ Under(order, order[LastChild(w)], y)
<1> DEFINE J == {i \in 1..Len(order) : Parent(order[i]) = w}
           k == IF J # {} THEN Min(J) ELSE 0
<1>1. LastChild(w) = k BY DEF LastChild, SelectInSeq
<1>2. order \in Seq(Everyone) /\ ToSet(order) = Everyone /\ IsOnce(order) BY DEF IsStacked
<1>3. DOMAIN order = 1..Len(order) /\ Len(order) \in Nat /\ \A i \in 1..Len(order) : order[i] \in Everyone BY <1>2
<1>4. \A y \in Everyone : \E i \in 1..Len(order) : order[i] = y BY <1>2, <1>3 DEF ToSet
<1>5. J \subseteq 1..Len(order) /\ J \subseteq Nat BY <1>3
<1>6. \A y \in Everyone : Parent(y) = w => \E i \in J : order[i] = y BY <1>4
<1>7. CASE J = {} BY <1>1, <1>6, <1>7
<1>8. CASE J # {}
  <2>1. k = Min(J) BY <1>8
  <2>2. Min(J) \in J /\ \A i \in J : Min(J) <= i
    <3> HIDE DEF J
    <3> QED BY <1>5, <1>8, LeastMember
  <2>3. k \in J /\ \A i \in J : k <= i BY <2>1, <2>2
  <2>4. k \in 1..Len(order) /\ Parent(order[k]) = w BY <1>5, <2>3
  <2>5. ASSUME NEW y \in Everyone, Parent(y) = w PROVE y = order[k] \/ Under(order, order[k], y)
    <3>1. PICK i \in J : order[i] = y BY <1>6, <2>5
    <3>2. k <= i /\ i \in 1..Len(order) BY <1>5, <2>3, <3>1
    <3> HIDE DEF k, J
    <3>3. k = i \/ k < i BY <2>4, <3>2
    <3>4. k < i => Under(order, order[k], order[i]) BY <1>2, <2>4, <3>2, UnderOrder
    <3> QED BY <3>1, <3>3, <3>4
  <2> HIDE DEF k, J
  <2> QED BY <1>1, <1>3, <2>4, <2>5
<1> QED BY <1>7, <1>8

\* What comes after w, of the siblings of what w lies in.
LEMMA SiblingAfter ==
    ASSUME AreLines(lines), IsStacked(order), NEW w \in Everyone, NEW u \in Lineage(w),
           NEW y \in Everyone, Parent(y) = Parent(u), Under(order, u, y)
    PROVE  Under(order, w, y)
<1>1. order \in Seq(Everyone) /\ ToSet(order) = Everyone /\ IsOnce(order) BY DEF IsStacked
<1>2. u \in Everyone /\ u # y BY <1>1, LineFacts, UnderOrder
<1>3. u \notin Lineage(y) BY <1>2, Siblings
<1>4. w # y BY <1>3
<1>5. ~Under(order, y, w)
  <2> SUFFICES ASSUME Under(order, y, w) PROVE FALSE OBVIOUS
  <2>1. u # w BY <1>1, UnderOrder
  <2>2. u \in Lineage(y) BY <2>1 DEF IsStacked
  <2> QED BY <1>3, <2>2
<1> QED BY <1>1, <1>4, <1>5, UnderOrder

\* The walk of lorieInspectFamily() goes through the stacking ...
LEMMA FollowingIs ==
    ASSUME AreLines(lines), IsStacked(order), NEW w \in Everyone, NEW x \in Everyone,
           \A y \in Everyone : Under(order, w, y) <=> y = x \/ Under(order, x, y)
    PROVE  Following(w) = x
<1> DEFINE s == lines[w]
           I == {i \in 1..Len(s) : PrevSib(s[i]) # 0}
           climb == IF I # {} THEN Min(I) ELSE 0
<1>0. Following(w) = IF LastChild(w) # 0 THEN order[LastChild(w)]
                     ELSE IF climb # 0 THEN order[PrevSib(s[climb])]
                     ELSE NoWindow
  BY DEF Following, SelectInSeq
<1>1. order \in Seq(Everyone) /\ ToSet(order) = Everyone /\ IsOnce(order) BY DEF IsStacked
<1>2. Under(order, w, x) /\ w # x BY <1>1, UnderOrder
<1>3. /\ s \in Seq(Everyone) /\ Len(s) \in Nat \ {0}
      /\ \A v : v \in Lineage(w) <=> \E i \in 1..Len(s) : s[i] = v
  BY LineFacts
<1>4. \A c \in Everyone : Parent(c) = w => Under(order, w, c)
  <2> SUFFICES ASSUME NEW c \in Everyone, Parent(c) = w PROVE Under(order, w, c) OBVIOUS
  <2>1. w # RootWindow BY NoNames
  <2>2. w \in Lineage(c) /\ w # c BY <2>1, NoNames, ParentFacts
  <2> QED BY <2>2 DEF IsStacked
<1>5. CASE Parent(x) = w
  <2>1. /\ LastChild(w) \in 1..Len(order) /\ order[LastChild(w)] \in Everyone /\ Parent(order[LastChild(w)]) = w
        /\ x = order[LastChild(w)] \/ Under(order, order[LastChild(w)], x)
    BY <1>5, LastChildIs
  <2>2. Under(order, w, order[LastChild(w)]) BY <1>4, <2>1
  <2> DEFINE c == order[LastChild(w)]
  <2>3. c \in Everyone /\ Under(order, w, c) /\ (x = c \/ Under(order, c, x)) BY <2>1, <2>2
  <2>4. LastChild(w) # 0 BY <1>1, <2>1
  <2> HIDE DEF c
  <2>5. x = c \/ Under(order, x, c) BY <2>3
  <2>6. x = c BY <1>1, <2>3, <2>5, UnderOrder
  <2> QED BY <1>0, <2>4, <2>6 DEF c
<1>6. CASE Parent(x) # w
  <2>1. w \notin Lineage(x)
    <3> SUFFICES ASSUME w \in Lineage(x) PROVE FALSE OBVIOUS
    <3>1. PICK c \in Lineage(x) : Parent(c) = w BY <1>2, NoNames, ChildInLine
    <3>2. c \in Everyone /\ c # x BY <1>6, <3>1, LineFacts
    <3>3. Under(order, c, x) BY <3>2 DEF IsStacked
    <3>4. c = x \/ Under(order, x, c) BY <1>4, <3>1, <3>2
    <3> QED BY <1>1, <3>2, <3>3, <3>4, UnderOrder
  <2>2. \A c \in Everyone : Parent(c) # w
    <3> SUFFICES ASSUME NEW c \in Everyone, Parent(c) = w PROVE FALSE OBVIOUS
    <3>1. c # x BY <1>6
    <3>2. Under(order, x, c) BY <1>4, <3>1
    <3>3. w \in Lineage(c) /\ w # c BY NoNames, ParentFacts
    <3>4. w \in Lineage(x) BY <1>2, <3>2, <3>3 DEF IsStacked
    <3> QED BY <2>1, <3>4
  <2>3. LastChild(w) = 0
    <3>1. \/ LastChild(w) = 0
          \/ order[LastChild(w)] \in Everyone /\ Parent(order[LastChild(w)]) = w
      BY LastChildIs
    <3> QED BY <2>2, <3>1
  <2>4. PICK v \in Lineage(w) : Parent(v) = Parent(x)
    <3>1. CASE Parent(x) = RootWindow
      <4>1. TopLevel(w) \in Lineage(w) /\ Parent(TopLevel(w)) = RootWindow BY NoNames, TopFacts
      <4> QED BY <3>1, <4>1
    <3>2. CASE Parent(x) # RootWindow
      <4> DEFINE p == Parent(x)
      <4>1. p \in Everyone /\ p \in Lineage(x) /\ p # x BY <3>2, NoNames, ParentFacts
      <4>2. p # w BY <1>6
      <4> HIDE DEF p
      <4>3. Under(order, p, x) BY <4>1 DEF IsStacked
      <4>4. ~Under(order, w, p) BY <1>1, <4>1, <4>3, UnderOrder
      <4>5. Under(order, p, w) BY <1>1, <4>1, <4>2, <4>4, UnderOrder
      <4>6. p \in Lineage(w) BY <1>2, <4>1, <4>5 DEF IsStacked
      <4>7. \E c \in Lineage(w) : Parent(c) = p BY <4>2, <4>6, NoNames, ChildInLine
      <4> QED BY <4>7 DEF p
    <3> QED BY <3>1, <3>2
  <2>5. v \in Everyone BY LineFacts
  <2>6. v # x
    <3> SUFFICES ASSUME v = x PROVE FALSE OBVIOUS
    <3>1. Under(order, x, w) BY <1>2 DEF IsStacked
    <3> QED BY <1>1, <1>2, <3>1, UnderOrder
  <2>7. v \notin Lineage(x) BY <2>4, <2>5, <2>6, Siblings
  <2>8. Under(order, v, x)
    <3>1. CASE v = w BY <1>2, <3>1
    <3>2. CASE v # w
      <4>1. Under(order, v, w) BY <3>2 DEF IsStacked
      <4>2. ~Under(order, x, v)
        <5> SUFFICES ASSUME Under(order, x, v) PROVE FALSE OBVIOUS
        <5>1. Under(order, w, v) BY <2>5
        <5> QED BY <1>1, <4>1, <5>1, UnderOrder
      <4> QED BY <1>1, <2>5, <2>6, <4>2, UnderOrder
    <3> QED BY <3>1, <3>2
  <2>9. PrevSib(v) # 0 /\ order[PrevSib(v)] = x
    <3> DEFINE y == order[PrevSib(v)]
    <3>1. /\ PrevSib(v) \in 1..Len(order) /\ y \in Everyone /\ Parent(y) = Parent(v) /\ Under(order, v, y)
          /\ x = y \/ Under(order, y, x)
      BY <2>4, <2>5, <2>8, PrevSibIs
    <3>2. PrevSib(v) # 0 BY <1>1, <3>1
    <3> HIDE DEF y
    <3>3. Under(order, w, y) BY <3>1, SiblingAfter
    <3>4. y = x \/ Under(order, x, y) BY <3>1, <3>3
    <3>5. x = y BY <1>1, <3>1, <3>4, UnderOrder
    <3> QED BY <3>2, <3>5 DEF y
  <2>10. ASSUME NEW u \in Lineage(w), v \in Lineage(u), u # v PROVE PrevSib(u) = 0
    <3>1. u \in Everyone BY LineFacts
    <3> SUFFICES ASSUME PrevSib(u) # 0 PROVE FALSE OBVIOUS
    <3>2. PICK y \in Everyone : Parent(y) = Parent(u) /\ Under(order, u, y) BY <3>1, PrevSibIs
    <3>3. Under(order, w, y) BY <3>2, SiblingAfter
    <3>4. y = x \/ Under(order, x, y) BY <3>3
    <3> DEFINE q == Parent(u)
    <3>5. q # RootWindow /\ q \in Everyone /\ v \in Lineage(q) BY <2>10, <3>1, NoNames, ParentFacts
    <3>6. v \in Lineage(y) BY <3>2, <3>5, NoNames, ParentFacts
    <3>7. y # x BY <2>7, <3>6
    <3>8. Under(order, x, y) /\ v # y BY <1>1, <2>8, <3>4, <3>7, UnderOrder
    <3>9. v \in Lineage(x) BY <2>8, <3>6, <3>8 DEF IsStacked
    <3> QED BY <2>7, <3>9
  <2>11. PICK k \in 1..Len(s) : s[k] = v BY <1>3
  <2>12. k \in I BY <2>9, <2>11
  <2>13. ASSUME NEW i \in I PROVE k <= i
    <3> SUFFICES ASSUME i < k PROVE FALSE BY <1>3
    <3> DEFINE u == s[i]
    <3>1. i \in 1..Len(s) /\ u \in Lineage(w) /\ PrevSib(u) # 0 BY <1>3
    <3>2. Len(lines[u]) = Len(s) - i + 1 /\ \A j \in 1..(Len(s) - i + 1) : lines[u][j] = s[i + j - 1] BY <3>1, LineRest
    <3>3. Len(lines[v]) = Len(s) - k + 1 BY <2>11, LineRest
    <3>4. u \in Everyone /\ u # v
      <4>1. u \in Everyone BY <3>1, LineFacts
      <4>2. \A m \in Nat : i \in 1..m /\ k \in 1..m => m - i + 1 # m - k + 1 BY <2>11, <3>1
      <4>3. Len(s) - i + 1 # Len(s) - k + 1 BY <1>3, <2>11, <3>1, <4>2
      <4> HIDE DEF u, s
      <4> QED BY <3>2, <3>3, <4>1, <4>3
    <3>5. k - i + 1 \in 1..(Len(s) - i + 1) /\ i + (k - i + 1) - 1 = k BY <1>3, <2>11, <3>1
    <3>6. lines[u][k - i + 1] = v BY <2>11, <3>2, <3>5
    <3>7. v \in Lineage(u) BY <3>2, <3>4, <3>5, <3>6, LineFacts
    <3> QED BY <2>10, <3>1, <3>4, <3>7
  <2>14. I \subseteq Nat BY <1>3
  <2> HIDE DEF I
  <2>15. Min(I) \in I /\ \A y \in I : Min(I) <= y BY <2>12, <2>14, LeastMember
  <2>16. Min(I) = k
    <3> DEFINE a == Min(I)
    <3>1. a \in Nat /\ k \in Nat /\ a <= k /\ k <= a BY <2>12, <2>13, <2>14, <2>15
    <3> HIDE DEF a
    <3>2. a = k BY <3>1
    <3> QED BY <3>2 DEF a
  <2>17. climb = k /\ k # 0 BY <1>3, <2>12, <2>16
  <2> QED BY <1>0, <2>3, <2>9, <2>11, <2>17
<1> QED BY <1>5, <1>6

\* ... to its end.
LEMMA FollowingNone ==
    ASSUME AreLines(lines), IsStacked(order), NEW w \in Everyone, \A y \in Everyone : ~Under(order, w, y)
    PROVE  Following(w) = NoWindow
<1> DEFINE s == lines[w]
           I == {i \in 1..Len(s) : PrevSib(s[i]) # 0}
           climb == IF I # {} THEN Min(I) ELSE 0
<1>1. Following(w) = IF LastChild(w) # 0 THEN order[LastChild(w)]
                     ELSE IF climb # 0 THEN order[PrevSib(s[climb])]
                     ELSE NoWindow
  BY DEF Following, SelectInSeq
<1>2. LastChild(w) = 0
  <2> SUFFICES ASSUME LastChild(w) # 0 PROVE FALSE OBVIOUS
  <2>1. PICK c \in Everyone : Parent(c) = w BY LastChildIs
  <2>2. w \in Lineage(c) /\ w # c BY <2>1, NoNames, ParentFacts
  <2>3. Under(order, w, c) BY <2>2 DEF IsStacked
  <2> QED BY <2>3
<1>3. \A i \in 1..Len(s) : s[i] \in Lineage(w) BY LineFacts
<1>4. ASSUME NEW u \in Lineage(w) PROVE PrevSib(u) = 0
  <2>1. u \in Everyone BY LineFacts
  <2> SUFFICES ASSUME PrevSib(u) # 0 PROVE FALSE OBVIOUS
  <2>2. PICK y \in Everyone : Parent(y) = Parent(u) /\ Under(order, u, y) BY <2>1, PrevSibIs
  <2>3. Under(order, w, y) BY <2>2, SiblingAfter
  <2> QED BY <2>3
<1>5. I = {} BY <1>3, <1>4
<1> QED BY <1>1, <1>2, <1>5

LEMMA FollowingInOrder ==
    ASSUME AreLines(lines), IsStacked(order), NEW i \in 1..Len(order)
    PROVE  /\ Following(order[i]) = IF i = Len(order) THEN NoWindow ELSE order[i + 1]
           /\ order[i] \in Everyone
<1> DEFINE N == Len(order)
<1>1. order \in Seq(Everyone) /\ ToSet(order) = Everyone /\ IsOnce(order) BY DEF IsStacked
<1>2. N \in Nat /\ DOMAIN order = 1..N /\ \A k \in 1..N : order[k] \in Everyone BY <1>1
<1>3. \A y \in Everyone : \E k \in 1..N : order[k] = y BY <1>1, <1>2 DEF ToSet
<1>4. \A k, j \in 1..N : Under(order, order[k], order[j]) <=> k < j BY <1>1, UnderOrder
<1>5. \A k, j \in 1..N : order[k] = order[j] => k = j BY <1>1, OnceIs DEF IsInjective
<1>6. CASE i = N
  <2>1. \A y \in Everyone : ~Under(order, order[i], y)
    <3> SUFFICES ASSUME NEW y \in Everyone, Under(order, order[i], y) PROVE FALSE OBVIOUS
    <3>1. PICK j \in 1..N : order[j] = y BY <1>3
    <3>2. i < j BY <1>4, <3>1
    <3> QED BY <1>2, <1>6, <3>1, <3>2
  <2> QED BY <1>2, <1>6, <2>1, FollowingNone
<1>7. CASE i # N
  <2>0. \A m \in Nat : \A k \in 1..m : k # m => k + 1 \in 1..m OBVIOUS
  <2>1. i + 1 \in 1..N BY <1>2, <1>7, <2>0
  <2>2. ASSUME NEW y \in Everyone
        PROVE  Under(order, order[i], y) <=> y = order[i + 1] \/ Under(order, order[i + 1], y)
    <3>1. PICK j \in 1..N : order[j] = y BY <1>3
    <3>2. Under(order, order[i], y) <=> i < j BY <1>4, <3>1
    <3>3. Under(order, order[i + 1], y) <=> i + 1 < j BY <1>4, <2>1, <3>1
    <3>4. y = order[i + 1] <=> j = i + 1 BY <1>5, <2>1, <3>1
    <3>5. i < j <=> j = i + 1 \/ i + 1 < j BY <1>2, <3>1
    <3> QED BY <3>2, <3>3, <3>4, <3>5
  <2>3. order[i] \in Everyone /\ order[i + 1] \in Everyone BY <1>2, <2>1
  <2> DEFINE x == order[i + 1]
  <2> HIDE DEF x
  <2>4. x \in Everyone /\ \A y \in Everyone : Under(order, order[i], y) <=> y = x \/ Under(order, x, y)
    BY <2>2, <2>3 DEF x
  <2>5. Following(order[i]) = x BY <2>3, <2>4, FollowingIs
  <2> QED BY <1>7, <2>3, <2>5 DEF x
<1> QED BY <1>6, <1>7

\* How many windows a stacking has.
LEMMA HowManyInOrder == ASSUME IsStacked(order) PROVE Len(order) = Cardinality(Everyone) /\ Len(order) \in Nat \ {0}
<1>1. order \in Seq(Everyone) /\ ToSet(order) = Everyone /\ IsOnce(order) BY DEF IsStacked
<1>2. Len(order) \in Nat /\ DOMAIN order = 1..Len(order) BY <1>1
<1>3. order \in [1..Len(order) -> Everyone] BY <1>1
<1>5. \A y \in Everyone : \E k \in 1..Len(order) : order[k] = y BY <1>1, <1>2 DEF ToSet
<1>6. order \in Bijection(1..Len(order), Everyone)
  <2>1. IsInjective(order) BY <1>1, OnceIs
  <2>2. order \in Injection(1..Len(order), Everyone) BY <1>3, <2>1 DEF Injection
  <2>3. order \in Surjection(1..Len(order), Everyone) BY <1>3, <1>5 DEF Surjection
  <2> QED BY <2>2, <2>3 DEF Bijection
<1>7. ExistsBijection(1..Len(order), Everyone) BY <1>6 DEF ExistsBijection
<1>8. IsFiniteSet(1..Len(order)) /\ Cardinality(1..Len(order)) = Len(order)
  <2>1. 1 \in Int /\ Len(order) \in Int BY <1>2
  <2>2. Cardinality(1..Len(order)) = IF 1 > Len(order) THEN 0 ELSE Len(order) - 1 + 1 BY <2>1, FS_Interval
  <2>3. IsFiniteSet(1..Len(order)) BY <2>1, FS_Interval
  <2> QED BY <1>2, <2>2, <2>3
<1>9. Cardinality(Everyone) = Len(order) BY <1>7, <1>8, FS_Bijection
<1> QED BY <1>9, HowMany

Inspectors == [at : Everyone \cup {NoWindow}, sent : Seq(Everyone), truncated : BOOLEAN]

InspectStep(s, limit) ==
    LET emit == s.at \in Everyone \ {Owner} /\ lorieInspectMember(s.at, Owner)
    IN  IF s.truncated \/ s.at = NoWindow THEN s
        ELSE IF emit /\ Len(s.sent) = limit THEN [s EXCEPT !.truncated = TRUE]
        ELSE [s EXCEPT !.at = Following(s.at),
                       !.sent = IF emit THEN Append(@, s.at) ELSE @]

InspectTurns(f, limit) ==
    f = [n \in 0..Cardinality(Everyone) |->
          IF n = 0 THEN [at |-> order[1], sent |-> <<Owner>>, truncated |-> FALSE]
          ELSE InspectStep(f[n - 1], limit)]

InspectRun(limit) == CHOOSE f : InspectTurns(f, limit)

LEMMA InspectIs ==
    ASSUME NEW limit PROVE lorieInspectFamily(Owner, limit) = InspectRun(limit)[Cardinality(Everyone)]
BY DEF lorieInspectFamily, InspectRun, InspectTurns, InspectStep

LEMMA InspectorType ==
    ASSUME FamilyInv, NEW s \in Inspectors, NEW limit
    PROVE  InspectStep(s, limit) \in Inspectors
<1> DEFINE emit == s.at \in Everyone \ {Owner} /\ lorieInspectMember(s.at, Owner)
           next == Following(s.at)
           sent == IF emit THEN Append(s.sent, s.at) ELSE s.sent
<1>1. AreLines(lines) /\ IsStacked(order) BY StackedIs DEF FamilyInv, Settled
<1>2. order \in Seq(Everyone) /\ ToSet(order) = Everyone BY <1>1 DEF IsStacked
<1>3. s.at \in Everyone \cup {NoWindow} /\ s.sent \in Seq(Everyone) BY DEF Inspectors
<1>4. s.at # NoWindow => next \in Everyone \cup {NoWindow}
  <2> SUFFICES ASSUME s.at \in Everyone PROVE next \in Everyone \cup {NoWindow} BY <1>3
  <2>1. DOMAIN order = 1..Len(order) /\ Len(order) \in Nat BY <1>2
  <2>2. PICK i \in 1..Len(order) : order[i] = s.at BY <1>2, <2>1 DEF ToSet
  <2>3. next = IF i = Len(order) THEN NoWindow ELSE order[i + 1] BY <1>1, <2>2, FollowingInOrder
  <2>4. \A m \in Nat : \A k \in 1..m : k # m => k + 1 \in 1..m OBVIOUS
  <2>5. i # Len(order) => i + 1 \in 1..Len(order) BY <2>1, <2>4
  <2>6. i # Len(order) => order[i + 1] \in Everyone BY <1>2, <2>5
  <2> QED BY <2>3, <2>6
<1>5. sent \in Seq(Everyone) BY <1>3
<1>6. InspectStep(s, limit) =
        IF s.truncated \/ s.at = NoWindow THEN s
        ELSE IF emit /\ Len(s.sent) = limit THEN [s EXCEPT !.truncated = TRUE]
        ELSE [s EXCEPT !.at = next, !.sent = sent]
  BY DEF InspectStep
<1> HIDE DEF emit, next, sent
<1>7. [s EXCEPT !.truncated = TRUE] \in Inspectors BY DEF Inspectors
<1>8. s.at # NoWindow => [s EXCEPT !.at = next, !.sent = sent] \in Inspectors BY <1>4, <1>5 DEF Inspectors
<1> QED BY <1>6, <1>7, <1>8

\* The walk window by window.
LEMMA InspectSteps ==
    ASSUME FamilyInv, NEW limit
    PROVE  \E f : /\ f[0] = [at |-> order[1], sent |-> <<Owner>>, truncated |-> FALSE]
                  /\ lorieInspectFamily(Owner, limit) = f[Cardinality(Everyone)]
                  /\ \A n \in 1..Cardinality(Everyone) : f[n] = InspectStep(f[n - 1], limit)
<1> DEFINE N == Cardinality(Everyone)
           X == Inspectors
           base == [at |-> order[1], sent |-> <<Owner>>, truncated |-> FALSE]
           step == [p \in X \X (1..N) |-> InspectStep(p[1], limit)]
           f == InspectRun(limit)
           h == [n \in 0..N |-> IF n = 0 THEN base ELSE InspectStep(f[n - 1], limit)]
<1>1. N \in Nat BY HowMany
<1>2. base \in X
  <2>1. IsStacked(order) BY StackedIs DEF FamilyInv, Settled
  <2>2. order \in Seq(Everyone) BY <2>1 DEF IsStacked
  <2>3. Len(order) \in Nat \ {0} BY <2>1, HowManyInOrder
  <2>4. order[1] \in Everyone BY <2>2, <2>3
  <2>5. <<Owner>> \in Seq(Everyone) BY NoNames
  <2> QED BY <2>4, <2>5 DEF Inspectors
<1>3. \A s \in X : InspectStep(s, limit) \in X BY InspectorType
<1>4. PICK g : IsRun(g, X, N, base, step)
  <2> HIDE DEF N, X, base
  <2>1. IsLoop(step, X, N) BY <1>3 DEF IsLoop
  <2> HIDE DEF step
  <2> QED BY ONLY <1>1, <1>2, <2>1, Turns
<1> HIDE DEF X, base, N
<1>5. g \in [0..N -> X] /\ g[0] = base /\ \A n \in 1..N : g[n] = InspectStep(g[n - 1], limit)
  <2>0. g \in [0..N -> X] /\ g[0] = base /\ \A n \in 1..N : g[n] = step[<<g[n - 1], n>>]
    BY <1>4, Zenon DEF IsRun
  <2>1. ASSUME NEW n \in 1..N PROVE g[n] = InspectStep(g[n - 1], limit)
    <3>1. n - 1 \in 0..N BY <1>1
    <3>2. g[n - 1] \in X BY <2>0, <3>1
    <3>3. g[n] = step[<<g[n - 1], n>>] BY <2>0
    <3> QED BY <3>2, <3>3
  <2> QED BY <2>0, <2>1
<1>6. InspectTurns(g, limit)
  <2>1. \A n \in 0..N : n # 0 => n \in 1..N BY <1>1
  <2>2. g = [n \in 0..N |-> g[n]] BY <1>5
  <2>3. \A n \in 0..N : g[n] = IF n = 0 THEN base ELSE InspectStep(g[n - 1], limit) BY <1>5, <2>1
  <2>4. g = [n \in 0..N |-> IF n = 0 THEN base ELSE InspectStep(g[n - 1], limit)] BY <2>2, <2>3
  <2> QED BY <2>4 DEF InspectTurns, N, base
<1>7. InspectTurns(f, limit) BY <1>6, Zenon DEF InspectRun
<1>8. f = h BY <1>7 DEF InspectTurns, N, base
<1>9. h[0] = base /\ \A n \in 1..N : h[n] = InspectStep(f[n - 1], limit) BY <1>1
<1>10. lorieInspectFamily(Owner, limit) = f[N] BY InspectIs DEF N
<1> HIDE DEF f, h
<1>11. f[0] = base /\ \A n \in 1..N : f[n] = InspectStep(f[n - 1], limit) BY <1>8, <1>9
<1> QED BY <1>10, <1>11 DEF N, base

\* Whom the inspection of the owner's family shall report.
Members == {w \in Everyone : lorieInspectMember(w, Owner)}

\* What has been reported after n windows.
Reported(s, n, limit) ==
    /\ s \in Inspectors /\ IsOnce(s.sent) /\ Len(s.sent) \in 1..limit /\ s.sent[1] = Owner
    /\ ToSet(s.sent) \subseteq Members
    /\ ~s.truncated =>
         /\ s.at = IF n = Len(order) THEN NoWindow ELSE order[n + 1]
         /\ \A x : x \in ToSet(s.sent) <=> x = Owner \/ (x \in Members /\ HasIn(order, n, x))
    /\ s.truncated => Len(s.sent) = limit /\ \E x \in Members : x \notin ToSet(s.sent)

LEMMA ReportStep ==
    ASSUME FamilyInv, NEW limit \in Nat, NEW n \in 1..Len(order), NEW s, Reported(s, n - 1, limit)
    PROVE  Reported(InspectStep(s, limit), n, limit)
<1> DEFINE new == InspectStep(s, limit)
           m == n - 1
           w == order[n]
           emit == s.at \in Everyone \ {Owner} /\ lorieInspectMember(s.at, Owner)
           more == Append(s.sent, s.at)
<1>1. AreLines(lines) /\ IsStacked(order) BY StackedIs DEF FamilyInv, Settled
<1>2. order \in Seq(Everyone) /\ ToSet(order) = Everyone /\ IsOnce(order) BY <1>1 DEF IsStacked
<1>3. Len(order) \in Nat /\ n \in Nat /\ m \in Nat /\ m + 1 = n /\ m # Len(order) BY <1>2
<1>4. w \in Everyone /\ Following(w) = IF n = Len(order) THEN NoWindow ELSE order[n + 1] BY <1>1, FollowingInOrder
<1>5. new = IF s.truncated \/ s.at = NoWindow THEN s
            ELSE IF emit /\ Len(s.sent) = limit THEN [s EXCEPT !.truncated = TRUE]
            ELSE [s EXCEPT !.at = Following(s.at), !.sent = IF emit THEN more ELSE s.sent]
  BY DEF InspectStep
<1>6. s \in Inspectors /\ s.sent \in Seq(Everyone) /\ s.truncated \in BOOLEAN BY DEF Reported, Inspectors
<1>7. Reported(s, m, limit) OBVIOUS
<1>8. CASE s.truncated
  <2>1. new = s BY <1>5, <1>8
  <2> HIDE DEF new
  <2> QED BY <1>7, <1>8, <2>1 DEF Reported, new
<1>9. CASE ~s.truncated
  <2>1. s.at = w /\ s.at # NoWindow BY <1>3, <1>4, <1>7, <1>9, NoNames DEF Reported
  <2>2. emit <=> w \in Members /\ w # Owner BY <1>4, <2>1 DEF Members
  <2>3. \A x : x \in ToSet(s.sent) <=> x = Owner \/ (x \in Members /\ HasIn(order, m, x)) BY <1>7, <1>9 DEF Reported
  <2>4. \A x : HasIn(order, n, x) <=> HasIn(order, m, x) \/ x = w
    <3>1. \A x : HasIn(order, m + 1, x) <=> HasIn(order, m, x) \/ x = order[m + 1]
      <4> HIDE DEF m
      <4> QED BY <1>3, InNext
    <3> QED BY <1>3, <3>1
  <2>5. ~HasIn(order, m, w)
    <3> SUFFICES ASSUME HasIn(order, m, w) PROVE FALSE OBVIOUS
    <3>1. PICK i \in 1..m : order[i] = w BY DEF HasIn
    <3>2. i \in 1..Len(order) /\ i < n BY <1>3, <3>1
    <3>3. Under(order, w, w) BY <3>1, <3>2 DEF Under
    <3> QED BY <1>2, <3>3 DEF IsOnce
  <2>6. emit => w \notin ToSet(s.sent) BY <2>2, <2>3, <2>5
  <2>7. /\ IsOnce(s.sent) /\ Len(s.sent) \in 1..limit /\ s.sent[1] = Owner /\ ToSet(s.sent) \subseteq Members
    BY <1>7 DEF Reported
  <2>8. more \in Seq(Everyone) /\ Len(more) = Len(s.sent) + 1 /\ more[1] = s.sent[1]
        /\ (\A x : x \in ToSet(more) <=> x \in ToSet(s.sent) \/ x = w)
        /\ (\A u, v : Under(more, u, v) <=> Under(s.sent, u, v) \/ (u \in ToSet(s.sent) /\ v = w))
    <3>1. more = Append(s.sent, w) BY <2>1
    <3>2. Len(s.sent) \in Nat /\ 1 \in 1..Len(s.sent) BY <2>7
    <3>3. Append(s.sent, w)[1] = s.sent[1] /\ Len(Append(s.sent, w)) = Len(s.sent) + 1 BY <1>4, <1>6, <3>2
    <3> HIDE DEF w, more
    <3> QED BY <1>4, <1>6, <3>1, <3>3, InAppended
  <2>9. new \in Inspectors BY <1>6, InspectorType
  <2> HIDE DEF emit, more, new, w, m
  <2>10. CASE emit /\ Len(s.sent) = limit
    <3>1. new = [s EXCEPT !.truncated = TRUE] BY <1>5, <1>9, <2>1, <2>10
    <3>2. new.truncated /\ new.sent = s.sent BY <1>6, <3>1 DEF Inspectors
    <3>3. w \in Members /\ w \notin ToSet(s.sent) BY <2>2, <2>6, <2>10
    <3>4. Reported(new, n, limit) BY <2>7, <2>9, <2>10, <3>2, <3>3 DEF Reported
    <3> QED BY <3>4 DEF new
  <2>11. CASE emit /\ Len(s.sent) # limit
    <3>1. new = [s EXCEPT !.at = Following(s.at), !.sent = more] BY <1>5, <1>9, <2>1, <2>11
    <3>2. ~new.truncated /\ new.sent = more /\ new.at = Following(w) BY <1>6, <1>9, <2>1, <3>1 DEF Inspectors
    <3>3. Len(more) \in 1..limit BY <2>7, <2>8, <2>11
    <3>4. IsOnce(more) BY <2>6, <2>7, <2>8, <2>11 DEF IsOnce
    <3>5. ToSet(more) \subseteq Members BY <2>2, <2>7, <2>8, <2>11
    <3>6. \A x : x \in ToSet(more) <=> x = Owner \/ (x \in Members /\ HasIn(order, n, x))
      BY <2>2, <2>3, <2>4, <2>8, <2>11
    <3>7. Reported(new, n, limit) BY <1>4, <2>7, <2>8, <2>9, <3>2, <3>3, <3>4, <3>5, <3>6 DEF Reported
    <3> QED BY <3>7 DEF new
  <2>12. CASE ~emit
    <3>1. new = [s EXCEPT !.at = Following(s.at), !.sent = s.sent] BY <1>5, <1>9, <2>1, <2>12
    <3>2. ~new.truncated /\ new.sent = s.sent /\ new.at = Following(w) BY <1>6, <1>9, <2>1, <3>1 DEF Inspectors
    <3>3. \A x : x \in ToSet(s.sent) <=> x = Owner \/ (x \in Members /\ HasIn(order, n, x))
      BY <2>2, <2>3, <2>4, <2>12
    <3>4. Reported(new, n, limit) BY <1>4, <2>7, <2>9, <3>2, <3>3 DEF Reported
    <3> QED BY <3>4 DEF new
  <2> QED BY <2>10, <2>11, <2>12
<1> QED BY <1>6, <1>8, <1>9

LEMMA ReportIsExact ==
    ASSUME FamilyInv, NEW limit \in Nat \ {0}
    PROVE  LET r == lorieInspectFamily(Owner, limit)
           IN  /\ Head(r.sent) = Owner /\ IsInjective(r.sent) /\ ToSet(r.sent) \subseteq Members
               /\ r.truncated <=> ToSet(r.sent) # Members
               /\ r.truncated => Len(r.sent) = limit
<1> DEFINE N == Len(order)
           r == lorieInspectFamily(Owner, limit)
           base == [at |-> order[1], sent |-> <<Owner>>, truncated |-> FALSE]
<1>1. AreLines(lines) /\ IsStacked(order) /\ Settled BY StackedIs DEF FamilyInv, Settled
<1>2. N = Cardinality(Everyone) /\ N \in Nat \ {0} BY <1>1, HowManyInOrder
<1>3. order \in Seq(Everyone) /\ ToSet(order) = Everyone BY <1>1 DEF IsStacked
<1>4. PICK f : f[0] = base /\ r = f[N] /\ \A n \in 1..N : f[n] = InspectStep(f[n - 1], limit) BY <1>2, InspectSteps
<1>5. Owner \in Members
  <2>1. Owner \in Lineage(Owner) BY <1>1, NoNames, LineFacts
  <2>2. familyMember(Owner, Owner) BY <1>1, KinToItself, NoNames DEF familyMember, MemberAt
  <2> QED BY <2>1, <2>2, NoNames DEF Members, lorieInspectMember
<1>6. Reported(base, 0, limit)
  <2>1. order[1] \in Everyone BY <1>2, <1>3
  <2> DEFINE one == <<Owner>>
  <2>2. one \in Seq(Everyone) /\ Len(one) = 1 /\ one[1] = Owner /\ ToSet(one) = {Owner} BY NoNames DEF ToSet
  <2>3. IsOnce(one) BY <2>2 DEF IsOnce, Under
  <2> HIDE DEF one
  <2>4. [at |-> order[1], sent |-> one, truncated |-> FALSE] \in Inspectors BY <2>1, <2>2 DEF Inspectors
  <2>5. \A x : ~HasIn(order, 0, x) BY DEF HasIn
  <2>6. 1 \in 1..limit /\ 0 + 1 = 1 /\ 0 # N BY <1>2
  <2>7. base = [at |-> order[1], sent |-> one, truncated |-> FALSE] BY DEF one
  <2>8. base.at = order[1] /\ base.sent = one /\ ~base.truncated BY <2>7
  <2> HIDE DEF base
  <2> QED BY <1>5, <2>2, <2>3, <2>4, <2>5, <2>6, <2>7, <2>8 DEF Reported
<1> HIDE DEF base
<1> DEFINE Good == {n \in 0..N : Reported(f[n], n, limit)}
<1>7. 0 \in Good BY <1>2, <1>4, <1>6
<1>8. ASSUME NEW n \in 1..N, n - 1 \in Good PROVE n \in Good
  <2>1. Reported(f[n - 1], n - 1, limit) BY <1>8
  <2>2. f[n] = InspectStep(f[n - 1], limit) BY <1>4
  <2>3. Reported(f[n], n, limit) BY <2>1, <2>2, ReportStep
  <2> QED BY <1>2, <2>3
<1>9. N \in Good
  <2>1. N \in 0..N /\ N \in Nat BY <1>2
  <2> HIDE DEF Good, N
  <2> QED BY <1>7, <1>8, <2>1, Counting
<1>10. Reported(r, N, limit) BY <1>4, <1>9
<1> HIDE DEF r
<1>11. r.sent \in Seq(Everyone) /\ IsOnce(r.sent) /\ Len(r.sent) \in 1..limit /\ r.sent[1] = Owner /\ ToSet(r.sent) \subseteq Members
  BY <1>10 DEF Reported, Inspectors
<1>12. Head(r.sent) = Owner
  <2> DEFINE q == r.sent
  <2>1. q \in Seq(Everyone) /\ q[1] = Owner BY <1>11
  <2> HIDE DEF q
  <2>2. Head(q) = q[1] OBVIOUS
  <2> QED BY <2>1, <2>2 DEF q
<1>13. IsInjective(r.sent) BY <1>11, OnceIs
<1>14. ~r.truncated => ToSet(r.sent) = Members
  <2>1. \A x : x \in Everyone => HasIn(order, N, x) BY <1>3, InAll
  <2>2. Members \subseteq Everyone BY DEF Members
  <2> QED BY <1>5, <1>10, <1>11, <2>1, <2>2 DEF Reported
<1>15. r.truncated => ToSet(r.sent) # Members /\ Len(r.sent) = limit BY <1>10 DEF Reported
<1> QED BY <1>11, <1>12, <1>13, <1>14, <1>15 DEF r


-----------------------------------------------------------------------------
\* The families' theorems.

LEMMA FamilyStarts == FamilyInit => FamilyInv
<1> SUFFICES ASSUME FamilyInit PROVE FamilyInv OBVIOUS
<1>1. PICK s \in Structures : /\ lines = s.lines /\ transients = s.transients /\ kinds = s.kinds
                              /\ leaders = s.leaders /\ order = s.order
  BY DEF FamilyInit
<1>2. /\ AreLines(s.lines) /\ s.lines[Owner] = <<Owner>>
      /\ s.transients \in [Everyone -> Everyone \cup {RootWindow, NoWindow}]
      /\ s.kinds \in [Everyone -> {"plain", "modal", "popup", "tooltip", "input"}]
      /\ s.leaders \subseteq Everyone
      /\ IsStacking(s.order, s.lines)
  BY StructuresAssumption
<1>3. kin = {p \in Everyone \X Everyone : lorieWindowFamilyContains(p[1], p[2])} BY DEF FamilyInit
<1>4. Settled BY <1>1, <1>2, <1>3 DEF Settled
<1>5. \A w \in Everyone : Lineage(w) \subseteq Everyone BY <1>4, LineFacts DEF Settled
<1>6. visible \in {{}, Everyone} /\ focus \in visible \cup {NoWindow} BY DEF FamilyInit
<1>7. Standing(visible, focus) BY <1>5, <1>6 DEF Standing
<1>8. grabs \in [Devices -> Everyone \cup {NoWindow}] BY DEF FamilyInit, Devices
<1>9. IsStacking(order, lines) BY <1>1, <1>2
<1> QED BY <1>4, <1>7, <1>8, <1>9 DEF FamilyInv

LEMMA FamilyStutters == ASSUME FamilyInv, UNCHANGED familyVars PROVE FamilyInv'
<1>1. /\ UNCHANGED structure
      /\ visible' = visible /\ focus' = focus /\ grabs' = grabs /\ order' = order /\ lines' = lines
  BY DEF familyVars, structure
<1>2. Settled' BY <1>1, SettledStays DEF FamilyInv
<1>3. Standing(visible, focus)' BY <1>1 DEF FamilyInv, Standing, Lineage
<1>4. IsStacking(order, lines)' BY <1>1 DEF FamilyInv
<1>5. grabs' \in [Devices -> Everyone \cup {NoWindow}] BY <1>1 DEF FamilyInv
<1> QED BY <1>2, <1>3, <1>4, <1>5 DEF FamilyInv

LEMMA FamilyGrabs ==
    ASSUME FamilyInv, NEW d \in ToSet(GrabDevices), NEW w \in Companions, ClientGrab(d, w)
    PROVE  FamilyInv'
<1>1. /\ UNCHANGED structure
      /\ visible' = visible /\ focus' = focus /\ order' = order /\ lines' = lines
      /\ grabs' = [grabs EXCEPT ![d] = w]
  BY DEF ClientGrab, structure
<1>2. Settled' BY <1>1, SettledStays DEF FamilyInv
<1>3. Standing(visible, focus)' BY <1>1 DEF FamilyInv, Standing, Lineage
<1>4. IsStacking(order, lines)' BY <1>1 DEF FamilyInv
<1>5. grabs' \in [Devices -> Everyone \cup {NoWindow}] BY <1>1 DEF FamilyInv, Everyone
<1> QED BY <1>2, <1>3, <1>4, <1>5 DEF FamilyInv

LEMMA FamilySteps == FamilyInv /\ [FamilyNext]_familyVars => FamilyInv'
<1> SUFFICES ASSUME FamilyInv, [FamilyNext]_familyVars PROVE FamilyInv' OBVIOUS
<1>1. CASE lorieWindowFocus(Owner) BY <1>1, FocusStep
<1>2. CASE lorieWindowBlur(Owner) BY <1>2, BlurStep
<1>3. CASE \E d \in ToSet(GrabDevices), w \in Companions : ClientGrab(d, w) BY <1>3, FamilyGrabs
<1>4. CASE UNCHANGED familyVars BY <1>4, FamilyStutters
<1> QED BY <1>1, <1>2, <1>3, <1>4 DEF FamilyNext

\* The structure stays what the clients made, `kin' is what the walk finds in
\* it, the focus is on a realized window and the stacking is that of a tree,
\* through focus, blur and grabs (window_model.c).
THEOREM FamilyInvariance == FamilySpec => []FamilyInv
<1>1. FamilyInit => FamilyInv BY FamilyStarts
<1>2. FamilyInv /\ [FamilyNext]_familyVars => FamilyInv' BY FamilySteps
<1> QED BY <1>1, <1>2, PTL DEF FamilySpec

\* lorieWindowBlur() ends the grabs of the family and, but for the windows that
\* follow a focus it took away, no others; the focus is then not the family's.
THEOREM BlurCorrect == FamilySpec => BlurEndsFamilyGrabs
<1>1. FamilyInv => [lorieWindowBlur(Owner) => BlurIsRight]_familyVars BY BlurStep
<1>2. FamilySpec => []FamilyInv BY FamilyInvariance
<1>3. FamilySpec => [][lorieWindowBlur(Owner) => BlurIsRight]_familyVars BY <1>1, <1>2, PTL
<1> QED BY <1>3 DEF BlurEndsFamilyGrabs, BlurIsRight

\* lorieWindowFocus() brings the family to the top in the order it had and
\* names its topmost modal window.
THEOREM ActivationCorrect == FamilySpec => ActivationIsOrderly
<1>1. FamilyInv => [lorieWindowFocus(Owner) => ActivationIsRight]_familyVars BY FocusStep
<1>2. FamilySpec => []FamilyInv BY FamilyInvariance
<1>3. FamilySpec => [][lorieWindowFocus(Owner) => ActivationIsRight]_familyVars BY <1>1, <1>2, PTL
<1> QED BY <1>3, PTL DEF ActivationIsOrderly, ActivationIsRight

\* What holds with any budget of links: nobody belongs without a chain of links
\* to show for it, and the inspection is exact.
WalksAreSound ==
    /\ \A w, v \in Everyone : lorieWindowBelongsTo(w, v) => \E s \in Stations(w) : v \in Lineage(s)
    /\ \A limit \in 1..Cardinality(Everyone) :
         LET r == lorieInspectFamily(Owner, limit)
         IN  /\ Head(r.sent) = Owner /\ IsInjective(r.sent) /\ ToSet(r.sent) \subseteq Members
             /\ r.truncated <=> ToSet(r.sent) # Members
             /\ r.truncated => Len(r.sent) = limit

LEMMA SoundInState == ASSUME FamilyInv PROVE WalksAreSound
<1>1. \A w, v \in Everyone : lorieWindowBelongsTo(w, v) => \E s \in Stations(w) : v \in Lineage(s)
  <2>1. \A w, v \in Everyone : lorieWindowBelongsTo(w, v) => lorieWindowFamilyContains(w, v)
    BY DEF FamilyInv, Settled, lorieWindowBelongsTo
  <2> QED BY <2>1, WalkIsSound DEF FamilyInv
<1>2. Cardinality(Everyone) \in Nat BY HowMany
<1>3. \A limit \in 1..Cardinality(Everyone) : limit \in Nat \ {0} BY <1>2
<1>4. \A limit \in 1..Cardinality(Everyone) :
        LET r == lorieInspectFamily(Owner, limit)
        IN  /\ Head(r.sent) = Owner /\ IsInjective(r.sent) /\ ToSet(r.sent) \subseteq Members
            /\ r.truncated <=> ToSet(r.sent) # Members
            /\ r.truncated => Len(r.sent) = limit
  BY <1>3, ReportIsExact
<1> QED BY <1>1, <1>4, Zenon DEF WalksAreSound

LEMMA ExactInState == ASSUME FamilyInv, WalkBudget PROVE WalksAreExact
<1>1. \A w, v \in Everyone : lorieWindowBelongsTo(w, v) <=> \E s \in Stations(w) : v \in Lineage(s)
  BY KinAreExact DEF FamilyInv
<1>2. WalksAreSound BY SoundInState
<1> QED BY <1>1, <1>2, Zenon DEF WalksAreExact, WalksAreSound, Members

\* With any budget of links lorieWindowFamilyContains() answers yes only where
\* a chain of links shows it, and lorieInspectFamily() reports the owner first,
\* every member once, none besides, and says when it left some out.
THEOREM WalksSound == FamilySpec => []WalksAreSound
<1>1. FamilyInv => WalksAreSound BY SoundInState
<1>2. FamilySpec => []FamilyInv BY FamilyInvariance
<1> QED BY <1>1, <1>2, PTL

\* With links enough to go up the line of every window, the bounded walk of
\* lorieWindowFamilyContains() answers as the unbounded relation would, whatever
\* cycles the clients made.
THEOREM WalksCorrect == WalkBudget => (FamilySpec => []WalksAreExact)
<1> SUFFICES ASSUME WalkBudget PROVE FamilySpec => []WalksAreExact OBVIOUS
<1>1. FamilyInv => WalksAreExact BY ExactInState
<1>2. FamilySpec => []FamilyInv BY FamilyInvariance
<1> QED BY <1>1, <1>2, PTL
=============================================================================
