---------------------------- MODULE WindowModel ----------------------------
(***************************************************************************)
(* The window catalog and the window-state protocol of window_model.c.     *)
(*                                                                         *)
(* The X server keeps a record for every application window it knows.  A   *)
(* refresh walks the window tree, tells the host which records appeared,   *)
(* changed or went, and ends the batch with WINDOWS_DONE.  X clients ask   *)
(* for fullscreen, maximization, activation and attention; each request    *)
(* gets a serial from one session-wide counter, and the host's answer is   *)
(* accepted only while that serial is still the current one.               *)
(*                                                                         *)
(* The X server is one thread: an action is a request handler, a screen    *)
(* hook, a command from the host or a refresh, whole.  The host's commands *)
(* wait in toServer.  What the server publishes reaches the host in order  *)
(* and the host answers from what it has received, so a late publication   *)
(* and a late answer are the same thing to the server: publication is part *)
(* of the refresh, and all delay is in toServer.                           *)
(*                                                                         *)
(* inc and epoch are history: they identify a window behind a reused XID   *)
(* and a request, without the serials whose use is being checked.          *)
(***************************************************************************)
EXTENDS Integers, FiniteSets, Sequences

CONSTANTS
    Windows,          \* XIDs
    None,             \* no window
    ClientOf,         \* the X client an XID belongs to
    Looks,            \* properties a client gives a new window: [atoms, hints]
    Messages,         \* what a _NET_WM_STATE message names: one or two atoms
    Answers,          \* what the host confirms, by aspect: sets of atoms or flags
    SerialModulus,    \* 2^32 in the code
    StartSerial,      \* serials the session has used before
    TimeModulus,      \* 2^32 milliseconds in the code
    StartTime,        \* the server's clock when the session starts
    MaxInputAge,      \* 10000 milliseconds in the code
    \* bounds
    Budgets,          \* the mixes of events explored: how many of each kind may happen
    MaxSerials,       \* serials drawn
    MaxTime           \* milliseconds that pass while an input may be used

Fullscreen == {"FULLSCREEN"}
Axes == {"HORZ", "VERT"}
Interactive == {"HIDDEN", "ATTENTION"}
Atoms == Fullscreen \cup Axes \cup Interactive \cup {"MODAL"}
Flags == {"ACTIVE", "MINIMIZED", "ATTENTION"}
Requestable == Fullscreen \cup Axes \cup {"ATTENTION"}

Kinds == {"windows", "links", "requests", "activations", "edits", "answers", "inputs"}

ASSUME ConstantsAssumption ==
    /\ None \notin Windows
    /\ DOMAIN ClientOf = Windows
    /\ \A look \in Looks : look.atoms \subseteq Atoms /\ look.hints \subseteq {"urgent", "iconic"}
    /\ \A named \in Messages : Cardinality(named) \in 1..2 /\ named \subseteq Requestable
    /\ Answers.fullscreen \subseteq SUBSET Fullscreen
    /\ Answers.maximized \subseteq SUBSET Axes
    /\ Answers.interaction \subseteq SUBSET Flags
    /\ SerialModulus \in Nat /\ MaxSerials \in 1..(SerialModulus - 2)
    /\ StartSerial \in 0..(SerialModulus - 1)
    /\ TimeModulus \in Nat /\ StartTime \in 0..(TimeModulus - 1)
    /\ MaxInputAge \in Nat /\ MaxInputAge < TimeModulus /\ MaxTime \in 0..(TimeModulus - 1)
    /\ None \notin [window : Windows, at : Nat]
    /\ Budgets \subseteq [Kinds -> Nat]

VARIABLES
    window,           \* the X window tree: a function on the XIDs in use
    records,          \* live records, by XID
    dead,             \* records marked destroyed, not yet removed
    dirty, observing, managed,
    stateSerial,
    active,           \* _NET_ACTIVE_WINDOW of the root
    lastInputWindow, lastInputTime,
    clock,            \* milliseconds since the session started
    link,             \* the connection: "up", "closing" (host gone), "down"
    toServer,         \* commands in flight
    catalog,          \* what the host has been told
    \* history
    authority,        \* the input no activation request has used yet
    doubtful,         \* what the host was told before its last observe and not since
    left              \* how many events of each kind are left

serverVars == <<window, records, dead, dirty, observing, managed, stateSerial, active,
                lastInputWindow, lastInputTime>>
vars == <<serverVars, clock, link, toServer, catalog, authority, doubtful, left>>

Aspects == {"fullscreen", "maximized", "interaction"}

Spend(kind) == left[kind] > 0 /\ left' = [left EXCEPT ![kind] = @ - 1]

Serials == 0..(SerialModulus - 1)
State(atoms) == [serial : Serials, epoch : Nat, requested : SUBSET atoms, actual : SUBSET atoms]
Interaction == [serial : Serials, epoch : Nat, action : {"none", "activate", "minimize"},
                attention : BOOLEAN, actual : SUBSET Flags]
Record == [inc : Nat, mapped : BOOLEAN, title : BOOLEAN, changed : BOOLEAN, published : BOOLEAN,
           fullscreen : State(Fullscreen), maximized : State(Axes), interaction : Interaction]
Management == [inc : Nat, mapped : BOOLEAN, title : BOOLEAN, size : BOOLEAN, managed : BOOLEAN,
               fullscreen : State(Fullscreen), maximized : State(Axes), interaction : Interaction]
Window == [inc : Nat, realized : BOOLEAN, application : BOOLEAN, title : BOOLEAN, size : BOOLEAN,
           hints : SUBSET {"urgent", "iconic"}, atoms : SUBSET Atoms]

With(f, x, v) == [y \in DOMAIN f \cup {x} |-> IF y = x THEN v ELSE f[y]]
Without(f, S) == [y \in DOMAIN f \ S |-> f[y]]

-----------------------------------------------------------------------------
(* Serials and records *)

\* Mutant: every record counts its own serials.
SerialPerRecord(s, k) == k

\* nextStateSerial, k times: zero is skipped when the counter wraps.
SerialAfter(s, k) == IF k = 0 THEN s ELSE ((s + k - 1) % (SerialModulus - 1)) + 1

\* Serials allocated since the session started.
Allocated == (stateSerial - StartSerial) % (SerialModulus - 1)

\* The record recordFor makes for a window it meets, after serial s.
FreshRecord(x, s) ==
    LET w == window[x]
        initial(atoms) == IF managed THEN w.atoms \cap atoms ELSE {}
        state(k, atoms) == [serial |-> SerialAfter(s, k), epoch |-> 1,
                            requested |-> initial(atoms), actual |-> {}]
    IN [inc |-> w.inc, mapped |-> FALSE, title |-> FALSE, changed |-> FALSE, published |-> FALSE,
        fullscreen |-> state(1, Fullscreen),
        maximized |-> state(2, Axes),
        interaction |->
            [serial |-> SerialAfter(s, 3), epoch |-> 1,
             action |-> IF managed /\ "iconic" \in w.hints THEN "minimize" ELSE "none",
             attention |-> managed /\ ("urgent" \in w.hints \/ "ATTENTION" \in w.atoms),
             actual |-> {}]]

\* recordFor returns a record: the window is an application, and it is known or realized.
Found(x) ==
    /\ x \in DOMAIN window
    /\ window[x].application
    /\ x \in DOMAIN records \/ window[x].realized

RecordFor(x) == IF x \in DOMAIN records THEN records[x] ELSE FreshRecord(x, stateSerial)

\* The serial counter after recordFor.
SerialFor(x) == IF x \in DOMAIN records THEN stateSerial ELSE SerialAfter(stateSerial, 3)

\* A handler that called recordFor(x), updated the record to r and drew k serials.
Update(x, r, k) ==
    /\ records' = With(records, x, r)
    /\ stateSerial' = SerialAfter(SerialFor(x), k)
    /\ Allocated + k + (IF x \in DOMAIN records THEN 0 ELSE 3) =< MaxSerials

-----------------------------------------------------------------------------
(* X clients *)

\* A client creates a window under a free XID and sets its properties; setting WM_HINTS draws
\* a serial for every dead record of the XID (propertyChanged).
CreateWindow(x) ==
    /\ x \notin DOMAIN window
    /\ Spend("windows")
    /\ \E look \in Looks :
          LET drawn == IF managed /\ look.hints # {} THEN Cardinality({d \in dead : d.id = x}) ELSE 0
          IN /\ window' = With(window, x,
                    [inc |-> left["windows"], realized |-> FALSE, application |-> TRUE,
                     title |-> FALSE, size |-> FALSE, hints |-> look.hints, atoms |-> look.atoms])
             /\ Allocated + drawn =< MaxSerials
             /\ stateSerial' = SerialAfter(stateSerial, drawn)
    /\ dirty' = TRUE
    /\ UNCHANGED <<records, dead, observing, managed, active, lastInputWindow, lastInputTime,
                   clock, link, toServer, catalog, authority, doubtful>>

\* onRealize and onUnrealize
onRealize(x) ==
    /\ x \in DOMAIN window
    /\ \/ ~window[x].realized /\ left' = left
       \/ window[x].realized /\ Spend("edits")
    /\ window' = [window EXCEPT ![x].realized = ~@]
    /\ dirty' = TRUE
    /\ UNCHANGED <<records, dead, observing, managed, stateSerial, active, lastInputWindow,
                   lastInputTime, clock, link, toServer, catalog, authority, doubtful>>

\* onDestroy: the record is only marked, its removal is published by the next refresh.
onDestroy(x) ==
    /\ x \in DOMAIN window
    /\ window' = Without(window, {x})
    /\ dead' = dead \cup {[id |-> x, inc |-> records[y].inc, published |-> records[y].published] :
                             y \in {x} \cap DOMAIN records}
    /\ records' = Without(records, {x})
    /\ dirty' = TRUE
    /\ UNCHANGED <<observing, managed, stateSerial, active, lastInputWindow, lastInputTime,
                   clock, link, toServer, catalog, authority, left, doubtful>>

\* propertyChanged for a property that decides whether the window is an application, or for
\* its title, icon or role: nothing but dirty.
propertyChanged(x) ==
    /\ x \in DOMAIN window
    /\ Spend("edits")
    /\ \/ window' = [window EXCEPT ![x].application = ~@]
       \/ window' = [window EXCEPT ![x].title = ~@]
    /\ dirty' = TRUE
    /\ UNCHANGED <<records, dead, observing, managed, stateSerial, active, lastInputWindow,
                   lastInputTime, clock, link, toServer, catalog, authority, doubtful>>

\* onPosition, and propertyChanged for WM_CLASS and WM_NORMAL_HINTS: what they alter is not
\* compared by the refresh, so the record is marked.
onPosition(x) ==
    /\ x \in DOMAIN window
    /\ Spend("edits")
    /\ window' = [window EXCEPT ![x].size = ~@]
    /\ records' = [y \in DOMAIN records |-> IF y = x THEN [records[y] EXCEPT !.changed = TRUE]
                                                     ELSE records[y]]
    /\ dirty' = TRUE
    /\ UNCHANGED <<dead, observing, managed, stateSerial, active, lastInputWindow,
                   lastInputTime, clock, link, toServer, catalog, authority, doubtful>>

\* The interaction a client asks for, under a new serial.
AskInteraction(state, action, attention, serial) ==
    [state EXCEPT !.action = action, !.attention = attention, !.serial = serial, !.epoch = @ + 1]

\* propertyChanged for WM_HINTS: every record of the XID, dead ones too, gets a new serial.
hintsChanged(x) ==
    LET old == Cardinality({d \in dead : d.id = x})
        live == Cardinality({x} \cap DOMAIN records)
        drawn == IF managed THEN old + live ELSE 0
    IN /\ x \in DOMAIN window
       /\ Spend("requests")
       /\ Allocated + drawn =< MaxSerials
       /\ \E hints \in SUBSET {"urgent", "iconic"} :
             /\ window' = [window EXCEPT ![x].hints = hints]
             /\ records' = [y \in DOMAIN records |->
                   IF y = x /\ managed
                   THEN [records[y] EXCEPT
                            !.interaction = AskInteraction(@, "none", "urgent" \in hints,
                                                           SerialAfter(stateSerial, 1)),
                            !.changed = TRUE]
                   ELSE records[y]]
       /\ stateSerial' = SerialAfter(stateSerial, drawn)
       /\ dirty' = TRUE
       /\ UNCHANGED <<dead, observing, managed, active, lastInputWindow, lastInputTime, clock,
                      link, toServer, catalog, authority, doubtful>>

\* The requested atoms after a remove (0), add (1) or toggle (2) of some of them:
\* lorieFullscreenRequest and lorieMaximizedRequest.  A toggle composes with the latest request.
Requested(old, action, named) ==
    CASE action = 0 -> old \ named
      [] action = 1 -> old \cup named
      [] action = 2 -> (old \ named) \cup (named \ old)
      [] OTHER -> old

Ask(state, action, named, serial) ==
    [state EXCEPT !.requested = Requested(@, action, named), !.serial = serial, !.epoch = @ + 1]

\* sendEvent, _NET_WM_STATE: one message names one or two atoms; fullscreen, attention and
\* maximization each draw a serial of their own, in this order.
stateMessage(x) ==
    /\ managed
    /\ Found(x)
    /\ Spend("requests")
    /\ \E action \in 0..3 : \E named \in Messages :
          LET r == RecordFor(x)
              valid == action =< 2
              count(b) == IF b THEN 1 ELSE 0
              full == valid /\ Fullscreen \subseteq named
              attention == valid /\ "ATTENTION" \in named
              axes == valid /\ named \cap Axes # {}
              first == count(full)
              second == first + count(attention)
              drawn == second + count(axes)
              serial(k) == SerialAfter(SerialFor(x), k)
          IN /\ Update(x,
                    [r EXCEPT
                       !.fullscreen = IF full THEN Ask(@, action, Fullscreen, serial(first)) ELSE @,
                       !.interaction =
                          IF attention
                          THEN AskInteraction(@, "none",
                                   IF action = 2 THEN ~@.attention ELSE action = 1, serial(second))
                          ELSE @,
                       !.maximized =
                          IF axes THEN Ask(@, action, named \cap Axes, serial(drawn)) ELSE @,
                       !.changed = @ \/ drawn > 0],
                    drawn)
             /\ dirty' = (dirty \/ drawn > 0)
    /\ UNCHANGED <<window, dead, observing, managed, active, lastInputWindow, lastInputTime,
                   clock, link, toServer, catalog, authority, doubtful>>

Now == (StartTime + clock) % TimeModulus

\* lorieActivationTimestamp: differences of wrapping timestamps, read as signed numbers.
NotBefore(t, u) == (t - u) % TimeModulus < TimeModulus \div 2

\* Mutant: input of any age will do.
AnyAge(requested, input, now) ==
    requested # 0 /\ input # 0 /\ NotBefore(requested, input) /\ NotBefore(now, requested)

lorieActivationTimestamp(requested, input, now) ==
    /\ requested # 0
    /\ input # 0
    /\ NotBefore(requested, input)
    /\ NotBefore(now, requested)
    /\ (now - input) % TimeModulus =< MaxInputAge

\* sendEvent, _NET_ACTIVE_WINDOW: honoured only after recent input to a window of the same
\* client; either way the input is used up.
activateMessage(x) ==
    /\ managed
    /\ Found(x)
    /\ Spend("activations")
    /\ \E time \in 0..(TimeModulus - 1) :
          LET r == RecordFor(x)
              allowed == /\ lastInputWindow \in DOMAIN window
                         /\ ClientOf[lastInputWindow] = ClientOf[x]
                         /\ lorieActivationTimestamp(time, lastInputTime, Now)
          IN Update(x,
                 [r EXCEPT
                    !.interaction = AskInteraction(@, IF allowed THEN "activate" ELSE "none",
                                        @.attention \/ ~allowed, SerialAfter(SerialFor(x), 1)),
                    !.changed = TRUE],
                 1)
    /\ lastInputTime' = 0
    /\ dirty' = TRUE
    /\ authority' = None
    /\ UNCHANGED <<window, dead, observing, managed, active, lastInputWindow, clock, link,
                   toServer, catalog, doubtful>>

\* sendEvent, WM_CHANGE_STATE to iconic
minimizeMessage(x) ==
    /\ managed
    /\ Found(x)
    /\ Spend("requests")
    /\ LET r == RecordFor(x)
       IN Update(x,
              [r EXCEPT
                 !.interaction = AskInteraction(@, "minimize", @.attention,
                                     SerialAfter(SerialFor(x), 1)),
                 !.changed = TRUE],
              1)
    /\ dirty' = TRUE
    /\ UNCHANGED <<window, dead, observing, managed, active, lastInputWindow, lastInputTime,
                   clock, link, toServer, catalog, authority, doubtful>>

\* managerChanged: another window manager takes WM_S0.
managerChanged ==
    /\ managed
    /\ managed' = FALSE
    /\ records' = [x \in DOMAIN records |-> [records[x] EXCEPT !.changed = TRUE]]
    /\ dirty' = TRUE
    /\ UNCHANGED <<window, dead, observing, stateSerial, active, lastInputWindow, lastInputTime,
                   clock, link, toServer, catalog, authority, left, doubtful>>

-----------------------------------------------------------------------------
(* The refresh *)

\* What publishWindow sends about a window and its record.
Snapshot(x, r) ==
    [inc |-> window[x].inc, mapped |-> window[x].realized, title |-> window[x].title,
     size |-> window[x].size, managed |-> managed,
     fullscreen |-> r.fullscreen, maximized |-> r.maximized, interaction |-> r.interaction]

\* publishWindow sends when the record is new to the host, marked, or differs from the window.
Stale(x, r) ==
    \/ ~r.published
    \/ r.changed
    \/ r.mapped # window[x].realized
    \/ r.title # window[x].title

Published(x, r) == [r EXCEPT !.mapped = window[x].realized, !.title = window[x].title,
                             !.published = TRUE, !.changed = FALSE]

\* Mutant: destroyed windows go after the walk.
DestroyedLast(destroyed, sent, unseen) ==
    [x \in ((DOMAIN catalog \cup DOMAIN sent) \ destroyed) \ unseen |->
        IF x \in DOMAIN sent THEN sent[x] ELSE catalog[x]]

\* What the host holds after a batch: destroyed windows go first, then the walk's snapshots
\* come, then the records the walk did not meet go.
Reconciled(destroyed, sent, unseen) ==
    [x \in ((DOMAIN catalog \ destroyed) \cup DOMAIN sent) \ unseen |->
        IF x \in DOMAIN sent THEN sent[x] ELSE catalog[x]]

lorieWindowModelRefresh ==
    LET seen == {x \in DOMAIN window : Found(x)}
        fresh == seen \ DOMAIN records
        count == Cardinality(fresh)
    IN /\ link # "down"
       /\ observing
       /\ dirty
       /\ Allocated + 3 * count =< MaxSerials
       /\ \E rank \in [fresh -> 0..(count - 1)] :
             LET found == [x \in seen |-> IF x \in fresh
                                          THEN FreshRecord(x, SerialAfter(stateSerial, 3 * rank[x]))
                                          ELSE records[x]]
                 stale == {x \in seen : Stale(x, found[x])}
             IN /\ \A x, y \in fresh : rank[x] = rank[y] => x = y
                /\ records' = [x \in seen |-> IF x \in stale THEN Published(x, found[x])
                                                            ELSE found[x]]
                /\ doubtful' = doubtful \ (stale \cup (DOMAIN records \ seen))
                /\ catalog' = IF link = "closing" THEN catalog
                              ELSE Reconciled({d.id : d \in {e \in dead : e.published}},
                                              [x \in stale |-> Snapshot(x, found[x])],
                                              DOMAIN records \ seen)
       /\ stateSerial' = SerialAfter(stateSerial, 3 * count)
       /\ dead' = {}
       /\ dirty' = FALSE
       /\ UNCHANGED <<window, observing, managed, active, lastInputWindow, lastInputTime, clock,
                      link, toServer, authority, left>>

-----------------------------------------------------------------------------
(* Commands from the host *)

\* lorieWindowModelReset, and lorieWindowModelObserve when observe is TRUE.
Reset(observe) ==
    /\ records' = [x \in DOMAIN records |-> [records[x] EXCEPT !.published = FALSE]]
    /\ dead' = {[d EXCEPT !.published = FALSE] : d \in dead}
    /\ observing' = observe
    /\ dirty' = TRUE

receiveObserve ==
    /\ link # "down"
    /\ toServer # <<>>
    /\ Head(toServer).kind = "observe"
    /\ toServer' = Tail(toServer)
    /\ Reset(TRUE)
    /\ doubtful' = DOMAIN catalog
    /\ UNCHANGED <<window, managed, stateSerial, active, lastInputWindow, lastInputTime, clock,
                   link, catalog, authority, left>>

\* The serial test of the three confirm functions
Current(state, serial) == state.serial = serial

\* Mutant: the confirmed atoms replace the whole property.
StateAtomsReplaced(old, aspect, value) == value

\* The new _NET_WM_STATE: the atoms of the confirmed aspect are replaced, the rest retained.
StateAtoms(old, aspect, value) == (old \ aspect) \cup value

\* lorieWindowFullscreenConfirm and lorieWindowMaximizedConfirm: value is the atoms that hold.
ConfirmState(m, kind, atoms) ==
    LET x == m.id
        r == RecordFor(x)
    IN /\ m.kind = kind
       /\ IF Current(r[kind], m.serial)
          THEN /\ Update(x, [r EXCEPT ![kind] = [@ EXCEPT !.requested = m.value, !.actual = m.value],
                                      !.changed = TRUE], 0)
               /\ window' = [window EXCEPT ![x].atoms = StateAtoms(@, atoms, m.value)]
               /\ dirty' = TRUE
          ELSE /\ Update(x, r, 0)
               /\ UNCHANGED <<window, dirty>>
       /\ UNCHANGED active

\* lorieWindowInteractionConfirm: an active window demands no attention.
ConfirmInteraction(m) ==
    LET x == m.id
        r == RecordFor(x)
        flags == IF "ACTIVE" \in m.value THEN m.value \ {"ATTENTION"} ELSE m.value
        atoms == (IF "MINIMIZED" \in flags THEN {"HIDDEN"} ELSE {})
                    \cup (IF "ATTENTION" \in flags THEN {"ATTENTION"} ELSE {})
    IN /\ m.kind = "interaction"
       /\ IF Current(r.interaction, m.serial)
          THEN /\ Update(x, [r EXCEPT !.interaction = [@ EXCEPT !.actual = flags, !.action = "none",
                                                               !.attention = "ATTENTION" \in flags],
                                      !.changed = TRUE], 0)
               /\ window' = [window EXCEPT ![x].atoms = StateAtoms(@, Interactive, atoms)]
               /\ active' = CASE "ACTIVE" \in flags -> x
                              [] "ACTIVE" \notin flags /\ active = x -> None
                              [] OTHER -> active
               /\ dirty' = TRUE
          ELSE /\ Update(x, r, 0)
               /\ UNCHANGED <<window, active, dirty>>

receiveConfirm ==
    /\ link # "down"
    /\ toServer # <<>>
    /\ Head(toServer).kind \in Aspects
    /\ toServer' = Tail(toServer)
    /\ LET m == Head(toServer)
       IN \/ /\ managed /\ Found(m.id)
             /\ \/ ConfirmState(m, "fullscreen", Fullscreen)
                \/ ConfirmState(m, "maximized", Axes)
                \/ ConfirmInteraction(m)
          \/ /\ ~managed \/ ~Found(m.id)
             /\ UNCHANGED <<window, records, stateSerial, active, dirty>>
    /\ UNCHANGED <<dead, observing, managed, lastInputWindow, lastInputTime, clock, link,
                   catalog, authority, left, doubtful>>

\* lorieWindowUserInput, from the input of an output that shows x
lorieWindowUserInput(x) ==
    /\ managed
    /\ link # "down"
    /\ x \in DOMAIN window
    /\ Spend("inputs")
    /\ lastInputWindow' = x
    /\ lastInputTime' = Now
    /\ authority' = [window |-> x, at |-> clock]
    /\ UNCHANGED <<window, records, dead, dirty, observing, managed, stateSerial, active, clock,
                   link, toServer, catalog, doubtful>>

-----------------------------------------------------------------------------
(* The host and its connection (external) *)

connect ==
    /\ link = "down"
    /\ Spend("links")
    /\ link' = "up"
    /\ UNCHANGED <<serverVars, clock, toServer, catalog, authority, doubtful>>

observe ==
    /\ \/ link = "up" /\ left' = left
       \/ link = "observed" /\ Spend("answers")
    /\ link' = "observed"
    /\ toServer' = Append(toServer, [kind |-> "observe"])
    /\ UNCHANGED <<serverVars, clock, catalog, authority, doubtful>>

\* The host answers a request it knows of, or reports a change of its own under that serial.
answer(x) ==
    /\ link = "observed"
    /\ x \in DOMAIN catalog
    /\ Spend("answers")
    /\ \E kind \in Aspects : \E value \in Answers[kind] :
          toServer' = Append(toServer,
              [kind |-> kind, id |-> x, serial |-> catalog[x][kind].serial, value |-> value,
               inc |-> catalog[x].inc, epoch |-> catalog[x][kind].epoch])
    /\ UNCHANGED <<serverVars, clock, link, catalog, authority, doubtful>>

\* The host closes its end; a later session starts with an empty catalog.
hangUp ==
    /\ link \in {"up", "observed"}
    /\ link' = "closing"
    /\ catalog' = <<>>
    /\ doubtful' = {}
    /\ UNCHANGED <<serverVars, clock, toServer, authority, left>>

\* The server notices, with commands possibly unread: lorieResetOutputs.
disconnect ==
    /\ link = "closing"
    /\ link' = "down"
    /\ toServer' = <<>>
    /\ Reset(FALSE)
    /\ UNCHANGED <<window, managed, stateSerial, active, lastInputWindow, lastInputTime, clock,
                   catalog, authority, left, doubtful>>

\* The clock matters only against an input: until there is one it stands still.
tick ==
    /\ clock < MaxTime
    /\ authority # None
    /\ clock' = clock + 1
    /\ UNCHANGED <<serverVars, link, toServer, catalog, authority, left, doubtful>>

-----------------------------------------------------------------------------

Init ==
    /\ window = <<>>
    /\ records = <<>>
    /\ dead = {}
    /\ dirty = TRUE
    /\ observing = FALSE
    /\ managed \in BOOLEAN
    /\ stateSerial = StartSerial
    /\ active = None
    /\ lastInputWindow = None
    /\ lastInputTime = 0
    /\ clock = 0
    /\ link = "down"
    /\ toServer = <<>>
    /\ catalog = <<>>
    /\ authority = None
    /\ doubtful = {}
    /\ left \in Budgets

Next ==
    \/ \E x \in Windows :
          \/ CreateWindow(x)
          \/ onRealize(x)
          \/ onDestroy(x)
          \/ propertyChanged(x)
          \/ onPosition(x)
          \/ hintsChanged(x)
          \/ stateMessage(x)
          \/ activateMessage(x)
          \/ minimizeMessage(x)
          \/ lorieWindowUserInput(x)
          \/ answer(x)
    \/ managerChanged
    \/ lorieWindowModelRefresh
    \/ receiveObserve
    \/ receiveConfirm
    \/ connect
    \/ observe
    \/ hangUp
    \/ disconnect
    \/ tick

Spec == Init /\ [][Next]_vars

-----------------------------------------------------------------------------
(* Properties *)

\* The declared shape of the server's and the host's state.
TypeOK ==
    /\ DOMAIN window \subseteq Windows
    /\ \A x \in DOMAIN window : window[x] \in Window
    /\ DOMAIN records \subseteq DOMAIN window
    /\ \A x \in DOMAIN records : records[x] \in Record
    /\ dead \in SUBSET [id : Windows, inc : Nat, published : BOOLEAN]
    /\ dirty \in BOOLEAN /\ observing \in BOOLEAN /\ managed \in BOOLEAN
    /\ stateSerial \in Serials
    /\ active \in Windows \cup {None}
    /\ lastInputWindow \in Windows \cup {None}
    /\ lastInputTime \in 0..(TimeModulus - 1)
    /\ clock \in 0..MaxTime
    /\ link \in {"down", "up", "observed", "closing"}
    /\ \A i \in DOMAIN toServer : toServer[i].kind \in Aspects \cup {"observe"}
    /\ DOMAIN catalog \subseteq Windows
    /\ \A x \in DOMAIN catalog : catalog[x] \in Management
    /\ authority \in [window : Windows, at : Nat] \cup {None}
    /\ doubtful \in SUBSET Windows
    /\ left \in [Kinds -> Nat]

\* When nothing is left to publish, the host's catalog is the server's: the same windows, not
\* an earlier owner of an XID, with the current requests, states, titles and sizes, and every
\* application window that is mapped.  Every hook
\* and handler of window_model.c must mark what the next refresh has to send, and the refresh
\* must send removals and snapshots in an order that leaves the reused XIDs right.  The one
\* exception is a window that is destroyed in the same frame as a repeated observe: lines 322
\* and 346 then drop its removal, and the host keeps it.
CatalogIsExact ==
    link = "observed" /\ observing /\ ~dirty =>
        /\ DOMAIN catalog \ doubtful = DOMAIN records
        /\ \A x \in DOMAIN records : catalog[x] = Snapshot(x, records[x])
        /\ \A x \in DOMAIN window : window[x].realized /\ window[x].application => x \in DOMAIN catalog

\* What the client asked for and what the host confirmed change without a new request only when
\* the host's answer to that very request is applied: never for an earlier request, never for
\* an earlier window of the XID, never because a renderer left or came back.
AnswersAreCurrent ==
    [][\A x \in DOMAIN records \cap DOMAIN records' : \A kind \in Aspects :
          LET old == records[x]
              new == records'[x]
              m == Head(toServer)
          IN old.inc = new.inc /\ old[kind].epoch = new[kind].epoch /\ old[kind] # new[kind] =>
                /\ toServer # <<>> /\ toServer' = Tail(toServer)
                /\ m.kind = kind /\ m.id = x
                /\ m.inc = old.inc /\ m.epoch = old[kind].epoch]_vars

\* _NET_WM_STATE shows everything the host has confirmed, whichever of the three confirm
\* functions rewrote the property last.
AtomsShowConfirmedState ==
    \A x \in DOMAIN records :
        LET r == records[x]
            atoms == window[x].atoms
        IN /\ r.fullscreen.actual \subseteq atoms
           /\ r.maximized.actual \subseteq atoms
           /\ "MINIMIZED" \in r.interaction.actual => "HIDDEN" \in atoms
           /\ "ATTENTION" \in r.interaction.actual => "ATTENTION" \in atoms

\* A client is granted activation only on recent input to one of its own windows that no
\* earlier activation request has left, across the wrap of the millisecond clock.
ActivationNeedsInput ==
    [][\A x \in DOMAIN records' :
          /\ records'[x].interaction.action = "activate"
          /\ x \in DOMAIN records => records[x].interaction # records'[x].interaction
          => /\ authority # None
             /\ ClientOf[authority.window] = ClientOf[x]
             /\ clock - authority.at =< MaxInputAge
             /\ authority' = None]_vars
=============================================================================
