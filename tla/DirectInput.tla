---------------------------- MODULE DirectInput ----------------------------
(***************************************************************************)
(* Touch contacts and tablet tools of all outputs on the X devices they    *)
(* share (lorie/direct_input.c, with the stylus devices of InitInput.c).   *)
(*                                                                         *)
(* The devices are represented by what they were told: a touch slot counts *)
(* its begins less its ends, a tool its proximity-ins less its outs and    *)
(* its presses less its releases.  Commands with a pressure, tilt, contact *)
(* or button outside its range are dropped and are not actions; positions  *)
(* are not modelled.  WindowOutputs sees of this component which outputs   *)
(* have a contact or a pressed tip.                                        *)
(***************************************************************************)
EXTENDS Integers

CONSTANTS
    Sources,     \* ids of outputs
    NoOutput,    \* zero
    Fingers,     \* contact ids of one output
    Slots        \* 20, in the table and in the device alike

ASSUME DirectAssumption == NoOutput \notin Sources /\ Slots \in Nat \ {0}

VARIABLES
    contacts,    \* the contact table
    tablets,     \* the tablet table
    styli,       \* the stylus devices that exist
    touches,     \* per slot, begins less ends
    tools        \* per tool, proximity and presses less their opposites

directVars == <<contacts, tablets, styli, touches, tools>>

Tools == {"pen", "eraser"}

Other(t) == IF t = "pen" THEN "eraser" ELSE "pen"

XButtons == 1..3

NoContact == [output |-> NoOutput, finger |-> NoOutput]

NoTablet == [output |-> NoOutput, buttons |-> {}]

Idle == [near |-> 0, down |-> [b \in XButtons |-> 0]]

DirectInit ==
    /\ contacts = [s \in 1..Slots |-> NoContact]
    /\ tablets = [t \in Tools |-> NoTablet]
    /\ styli = {}
    /\ touches = [s \in 1..Slots |-> 0]
    /\ tools = [t \in Tools |-> Idle]

-----------------------------------------------------------------------------

\* The slot a new contact gets.
FirstFree(s) == contacts[s].output = NoOutput /\ \A r \in 1..(s - 1) : contacts[r].output # NoOutput

SlotOf(o, f) == {s \in 1..Slots : contacts[s] = [output |-> o, finger |-> f]}

\* mutant: a begin that repeats is believed.
BeginAgain(o, f) ==
    \E s \in 1..Slots :
        /\ FirstFree(s)
        /\ contacts' = [contacts EXCEPT ![s] = [output |-> o, finger |-> f]]
        /\ touches' = [touches EXCEPT ![s] = @ + 1]

\* LORIE_TOUCH_BEGIN takes the first free slot; a repeated begin and one that
\* finds the table full are dropped.
Begin(o, f) ==
    /\ SlotOf(o, f) = {}
    /\ \E s \in 1..Slots :
         /\ FirstFree(s)
         /\ contacts' = [contacts EXCEPT ![s] = [output |-> o, finger |-> f]]
         /\ touches' = [touches EXCEPT ![s] = @ + 1]

\* LORIE_TOUCH_END of a contact that has a slot.  An update only moves it.
End(o, f) ==
    \E s \in SlotOf(o, f) :
        /\ contacts' = [contacts EXCEPT ![s] = NoContact]
        /\ touches' = [touches EXCEPT ![s] = @ - 1]

Touch(o, f) == (Begin(o, f) \/ End(o, f)) /\ UNCHANGED <<tablets, styli, tools>>

\* mutant: the proximity goes and the buttons stay.
ReleasedOutOnly(st, t) ==
    [tablets |-> [st.tablets EXCEPT ![t] = NoTablet],
     tools   |-> IF st.tablets[t].output # NoOutput /\ t \in styli
                 THEN [st.tools EXCEPT ![t].near = @ - 1]
                 ELSE st.tools]

\* tabletRelease() on a state: every button that is down is released and the
\* tool leaves, if its device exists; the table entry is cleared regardless.
tabletRelease(st, t) ==
    [tablets |-> [st.tablets EXCEPT ![t] = NoTablet],
     tools   |-> IF st.tablets[t].output # NoOutput /\ t \in styli
                 THEN [st.tools EXCEPT ![t].near = @ - 1,
                                       ![t].down = [b \in XButtons |->
                                           @[b] - (IF b \in st.tablets[t].buttons THEN 1 ELSE 0)]]
                 ELSE st.tools]

ReleasedIf(st, t, condition) == IF condition THEN tabletRelease(st, t) ELSE st

State == [tablets |-> tablets, tools |-> tools]

\* lorieSetStylusEnabled(TRUE): the pen first, then the eraser; either may fail.
Enabled == {S \in SUBSET Tools : styli \subseteq S /\ ("eraser" \in S => "pen" \in S)}

\* Tip, first and second barrel button are left, right and middle in X11.
XButton(bit) == CASE bit = 0 -> 1 [] bit = 1 -> 3 [] bit = 2 -> 2

\* LORIE_OUTPUT_TABLET in proximity: the other tool and another output's use
\* of this one end first, then the tool enters if it was away and the buttons
\* that differ are pressed or released.
Hover(o, t, bits) ==
    \E S \in Enabled :
        /\ styli' = S
        /\ IF t \notin S THEN UNCHANGED <<tablets, tools>>
           ELSE LET other == Other(t)
                    s1 == ReleasedIf(State, other, tablets[other].output # NoOutput)
                    s2 == ReleasedIf(s1, t, tablets[t].output \notin {o, NoOutput})
                    next == {XButton(b) : b \in bits}
                    entering == s2.tablets[t].output = NoOutput
                IN  /\ tablets' = [s2.tablets EXCEPT ![t] = [output |-> o, buttons |-> next]]
                    /\ tools' = [s2.tools EXCEPT
                           ![t].near = @ + (IF entering THEN 1 ELSE 0),
                           ![t].down = [b \in XButtons |->
                               @[b] + (IF b \in next \ s2.tablets[t].buttons THEN 1 ELSE 0)
                                    - (IF b \in s2.tablets[t].buttons \ next THEN 1 ELSE 0)]]
        /\ UNCHANGED <<contacts, touches>>

\* The same out of proximity.
Withdraw(o, t) ==
    /\ tablets[t].output = o
    /\ tablets' = tabletRelease(State, t).tablets
    /\ tools' = tabletRelease(State, t).tools
    /\ UNCHANGED <<contacts, styli, touches>>

\* lorieDirectInputRelease(): blur, cancellation, rebinding, destruction.
lorieDirectInputRelease(o) ==
    /\ contacts' = [s \in 1..Slots |-> IF contacts[s].output = o THEN NoContact ELSE contacts[s]]
    /\ touches' = [s \in 1..Slots |-> IF contacts[s].output = o THEN touches[s] - 1 ELSE touches[s]]
    /\ LET s1 == ReleasedIf(State, "pen", tablets["pen"].output = o)
           s2 == ReleasedIf(s1, "eraser", tablets["eraser"].output = o)
       IN  tablets' = s2.tablets /\ tools' = s2.tools
    /\ UNCHANGED styli

\* InitInput(), at a server reset: new devices and empty tables.
InitInput ==
    /\ contacts' = [s \in 1..Slots |-> NoContact]
    /\ tablets' = [t \in Tools |-> NoTablet]
    /\ touches' = [s \in 1..Slots |-> 0]
    /\ tools' = [t \in Tools |-> Idle]
    /\ styli' \in IF styli = {} THEN {{}} ELSE {{}, {"pen"}, Tools}

DirectNext ==
    \/ \E o \in Sources :
         \/ \E f \in Fingers : Touch(o, f)
         \/ \E t \in Tools, bits \in SUBSET (0..2) : Hover(o, t, bits)
         \/ \E t \in Tools : Withdraw(o, t)
         \/ lorieDirectInputRelease(o)
    \/ InitInput

DirectSpec == DirectInit /\ [][DirectNext]_directVars

-----------------------------------------------------------------------------

\* direct_input.c:65 "Updates after cancellation cannot resurrect a contact",
\* 86 "Pen/eraser changes and output transfers terminate the previous proximity
\* and buttons": the devices believe exactly what the tables say, so no touch
\* or button stays down without an owner and none is begun or ended twice, a
\* finger has one slot, and one tool at most is near.
DevicesMatchTables ==
    /\ \A s \in 1..Slots : touches[s] = (IF contacts[s].output = NoOutput THEN 0 ELSE 1)
    /\ \A s, r \in 1..Slots :
         contacts[s] = contacts[r] /\ contacts[s] # NoContact => s = r
    /\ \A t \in Tools :
         /\ tools[t].near = (IF tablets[t].output = NoOutput THEN 0 ELSE 1)
         /\ \A b \in XButtons : tools[t].down[b] = (IF b \in tablets[t].buttons THEN 1 ELSE 0)
    /\ \A t, u \in Tools : tablets[t].output # NoOutput /\ tablets[u].output # NoOutput => t = u
=============================================================================
