--------------------------- MODULE DesktopProofs ---------------------------
(***************************************************************************)
(* Six components of the server's event loop that share no state, each     *)
(* for any value of its constants.                                         *)
(*                                                                         *)
(* Work queue (Init, Next and Spec are its own): what append() gives out   *)
(* is newer than everything before, and an item that a pass holds is not   *)
(* given to a producer (QueueInv).                                         *)
(*                                                                         *)
(* Direct input: the touch and stylus devices believe what the tables of   *)
(* lorie/direct_input.c say.  tabletRelease() tells a device nothing if    *)
(* the device does not exist, so DevicesMatchTables is inductive only      *)
(* together with StyliExist: a tool that is near has its device.           *)
(*                                                                         *)
(* Redraw events: what the host knows is the server's catalog and no more, *)
(* and every hook marks it (NewsInv).                                      *)
(*                                                                         *)
(* Placement: what a client's hints amount to can be satisfied, so one     *)
(* redraw settles (PlacementInv).                                          *)
(*                                                                         *)
(* Frames: an unmarked image watches the pixmap its window draws to, so    *)
(* that drawing which no publication has seen is in a mark (ImagesInv); an *)
(* unmarked output has at the renderer what was last sent (SentInv); and   *)
(* frames are numbered upwards within a binding (NumbersInv), so that a    *)
(* frame that was sent is drawn (PictureInv).                              *)
(*                                                                         *)
(* Resource channel: a descriptor has one owner, because a channel has     *)
(* rights only while it is ready, those of the very segment it asked for   *)
(* (ChannelInv).                                                           *)
(***************************************************************************)
EXTENDS WorkQueue, DirectInput, RedrawEvents, WindowPlacement, OutputFrames, ResourceChannel,
        FiniteSetTheorems, SequenceTheorems, TLAPS

-----------------------------------------------------------------------------
\* Work queue.

\* What append() gives out is newer than everything handed out before.
CounterIsNewest ==
    /\ served <= sequence
    /\ \A m \in DOMAIN stack : stack[m].last <= sequence

\* An item that a pass holds was allocated, so no producer can be given it.
HeldItemsAreAllocated ==
    \A m \in DOMAIN stack : stack[m].item # NoItem => ticket[stack[m].item] # 0

\* The inductive invariant.
QueueInv ==
    /\ TypeOK
    /\ Ordered
    /\ NoOvertaking
    /\ HeldItemsAreUnlinked
    /\ CounterIsNewest
    /\ HeldItemsAreAllocated

-----------------------------------------------------------------------------

\* An interval from 1 determines its end.
LEMMA IntervalEnd ==
    ASSUME NEW a \in Nat, NEW b \in Nat, 1..a = 1..b
    PROVE  a = b
<1>1. a \in 1..a \/ a = 0 OBVIOUS
<1>2. b \in 1..b \/ b = 0 OBVIOUS
<1>3. a <= b BY <1>1
<1>4. b <= a BY <1>2
<1> QED BY <1>3, <1>4

\* Unlinking position k: what the list is afterwards.
LEMMA WithoutFacts ==
    ASSUME TypeOK, NEW k \in 1..Len(queue)
    PROVE  /\ Without(k) \in Seq(Items)
           /\ Len(Without(k)) = Len(queue) - 1
           /\ DOMAIN Without(k) = 1..(Len(queue) - 1)
           /\ \A j \in 1..(Len(queue) - 1) :
                Without(k)[j] = IF j < k THEN queue[j] ELSE queue[j + 1]
<1>1. DOMAIN queue = 1..Len(queue) /\ Len(queue) \in Nat /\ Len(queue) - 1 \in Nat
  BY DEF TypeOK
<1>2. \A j \in 1..Len(queue) : queue[j] \in Items
  BY DEF TypeOK
<1>3. \A j \in 1..(Len(queue) - 1) : j \in 1..Len(queue) /\ j + 1 \in 1..Len(queue)
  BY <1>1
<1>4. Without(k) \in [1..(Len(queue) - 1) -> Items]
  BY <1>2, <1>3 DEF Without
<1>5. /\ DOMAIN Without(k) = 1..(Len(queue) - 1)
      /\ \A j \in 1..(Len(queue) - 1) :
           Without(k)[j] = IF j < k THEN queue[j] ELSE queue[j + 1]
  BY DEF Without
<1>6. Without(k) \in Seq(Items) /\ Len(Without(k)) = Len(queue) - 1
  <2>1. Without(k) \in Seq(Items) BY <1>1, <1>4, SeqDef
  <2>2. DOMAIN Without(k) = 1..Len(Without(k)) /\ Len(Without(k)) \in Nat
    BY <2>1, LenProperties
  <2> QED BY <1>1, <1>5, <2>1, <2>2, IntervalEnd
<1> QED BY <1>5, <1>6

\* The frame operations on the call stack.
LEMMA StackFacts ==
    ASSUME TypeOK
    PROVE  /\ DOMAIN stack = 1..Len(stack) /\ Len(stack) \in Nat
           /\ stack # <<>> => Len(stack) \in DOMAIN stack /\ Top \in Frames
           /\ \A m \in DOMAIN stack : stack[m] \in Frames
BY DEF TypeOK, Top

\* Every step keeps the types.
LEMMA TypeStep == TypeOK /\ [Next]_vars => TypeOK'
<1> SUFFICES ASSUME TypeOK, [Next]_vars PROVE TypeOK'
  OBVIOUS
<1> USE WorkQueueAssumption
<1>1. ASSUME NEW i \in Items, NEW c \in Clients \cup {NoClient}, QueueWorkProc(i, c)
      PROVE TypeOK'
  BY <1>1 DEF TypeOK, QueueWorkProc, append
<1>2. ASSUME NEW kind \in Kinds, NEW c \in Clients \cup {NoClient}, Push(kind, c)
      PROVE stack' \in Seq(Frames)
  <2>1. [kind |-> kind, last |-> lastSequence, item |-> NoItem, closing |-> c,
         due |-> Len(queue), ran |-> 0] \in Frames
    BY DEF TypeOK, Frames, lastSequence
  <2> QED BY <1>2, <2>1 DEF TypeOK, Push
<1>3. CASE ProcessWorkQueue
  BY <1>2, <1>3 DEF TypeOK, ProcessWorkQueue, Kinds
<1>4. CASE ClearWorkQueue
  BY <1>2, <1>4 DEF TypeOK, ClearWorkQueue, Kinds
<1>5. ASSUME NEW c \in Clients, CloseClient(c) PROVE TypeOK'
  BY <1>2, <1>5 DEF TypeOK, CloseClient, Kinds
<1>6. ASSUME stack # <<>>, NEW it \in Items \cup {NoItem}, NEW n \in Nat,
             SetTop([Top EXCEPT !.item = it, !.ran = n])
      PROVE stack' \in Seq(Frames)
  <2>1. [Top EXCEPT !.item = it, !.ran = n] \in Frames
    BY <1>6, StackFacts DEF Frames
  <2> QED BY <1>6, <2>1 DEF TypeOK, SetTop
<1>7. CASE Step
  <2>1. PICK k \in 1..(Len(queue) + 1) : Take(k) \/ EndPass(k)
    BY <1>7 DEF Step
  <2>2. stack # <<>> BY <1>7 DEF Step
  <2>3. CASE Take(k)
    <3>1. k \in 1..Len(queue) /\ queue[k] \in Items
      BY <2>3 DEF Take, Takes, TypeOK
    <3>2. Without(k) \in Seq(Items) BY <3>1, WithoutFacts
    <3>3. stack' \in Seq(Frames)
      <4>1. CASE Top.kind = "clear" BY <2>3, <4>1 DEF Take, TypeOK
      <4>2. CASE Top.kind # "clear"
        <5>1. SetTop([Top EXCEPT !.item = queue[k], !.ran = @ + 1])
          BY <2>3, <4>2 DEF Take
        <5>2. Top.ran + 1 \in Nat BY <2>2, StackFacts DEF Frames
        <5> QED BY <1>6, <2>2, <3>1, <5>1, <5>2
      <4> QED BY <4>1, <4>2
    <3> QED BY <2>3, <3>1, <3>2, <3>3 DEF Take, TypeOK
  <2>4. CASE EndPass(k)
    <3>1. stack' \in Seq(Frames) BY <2>2, <2>4 DEF EndPass, Pop, TypeOK
    <3> QED BY <2>4, <3>1 DEF EndPass, TypeOK
  <2> QED BY <2>1, <2>3, <2>4
<1>8. ASSUME stack # <<>>, SetTop([Top EXCEPT !.item = NoItem])
      PROVE stack' \in Seq(Frames)
  <2>1. [Top EXCEPT !.item = NoItem] \in Frames
    BY <1>8, StackFacts DEF Frames
  <2> QED BY <1>8, <2>1 DEF TypeOK, SetTop
<1>9. CASE CallbackDone
  BY <1>8, <1>9 DEF CallbackDone, TypeOK
<1>10. CASE CallbackRetry
  <2>1. Top.item \in Items BY <1>10, StackFacts DEF CallbackRetry, Frames
  <2> QED BY <1>8, <1>10, <2>1 DEF CallbackRetry, append, TypeOK
<1>11. CASE UNCHANGED vars
  BY <1>11 DEF vars, TypeOK
<1> QED BY <1>1, <1>3, <1>4, <1>5, <1>7, <1>9, <1>10, <1>11 DEF Next

\* workqueue.cpp: every variable keeps its type.
THEOREM TypeCorrect == Spec => []TypeOK
<1>1. Init => TypeOK
  BY WorkQueueAssumption DEF Init, TypeOK
<1> QED BY <1>1, TypeStep, PTL DEF Spec

-----------------------------------------------------------------------------

\* The list and the tickets after append().
AppendEffect(i) ==
    /\ Len(queue) \in Nat /\ Len(queue') = Len(queue) + 1
    /\ DOMAIN queue = 1..Len(queue) /\ DOMAIN queue' = 1..(Len(queue) + 1)
    /\ \A k \in 1..Len(queue) : queue'[k] = queue[k] /\ queue[k] \in Items
    /\ queue'[Len(queue) + 1] = i
    /\ sequence \in Nat /\ sequence' = sequence + 1
    /\ ticket'[i] = sequence + 1
    /\ \A x \in Items : x # i => ticket'[x] = ticket[x]

\* append() has that effect.
LEMMA AppendFacts ==
    ASSUME TypeOK, NEW i \in Items, append(i)
    PROVE  AppendEffect(i)
BY DEF TypeOK, append, AppendEffect

\* The call stack after a pass began.
PushEffect(kind, c) ==
    /\ Len(stack) \in Nat
    /\ DOMAIN stack = 1..Len(stack) /\ DOMAIN stack' = 1..(Len(stack) + 1)
    /\ \A m \in 1..Len(stack) : stack'[m] = stack[m]
    /\ stack'[Len(stack) + 1] =
         [kind |-> kind, last |-> sequence, item |-> NoItem, closing |-> c,
          due |-> Len(queue), ran |-> 0]

\* Push has that effect.
LEMMA PushFacts ==
    ASSUME TypeOK, NEW kind, NEW c, Push(kind, c)
    PROVE  PushEffect(kind, c)
BY DEF TypeOK, Push, lastSequence, PushEffect

\* The call stack after the frame of the innermost pass changed.
SetTopEffect(f) ==
    /\ Len(stack) \in Nat /\ Len(stack) >= 1
    /\ DOMAIN stack = 1..Len(stack) /\ DOMAIN stack' = 1..Len(stack)
    /\ \A m \in 1..Len(stack) : m # Len(stack) => stack'[m] = stack[m]
    /\ stack'[Len(stack)] = f

\* SetTop has that effect.
LEMMA SetTopFacts ==
    ASSUME TypeOK, stack # <<>>, NEW f, SetTop(f)
    PROVE  SetTopEffect(f)
BY DEF TypeOK, SetTop, SetTopEffect

\* The call stack after the innermost pass ended.
PopEffect ==
    /\ Len(stack) \in Nat /\ Len(stack) >= 1
    /\ DOMAIN stack = 1..Len(stack) /\ DOMAIN stack' = 1..(Len(stack) - 1)
    /\ \A m \in 1..(Len(stack) - 1) : stack'[m] = stack[m]

\* Pop has that effect.
LEMMA PopFacts ==
    ASSUME TypeOK, stack # <<>>, Pop
    PROVE  PopEffect
BY DEF TypeOK, Pop, PopEffect

\* The list after take() unlinked position k.
TakeEffect(k) ==
    /\ k \in 1..Len(queue) /\ queue[k] \in Items
    /\ Len(queue) \in Nat /\ Len(queue') = Len(queue) - 1
    /\ DOMAIN queue = 1..Len(queue) /\ DOMAIN queue' = 1..(Len(queue) - 1)
    /\ \A j \in 1..(Len(queue) - 1) :
         queue'[j] = IF j < k THEN queue[j] ELSE queue[j + 1]
    /\ Elements(queue') \subseteq Elements(queue)
    /\ queue[k] \notin Elements(queue')
    /\ UNCHANGED <<ticket, client, sequence, gone>>

\* Take has that effect.
LEMMA TakeFacts ==
    ASSUME TypeOK, Ordered, NEW k \in 1..(Len(queue) + 1), Take(k)
    PROVE  TakeEffect(k)
<1>1. k \in 1..Len(queue) /\ queue[k] \in Items
  BY DEF Take, Takes, TypeOK
<1>2. Len(queue) \in Nat /\ DOMAIN queue = 1..Len(queue)
  BY DEF TypeOK
<1>3. queue' = Without(k) /\ UNCHANGED <<ticket, client, sequence, gone>>
  BY DEF Take
<1>4. /\ Len(queue') = Len(queue) - 1 /\ DOMAIN queue' = 1..(Len(queue) - 1)
      /\ \A j \in 1..(Len(queue) - 1) :
           queue'[j] = IF j < k THEN queue[j] ELSE queue[j + 1]
  BY <1>1, <1>3, WithoutFacts
<1>5. \A j \in 1..(Len(queue) - 1) : \E n \in 1..Len(queue) : n # k /\ queue'[j] = queue[n]
  BY <1>1, <1>2, <1>4
<1>6. Elements(queue') \subseteq Elements(queue)
  BY <1>2, <1>4, <1>5 DEF Elements
<1>7. \A n \in 1..Len(queue) : n # k => queue[n] # queue[k]
  <2> TAKE n \in 1..Len(queue)
  <2>1. n < k \/ k < n \/ n = k BY <1>1, <1>2
  <2>2. ticket[queue[k]] \in Nat BY <1>1 DEF TypeOK
  <2> QED BY <1>1, <1>2, <2>1, <2>2 DEF Ordered
<1>8. queue[k] \notin Elements(queue')
  BY <1>4, <1>5, <1>7 DEF Elements
<1> QED BY <1>1, <1>2, <1>3, <1>4, <1>6, <1>8 DEF TakeEffect

-----------------------------------------------------------------------------

\* append() keeps the list ordered and ahead of what was served.
LEMMA AppendStep ==
    ASSUME TypeOK, Ordered, NoOvertaking, CounterIsNewest,
           NEW i \in Items, i \notin Elements(queue), append(i), served' = served
    PROVE  /\ Ordered' /\ NoOvertaking'
           /\ Elements(queue') = Elements(queue) \cup {i}
           /\ sequence' = sequence + 1
           /\ \A x \in Items : ticket[x] # 0 => ticket'[x] # 0
<1>1. AppendEffect(i) BY AppendFacts
<1>2. \A k \in 1..Len(queue) : queue[k] # i
  BY <1>1 DEF AppendEffect, Elements
<1>3. \A k \in 1..Len(queue) :
        ticket'[queue'[k]] = ticket[queue[k]] /\ ticket[queue[k]] \in 1..sequence
  BY <1>1, <1>2 DEF AppendEffect, Ordered
<1>4. ticket'[queue'[Len(queue) + 1]] = sequence + 1
  BY <1>1 DEF AppendEffect
<1>5. Ordered'
  <2>1. \A k \in DOMAIN queue' : ticket'[queue'[k]] \in 1..sequence'
    <3> SUFFICES ASSUME NEW k \in 1..(Len(queue) + 1)
                 PROVE  ticket'[queue'[k]] \in 1..(sequence + 1)
      BY <1>1 DEF AppendEffect
    <3>1. k \in 1..Len(queue) \/ k = Len(queue) + 1 BY <1>1 DEF AppendEffect
    <3> QED BY <1>1, <1>3, <1>4, <3>1 DEF AppendEffect
  <2>2. \A j, k \in DOMAIN queue' : j < k => ticket'[queue'[j]] < ticket'[queue'[k]]
    <3> SUFFICES ASSUME NEW j \in 1..(Len(queue) + 1), NEW k \in 1..(Len(queue) + 1), j < k
                 PROVE  ticket'[queue'[j]] < ticket'[queue'[k]]
      BY <1>1 DEF AppendEffect
    <3>1. j \in 1..Len(queue) BY <1>1 DEF AppendEffect
    <3>2. CASE k = Len(queue) + 1 BY <1>1, <1>3, <1>4, <3>1, <3>2 DEF AppendEffect
    <3>3. CASE k # Len(queue) + 1
      <4>1. k \in 1..Len(queue) BY <1>1, <3>3 DEF AppendEffect
      <4>2. ticket[queue[j]] < ticket[queue[k]] BY <1>1, <3>1, <4>1 DEF AppendEffect, Ordered
      <4> QED BY <1>3, <3>1, <4>1, <4>2
    <3> QED BY <3>2, <3>3
  <2> QED BY <2>1, <2>2 DEF Ordered
<1>6. NoOvertaking'
  <2> SUFFICES ASSUME NEW k \in 1..(Len(queue) + 1) PROVE ticket'[queue'[k]] > served
    BY <1>1 DEF AppendEffect, NoOvertaking
  <2>1. CASE k = Len(queue) + 1 BY <1>1, <1>4, <2>1 DEF AppendEffect, CounterIsNewest, TypeOK
  <2>2. CASE k # Len(queue) + 1
    <3>1. k \in 1..Len(queue) BY <1>1, <2>2 DEF AppendEffect
    <3> QED BY <1>1, <1>3, <3>1 DEF AppendEffect, NoOvertaking
  <2> QED BY <2>1, <2>2
<1>7. Elements(queue') = Elements(queue) \cup {i}
  <2>1. \A k \in 1..(Len(queue) + 1) : k \in 1..Len(queue) \/ k = Len(queue) + 1
    BY <1>1 DEF AppendEffect
  <2>2. 1..Len(queue) \subseteq 1..(Len(queue) + 1) /\ Len(queue) + 1 \in 1..(Len(queue) + 1)
    BY <1>1 DEF AppendEffect
  <2> QED BY <1>1, <2>1, <2>2 DEF AppendEffect, Elements
<1> QED BY <1>1, <1>5, <1>6, <1>7 DEF AppendEffect

\* A producer appends an item that no pass holds.
LEMMA QueueWorkProcStep ==
    ASSUME QueueInv, NEW i \in Items, NEW c, QueueWorkProc(i, c), TypeOK'
    PROVE  QueueInv'
<1>1. append(i) /\ ticket[i] = 0 /\ stack' = stack /\ served' = served
  BY DEF QueueWorkProc
<1>2. TypeOK /\ Ordered /\ NoOvertaking /\ CounterIsNewest BY DEF QueueInv
<1>3. i \notin Elements(queue) BY <1>1, <1>2 DEF Ordered, Elements
<1>4. /\ Ordered' /\ NoOvertaking'
      /\ Elements(queue') = Elements(queue) \cup {i}
      /\ sequence' = sequence + 1
      /\ \A x \in Items : ticket[x] # 0 => ticket'[x] # 0
  BY <1>1, <1>2, <1>3, AppendStep
<1>5. \A m \in DOMAIN stack : stack[m].item \in Items \cup {NoItem} /\ stack[m].last \in Nat
  BY <1>2, StackFacts DEF Frames
<1>6. HeldItemsAreAllocated'
  BY <1>1, <1>4, <1>5 DEF QueueInv, HeldItemsAreAllocated
<1>7. HeldItemsAreUnlinked'
  <2> SUFFICES ASSUME NEW m \in DOMAIN stack, stack[m].item # NoItem
               PROVE  /\ stack[m].item \notin Elements(queue')
                      /\ \A n \in DOMAIN stack : n # m => stack[n].item # stack[m].item
    BY <1>1 DEF HeldItemsAreUnlinked
  <2>1. stack[m].item # i BY <1>1 DEF QueueInv, HeldItemsAreAllocated
  <2> QED BY <1>4, <2>1 DEF QueueInv, HeldItemsAreUnlinked
<1>8. CounterIsNewest'
  BY <1>1, <1>2, <1>4, <1>5 DEF CounterIsNewest, TypeOK
<1> QED BY <1>4, <1>6, <1>7, <1>8 DEF QueueInv

\* Beginning a pass touches the stack only.
LEMMA PushStep ==
    ASSUME QueueInv, NEW kind, NEW c, Push(kind, c), TypeOK',
           queue' = queue, ticket' = ticket, sequence' = sequence, served' = served
    PROVE  QueueInv'
<1>1. TypeOK BY DEF QueueInv
<1>2. PushEffect(kind, c) BY <1>1, PushFacts
<1>3. Ordered' /\ NoOvertaking' BY DEF QueueInv, Ordered, NoOvertaking
<1>4. stack'[Len(stack) + 1].item = NoItem /\ stack'[Len(stack) + 1].last = sequence
  BY <1>2 DEF PushEffect
<1>5. \A m \in DOMAIN stack' : m \in DOMAIN stack \/ m = Len(stack) + 1
  BY <1>2 DEF PushEffect
<1>6. \A m \in DOMAIN stack : stack'[m] = stack[m]
  BY <1>2 DEF PushEffect
<1>7. HeldItemsAreUnlinked'
  BY <1>4, <1>5, <1>6 DEF QueueInv, HeldItemsAreUnlinked
<1>8. HeldItemsAreAllocated'
  BY <1>4, <1>5, <1>6 DEF QueueInv, HeldItemsAreAllocated
<1>9. CounterIsNewest'
  <2>1. \A m \in DOMAIN stack' : stack'[m].last <= sequence
    <3> TAKE m \in DOMAIN stack'
    <3>1. CASE m \in DOMAIN stack BY <1>6, <3>1 DEF QueueInv, CounterIsNewest
    <3>2. CASE m = Len(stack) + 1 BY <1>1, <1>4, <3>2 DEF TypeOK
    <3> QED BY <1>5, <3>1, <3>2
  <2> QED BY <2>1 DEF QueueInv, CounterIsNewest
<1> QED BY <1>3, <1>7, <1>8, <1>9 DEF QueueInv

\* take() hands one item to the innermost pass; an ordinary pass takes the
\* head, which is the oldest.
LEMMA TakeStep ==
    ASSUME QueueInv, stack # <<>>, NEW k \in 1..(Len(queue) + 1),
           Cursor(Top, k), Take(k), TypeOK'
    PROVE  QueueInv'
<1>1. TypeOK /\ Ordered BY DEF QueueInv
<1>2. TakeEffect(k) BY <1>1, TakeFacts
<1> USE <1>2 DEF TakeEffect
<1>3. Ordered'
  <2> DEFINE old(j) == IF j < k THEN j ELSE j + 1
  <2>1. \A j \in 1..(Len(queue) - 1) : old(j) \in 1..Len(queue) /\ queue'[j] = queue[old(j)]
    OBVIOUS
  <2>2. \A j, n \in 1..(Len(queue) - 1) : j < n => old(j) < old(n)
    OBVIOUS
  <2> HIDE DEF old
  <2>3. \A j \in DOMAIN queue' : ticket'[queue'[j]] = ticket[queue[old(j)]]
    BY <2>1
  <2>4. \A j \in DOMAIN queue' : ticket'[queue'[j]] \in 1..sequence'
    BY <1>1, <2>1, <2>3 DEF Ordered
  <2>5. \A j, n \in DOMAIN queue' : j < n => ticket'[queue'[j]] < ticket'[queue'[n]]
    BY <1>1, <2>1, <2>2, <2>3 DEF Ordered
  <2> QED BY <2>4, <2>5 DEF Ordered
<1>4. ASSUME served' = served PROVE NoOvertaking'
  <2>1. \A n \in DOMAIN queue : ticket[queue[n]] > served BY DEF QueueInv, NoOvertaking
  <2>2. \A j \in DOMAIN queue' : \E n \in DOMAIN queue : queue'[j] = queue[n]
    OBVIOUS
  <2>3. \A j \in DOMAIN queue' : ticket[queue'[j]] > served BY <2>1, <2>2
  <2> QED BY <1>4, <2>3 DEF NoOvertaking
<1>5. CASE Top.kind = "clear"
  <2>1. stack' = stack /\ served' = served BY <1>5 DEF Take
  <2>2. NoOvertaking' BY <1>4, <2>1
  <2>3. HeldItemsAreUnlinked'
    BY <2>1 DEF QueueInv, HeldItemsAreUnlinked
  <2> QED BY <1>3, <2>1, <2>2, <2>3
          DEF QueueInv, HeldItemsAreAllocated, CounterIsNewest
<1>6. CASE Top.kind # "clear"
  <2> DEFINE f == [Top EXCEPT !.item = queue[k], !.ran = @ + 1]
  <2>1. SetTop(f) BY <1>6 DEF Take
  <2>2. Top \in Frames /\ Top = stack[Len(stack)] /\ Len(stack) \in DOMAIN stack
    BY <1>1, StackFacts DEF Top
  <2>3. f.item = queue[k] /\ f.last = Top.last
    BY <2>2 DEF Frames
  <2> HIDE DEF f
  <2>4. SetTopEffect(f) BY <1>1, <2>1, SetTopFacts
  <2>5. /\ DOMAIN stack' = DOMAIN stack /\ stack'[Len(stack)] = f
        /\ \A m \in DOMAIN stack : m # Len(stack) => stack'[m] = stack[m]
    BY <2>4 DEF SetTopEffect
  <2>6. \A m \in DOMAIN stack : stack[m].item # queue[k]
    <3>1. queue[k] \in Elements(queue) /\ queue[k] # NoItem
      BY WorkQueueAssumption DEF Elements
    <3> QED BY <3>1 DEF QueueInv, HeldItemsAreUnlinked
  <2>7. HeldItemsAreUnlinked'
    BY <2>3, <2>5, <2>6 DEF QueueInv, HeldItemsAreUnlinked
  <2>8. ticket[queue[k]] \in 1..sequence BY <1>1 DEF Ordered
  <2>9. HeldItemsAreAllocated'
    BY <2>3, <2>5, <2>8 DEF QueueInv, HeldItemsAreAllocated
  <2>10. NoOvertaking'
    <3>1. CASE Top.kind = "pass"
      <4>1. k = 1
        <5>1. ASSUME k # 1 PROVE FALSE
          <6>1. 1 \in 1..(k - 1) BY <5>1
          <6>2. WalksPast(Top, 1) BY <6>1 DEF Cursor
          <6> QED BY <3>1, <6>2 DEF WalksPast
        <5> QED BY <5>1
      <4>2. served' = ticket[queue[1]] BY <3>1, <4>1 DEF Take
      <4>3. \A j \in 1..(Len(queue) - 1) : queue'[j] = queue[j + 1] /\ 1 < j + 1 /\ j + 1 \in 1..Len(queue)
        BY <4>1
      <4>4. \A j \in 1..(Len(queue) - 1) : ticket[queue[j + 1]] > ticket[queue[1]]
        BY <1>1, <4>1, <4>3 DEF Ordered
      <4> QED BY <4>2, <4>3, <4>4 DEF NoOvertaking
    <3>2. CASE Top.kind # "pass"
      <4>1. served' = served BY <3>2 DEF Take
      <4> QED BY <1>4, <4>1
    <3> QED BY <3>1, <3>2
  <2>11. CounterIsNewest'
    <3>1. served' <= sequence BY <1>1, <2>8 DEF Take, QueueInv, CounterIsNewest, TypeOK
    <3> QED BY <2>2, <2>3, <2>5, <3>1 DEF QueueInv, CounterIsNewest
  <2> QED BY <1>3, <2>7, <2>9, <2>10, <2>11 DEF QueueInv
<1> QED BY <1>5, <1>6

\* A pass that ends, or whose callback is done, lets go of what it held.
LEMMA EndPassStep ==
    ASSUME QueueInv, stack # <<>>, Pop, TypeOK',
           queue' = queue, ticket' = ticket, sequence' = sequence, served' = served
    PROVE  QueueInv'
<1>1. TypeOK BY DEF QueueInv
<1>2. PopEffect BY <1>1, PopFacts
<1>3. /\ DOMAIN stack' \subseteq DOMAIN stack
      /\ \A m \in DOMAIN stack' : stack'[m] = stack[m]
  BY <1>2 DEF PopEffect
<1> QED BY <1>3 DEF QueueInv, Ordered, NoOvertaking, HeldItemsAreUnlinked,
                    HeldItemsAreAllocated, CounterIsNewest

\* A callback that is done frees an item nothing else refers to.
LEMMA CallbackDoneStep ==
    ASSUME QueueInv, CallbackDone, TypeOK'
    PROVE  QueueInv'
<1> DEFINE f == [Top EXCEPT !.item = NoItem]
<1>1. TypeOK /\ stack # <<>> /\ SetTop(f)
  BY DEF QueueInv, CallbackDone
<1>2. Top \in Frames /\ Top = stack[Len(stack)] /\ Len(stack) \in DOMAIN stack
  BY <1>1, StackFacts DEF Top
<1>3. f.item = NoItem /\ f.last = stack[Len(stack)].last
  BY <1>2 DEF Frames
<1> HIDE DEF f
<1>4. SetTopEffect(f) BY <1>1, SetTopFacts
<1>5. /\ DOMAIN stack' = DOMAIN stack /\ stack'[Len(stack)] = f
      /\ \A m \in DOMAIN stack : m # Len(stack) => stack'[m] = stack[m]
  BY <1>4 DEF SetTopEffect
<1>6. UNCHANGED <<queue, ticket, sequence, served>> BY DEF CallbackDone
<1>7. HeldItemsAreUnlinked'
  BY <1>3, <1>5, <1>6 DEF QueueInv, HeldItemsAreUnlinked
<1> QED BY <1>2, <1>3, <1>5, <1>6, <1>7
        DEF QueueInv, Ordered, NoOvertaking, HeldItemsAreAllocated, CounterIsNewest

\* A retried item leaves its pass as it enters the list.
LEMMA CallbackRetryStep ==
    ASSUME QueueInv, CallbackRetry, TypeOK'
    PROVE  QueueInv'
<1> DEFINE f == [Top EXCEPT !.item = NoItem]
           i == Top.item
<1>1. TypeOK /\ stack # <<>> /\ SetTop(f) /\ append(i) /\ served' = served /\ i # NoItem
  BY DEF QueueInv, CallbackRetry
<1>2. Top \in Frames /\ Top = stack[Len(stack)] /\ Len(stack) \in DOMAIN stack
  BY <1>1, StackFacts DEF Top
<1>3. f.item = NoItem /\ f.last = stack[Len(stack)].last /\ i \in Items
      /\ i = stack[Len(stack)].item
  BY <1>1, <1>2 DEF Frames
<1> HIDE DEF f, i
<1>4. SetTopEffect(f) BY <1>1, SetTopFacts
<1>5. /\ DOMAIN stack' = DOMAIN stack /\ stack'[Len(stack)] = f
      /\ \A m \in DOMAIN stack : m # Len(stack) => stack'[m] = stack[m]
  BY <1>4 DEF SetTopEffect
<1>6. i \notin Elements(queue)
  BY <1>1, <1>2, <1>3 DEF QueueInv, HeldItemsAreUnlinked
<1>7. /\ Ordered' /\ NoOvertaking'
      /\ Elements(queue') = Elements(queue) \cup {i}
      /\ sequence' = sequence + 1
      /\ \A x \in Items : ticket[x] # 0 => ticket'[x] # 0
  BY <1>1, <1>3, <1>6, AppendStep DEF QueueInv
<1>8. \A m \in DOMAIN stack : stack[m].item \in Items \cup {NoItem} /\ stack[m].last \in Nat
  BY <1>1, StackFacts DEF Frames
<1>9. HeldItemsAreAllocated'
  BY <1>3, <1>5, <1>7, <1>8 DEF QueueInv, HeldItemsAreAllocated
<1>10. HeldItemsAreUnlinked'
  <2> SUFFICES ASSUME NEW m \in DOMAIN stack, stack'[m].item # NoItem
               PROVE  /\ stack'[m].item \notin Elements(queue')
                      /\ \A n \in DOMAIN stack : n # m => stack'[n].item # stack'[m].item
    BY <1>5 DEF HeldItemsAreUnlinked
  <2>1. m # Len(stack) /\ stack'[m] = stack[m] BY <1>3, <1>5
  <2>2. stack[m].item # i BY <1>1, <1>2, <1>3, <2>1 DEF QueueInv, HeldItemsAreUnlinked
  <2> QED BY <1>3, <1>5, <1>7, <2>1, <2>2 DEF QueueInv, HeldItemsAreUnlinked
<1>11. CounterIsNewest'
  <2>1. \A m \in DOMAIN stack : stack'[m].last = stack[m].last BY <1>3, <1>5
  <2>2. sequence \in Nat /\ served \in Nat BY <1>1 DEF TypeOK
  <2>3. \A m \in DOMAIN stack : stack[m].last <= sequence
    BY DEF QueueInv, CounterIsNewest
  <2>4. \A m \in DOMAIN stack' : stack'[m].last <= sequence'
    BY <1>5, <1>7, <1>8, <2>1, <2>2, <2>3
  <2>5. served' <= sequence' BY <1>1, <1>7, <2>2 DEF QueueInv, CounterIsNewest
  <2> QED BY <2>4, <2>5 DEF CounterIsNewest
<1> QED BY <1>7, <1>9, <1>10, <1>11 DEF QueueInv

\* The invariant holds at the start.
LEMMA QueueInit == Init => QueueInv
<1> SUFFICES ASSUME Init PROVE QueueInv
  OBVIOUS
<1>1. TypeOK BY WorkQueueAssumption DEF Init, TypeOK
<1> QED BY <1>1 DEF Init, QueueInv, Ordered, NoOvertaking, HeldItemsAreUnlinked,
                    HeldItemsAreAllocated, CounterIsNewest

\* Every step keeps it.
LEMMA QueueStep == QueueInv /\ [Next]_vars => QueueInv'
<1> SUFFICES ASSUME QueueInv, [Next]_vars PROVE QueueInv'
  OBVIOUS
<1>1. TypeOK' BY TypeStep DEF QueueInv
<1>2. ASSUME NEW i \in Items, NEW c \in Clients \cup {NoClient}, QueueWorkProc(i, c)
      PROVE  QueueInv'
  BY <1>1, <1>2, QueueWorkProcStep
<1>3. CASE ProcessWorkQueue BY <1>1, <1>3, PushStep DEF ProcessWorkQueue
<1>4. CASE ClearWorkQueue BY <1>1, <1>4, PushStep DEF ClearWorkQueue
<1>5. ASSUME NEW c \in Clients, CloseClient(c) PROVE QueueInv'
  BY <1>1, <1>5, PushStep DEF CloseClient
<1>6. CASE Step
  <2>1. PICK k \in 1..(Len(queue) + 1) : Cursor(Top, k) /\ (Take(k) \/ EndPass(k))
    BY <1>6 DEF Step
  <2>2. stack # <<>> BY <1>6 DEF Step
  <2>3. CASE Take(k) BY <1>1, <2>1, <2>2, <2>3, TakeStep
  <2>4. CASE EndPass(k) BY <1>1, <2>2, <2>4, EndPassStep DEF EndPass
  <2> QED BY <2>1, <2>3, <2>4
<1>7. CASE CallbackDone BY <1>1, <1>7, CallbackDoneStep
<1>8. CASE CallbackRetry BY <1>1, <1>8, CallbackRetryStep
<1>9. CASE UNCHANGED vars
  <2>1. /\ queue' = queue /\ ticket' = ticket /\ sequence' = sequence
        /\ stack' = stack /\ served' = served
    BY <1>9 DEF vars
  <2>2. Ordered' /\ NoOvertaking' BY <2>1 DEF QueueInv, Ordered, NoOvertaking
  <2>3. HeldItemsAreUnlinked' BY <2>1 DEF QueueInv, HeldItemsAreUnlinked
  <2>4. HeldItemsAreAllocated' /\ CounterIsNewest'
    BY <2>1 DEF QueueInv, HeldItemsAreAllocated, CounterIsNewest
  <2> QED BY <1>1, <2>2, <2>3, <2>4 DEF QueueInv
<1> QED BY <1>2, <1>3, <1>4, <1>5, <1>6, <1>7, <1>8, <1>9 DEF Next

\* workqueue.cpp: the list stays in sequence order, no ordinary pass overtakes
\* an older item, and no item that a pass holds can be reached elsewhere.
THEOREM QueueCorrect == Spec => []QueueIsSound
<1>1. QueueInv => QueueIsSound BY DEF QueueInv, QueueIsSound
<1> QED BY QueueInit, QueueStep, <1>1, PTL DEF Spec

-----------------------------------------------------------------------------

\* The snapshot of a client's zombie pass covers everything queued for the
\* client, because the client is marked before the snapshot is taken.
ZombiesCover(m, k) ==
    /\ stack[m].kind = "zombies"
    /\ stack[m].closing = client[queue[k]]
    /\ ticket[queue[k]] <= stack[m].last

Covered == \A k \in DOMAIN queue : client[queue[k]] \in gone => \E m \in DOMAIN stack : ZombiesCover(m, k)

\* A pass that ends leaves nothing of its own snapshot for a closed client: the
\* walk stops at the first item that is newer, and all behind it are.
LEMMA EndPassCovers ==
    ASSUME QueueInv, stack # <<>>, NEW k \in 1..(Len(queue) + 1), Cursor(Top, k), EndPass(k),
           NEW j \in DOMAIN queue, client[queue[j]] \in gone
    PROVE  ~ZombiesCover(Len(stack), j)
<1> SUFFICES ASSUME ZombiesCover(Len(stack), j) PROVE FALSE
  OBVIOUS
<1>1. TypeOK /\ Ordered BY DEF QueueInv
<1>2. Top.last \in Nat /\ Top = stack[Len(stack)] BY <1>1, StackFacts DEF Frames, Top
<1>3. DOMAIN queue = 1..Len(queue) /\ Len(queue) \in Nat BY <1>1 DEF TypeOK
<1>4. ticket[queue[j]] <= Top.last BY <1>2 DEF ZombiesCover
<1>5. CASE j < k
  <2>1. j \in 1..(k - 1) BY <1>3, <1>5
  <2>2. WalksPast(Top, j) BY <2>1 DEF Cursor
  <2> QED BY <2>2 DEF WalksPast
<1>6. CASE k <= j
  <2>1. k \in DOMAIN queue BY <1>3, <1>6
  <2>2. ticket[queue[k]] \in Nat /\ ticket[queue[j]] \in Nat BY <1>1, <2>1 DEF TypeOK
  <2>3. k = j \/ ticket[queue[k]] < ticket[queue[j]] BY <1>1, <1>3, <1>6, <2>1 DEF Ordered
  <2>4. ticket[queue[k]] <= Top.last BY <1>2, <1>4, <2>2, <2>3
  <2> QED BY <1>3, <2>1, <2>4 DEF EndPass, Takes
<1> QED BY <1>3, <1>5, <1>6

\* Appending an item of a client that is not closed.
LEMMA AppendCovers ==
    ASSUME QueueInv, Covered, NEW i \in Items, i \notin Elements(queue), append(i), gone' = gone,
           client'[i] \notin gone, \A x \in Items : x # i => client'[x] = client[x],
           DOMAIN stack' = DOMAIN stack,
           \A m \in DOMAIN stack : /\ stack'[m].kind = stack[m].kind
                                   /\ stack'[m].closing = stack[m].closing
                                   /\ stack'[m].last = stack[m].last
    PROVE  Covered'
<1>1. AppendEffect(i) BY AppendFacts DEF QueueInv
<1> SUFFICES ASSUME NEW k \in DOMAIN queue', client'[queue'[k]] \in gone
             PROVE  \E m \in DOMAIN stack' : ZombiesCover(m, k)'
  BY DEF Covered
<1>2. k \in 1..Len(queue)
  BY <1>1 DEF AppendEffect
<1>3. k \in DOMAIN queue /\ queue'[k] = queue[k] /\ queue[k] # i /\ queue[k] \in Items
  BY <1>1, <1>2 DEF AppendEffect, Elements
<1>4. client'[queue'[k]] = client[queue[k]] /\ ticket'[queue'[k]] = ticket[queue[k]]
  BY <1>1, <1>3 DEF AppendEffect
<1>5. PICK m \in DOMAIN stack : ZombiesCover(m, k) BY <1>3, <1>4 DEF Covered
<1> QED BY <1>4, <1>5 DEF ZombiesCover

\* Every step keeps it.
LEMMA CoveredStep == QueueInv /\ Covered /\ [Next]_vars => Covered'
<1> SUFFICES ASSUME QueueInv, Covered, [Next]_vars PROVE Covered'
  OBVIOUS
<1>1. TypeOK /\ Ordered /\ CounterIsNewest BY DEF QueueInv
<1>2. ASSUME NEW i \in Items, NEW c \in Clients \cup {NoClient}, QueueWorkProc(i, c)
      PROVE  Covered'
  <2>1. i \notin Elements(queue) BY <1>1, <1>2 DEF Ordered, Elements, QueueWorkProc
  <2>2. client'[i] = c /\ \A x \in Items : x # i => client'[x] = client[x]
    BY <1>1, <1>2 DEF QueueWorkProc, TypeOK
  <2> QED BY <1>2, <2>1, <2>2, AppendCovers DEF QueueWorkProc
<1>3. ASSUME NEW kind, NEW c, Push(kind, c), gone' = gone,
             UNCHANGED <<queue, ticket, client, sequence, served>>
      PROVE  Covered'
  <2>1. PushEffect(kind, c) BY <1>1, <1>3, PushFacts
  <2>2. DOMAIN stack \subseteq DOMAIN stack' /\ \A m \in DOMAIN stack : stack'[m] = stack[m]
    BY <2>1 DEF PushEffect
  <2> QED BY <1>3, <2>2 DEF Covered, ZombiesCover
<1>4. ASSUME NEW c \in Clients, CloseClient(c) PROVE Covered'
  <2>1. /\ Push("zombies", c) /\ gone' = gone \cup {c}
        /\ UNCHANGED <<queue, ticket, client, sequence, served>>
    BY <1>4 DEF CloseClient
  <2>2. PushEffect("zombies", c) BY <1>1, <2>1, PushFacts
  <2>3. DOMAIN stack \subseteq DOMAIN stack' /\ \A m \in DOMAIN stack : stack'[m] = stack[m]
    BY <2>2 DEF PushEffect
  <2>4. /\ Len(stack) + 1 \in DOMAIN stack'
        /\ stack'[Len(stack) + 1].kind = "zombies" /\ stack'[Len(stack) + 1].closing = c
        /\ stack'[Len(stack) + 1].last = sequence
    BY <2>2 DEF PushEffect
  <2> SUFFICES ASSUME NEW k \in DOMAIN queue, client[queue[k]] \in gone \cup {c}
               PROVE  \E m \in DOMAIN stack' : ZombiesCover(m, k)'
    BY <2>1 DEF Covered
  <2>5. CASE client[queue[k]] \in gone
    BY <2>1, <2>3, <2>5 DEF Covered, ZombiesCover
  <2>6. CASE client[queue[k]] = c
    <3>1. ticket[queue[k]] <= sequence BY <1>1 DEF Ordered, TypeOK
    <3> QED BY <2>1, <2>4, <2>6, <3>1 DEF ZombiesCover
  <2> QED BY <2>5, <2>6
<1>5. ASSUME stack # <<>>, NEW k \in 1..(Len(queue) + 1), Cursor(Top, k), Take(k) PROVE Covered'
  <2>1. TakeEffect(k) BY <1>1, <1>5, TakeFacts
  <2>2. \A j \in DOMAIN queue' : \E n \in DOMAIN queue : queue'[j] = queue[n]
    BY <2>1 DEF TakeEffect
  <2>3. /\ DOMAIN stack' = DOMAIN stack
        /\ \A m \in DOMAIN stack : /\ stack'[m].kind = stack[m].kind
                                   /\ stack'[m].closing = stack[m].closing
                                   /\ stack'[m].last = stack[m].last
    <3>1. CASE Top.kind = "clear" BY <1>5, <3>1 DEF Take
    <3>2. CASE Top.kind # "clear"
      <4> DEFINE f == [Top EXCEPT !.item = queue[k], !.ran = @ + 1]
      <4>1. SetTop(f) BY <1>5, <3>2 DEF Take
      <4>2. Top \in Frames /\ Top = stack[Len(stack)] BY <1>1, <1>5, StackFacts DEF Top
      <4>3. f.kind = Top.kind /\ f.closing = Top.closing /\ f.last = Top.last
        BY <4>2 DEF Frames
      <4> HIDE DEF f
      <4>4. SetTopEffect(f) BY <1>1, <1>5, <4>1, SetTopFacts
      <4> QED BY <4>2, <4>3, <4>4 DEF SetTopEffect
    <3> QED BY <3>1, <3>2
  <2> SUFFICES ASSUME NEW j \in DOMAIN queue', client'[queue'[j]] \in gone'
               PROVE  \E m \in DOMAIN stack' : ZombiesCover(m, j)'
    BY DEF Covered
  <2>4. PICK n \in DOMAIN queue : queue'[j] = queue[n] BY <2>2
  <2>5. client' = client /\ ticket' = ticket /\ gone' = gone BY <2>1 DEF TakeEffect
  <2>6. PICK m \in DOMAIN stack : ZombiesCover(m, n) BY <2>4, <2>5 DEF Covered
  <2> QED BY <2>3, <2>4, <2>5, <2>6 DEF ZombiesCover
<1>6. ASSUME stack # <<>>, NEW k \in 1..(Len(queue) + 1), Cursor(Top, k), EndPass(k) PROVE Covered'
  <2>1. PopEffect BY <1>1, <1>6, PopFacts DEF EndPass
  <2>2. UNCHANGED <<queue, ticket, client, gone>> BY <1>6 DEF EndPass
  <2> SUFFICES ASSUME NEW j \in DOMAIN queue, client[queue[j]] \in gone
               PROVE  \E m \in DOMAIN stack' : ZombiesCover(m, j)'
    BY <2>2 DEF Covered
  <2>3. PICK m \in DOMAIN stack : ZombiesCover(m, j) BY DEF Covered
  <2>4. m # Len(stack) BY <1>6, <2>3, EndPassCovers
  <2>5. m \in DOMAIN stack' /\ stack'[m] = stack[m] BY <2>1, <2>4 DEF PopEffect
  <2> QED BY <2>2, <2>3, <2>5 DEF ZombiesCover
<1>7. ASSUME stack # <<>>, SetTop([Top EXCEPT !.item = NoItem])
      PROVE  /\ DOMAIN stack' = DOMAIN stack
             /\ \A m \in DOMAIN stack : /\ stack'[m].kind = stack[m].kind
                                        /\ stack'[m].closing = stack[m].closing
                                        /\ stack'[m].last = stack[m].last
  <2> DEFINE f == [Top EXCEPT !.item = NoItem]
  <2>1. Top \in Frames /\ Top = stack[Len(stack)] BY <1>1, <1>7, StackFacts DEF Top
  <2>2. f.kind = Top.kind /\ f.closing = Top.closing /\ f.last = Top.last
    BY <2>1 DEF Frames
  <2> HIDE DEF f
  <2>3. SetTopEffect(f) BY <1>1, <1>7, SetTopFacts DEF f
  <2> QED BY <2>1, <2>2, <2>3 DEF SetTopEffect
<1>8. CASE CallbackDone
  BY <1>7, <1>8 DEF CallbackDone, Covered, ZombiesCover
<1>9. CASE CallbackRetry
  <2> DEFINE i == Top.item
  <2>1. Top \in Frames /\ Top = stack[Len(stack)] /\ Len(stack) \in DOMAIN stack
    BY <1>1, <1>9, StackFacts DEF CallbackRetry, Top
  <2>2. i \in Items /\ append(i) /\ client[i] \notin gone /\ client' = client /\ gone' = gone
    BY <1>9, <2>1 DEF CallbackRetry, Frames
  <2>3. i \notin Elements(queue)
    BY <1>9, <2>1 DEF CallbackRetry, QueueInv, HeldItemsAreUnlinked
  <2> HIDE DEF i
  <2> QED BY <1>7, <1>9, <2>2, <2>3, AppendCovers DEF CallbackRetry
<1>10. CASE UNCHANGED vars
  BY <1>10 DEF vars, Covered, ZombiesCover
<1>11. CASE Step BY <1>5, <1>6, <1>11 DEF Step
<1>12. CASE ProcessWorkQueue BY <1>3, <1>12 DEF ProcessWorkQueue
<1>13. CASE ClearWorkQueue BY <1>3, <1>13 DEF ClearWorkQueue
<1> QED BY <1>2, <1>4, <1>8, <1>9, <1>10, <1>11, <1>12, <1>13 DEF Next

\* workqueue.cpp:85-91: when the zombie pass of a client has ended, wherever it
\* was nested, no queued item refers to the client.
THEOREM ClientsAreReleased == Spec => []NoDanglingClient
<1>1. Init => Covered BY DEF Init, Covered
<1>2. Covered => NoDanglingClient BY DEF Covered, ZombiesCover, NoDanglingClient
<1> QED BY QueueInit, QueueStep, CoveredStep, <1>1, <1>2, PTL DEF Spec

-----------------------------------------------------------------------------

\* The place of an item in the list, added to what a pass that may still take
\* it has called, does not exceed what was queued when the pass began.
Budgeted ==
    \A m \in DOMAIN stack :
        /\ stack[m].ran <= stack[m].due
        /\ \A k \in DOMAIN queue :
             ticket[queue[k]] <= stack[m].last => stack[m].ran + k <= stack[m].due

\* What append() adds is newer than every snapshot, and nothing moves.
LEMMA AppendBudgeted ==
    ASSUME QueueInv, Budgeted, NEW i \in Items, i \notin Elements(queue), append(i),
           DOMAIN stack' = DOMAIN stack,
           \A m \in DOMAIN stack : /\ stack'[m].ran = stack[m].ran
                                   /\ stack'[m].due = stack[m].due
                                   /\ stack'[m].last = stack[m].last
    PROVE  Budgeted'
<1>1. TypeOK /\ AppendEffect(i) BY AppendFacts DEF QueueInv
<1> SUFFICES ASSUME NEW m \in DOMAIN stack,
                    NEW k \in DOMAIN queue', ticket'[queue'[k]] <= stack[m].last
             PROVE  stack[m].ran + k <= stack[m].due
  BY DEF Budgeted
<1>2. stack[m].last \in Nat /\ stack[m].last <= sequence
  BY <1>1, StackFacts DEF QueueInv, CounterIsNewest, Frames
<1>3. k # Len(queue) + 1 BY <1>1, <1>2 DEF AppendEffect
<1>4. k \in DOMAIN queue /\ queue'[k] = queue[k] /\ queue[k] # i /\ queue[k] \in Items
  BY <1>1, <1>3 DEF AppendEffect, Elements
<1>5. ticket'[queue'[k]] = ticket[queue[k]] BY <1>1, <1>4 DEF AppendEffect
<1> QED BY <1>4, <1>5 DEF Budgeted

\* A pass begins with the whole list due.
LEMMA PushBudgeted ==
    ASSUME QueueInv, Budgeted, NEW kind, NEW c, Push(kind, c), UNCHANGED <<queue, ticket>>
    PROVE  Budgeted'
<1>1. TypeOK BY DEF QueueInv
<1>2. PushEffect(kind, c) BY <1>1, PushFacts
<1>3. DOMAIN queue = 1..Len(queue) /\ Len(queue) \in Nat BY <1>1 DEF TypeOK
<1> SUFFICES ASSUME NEW m \in DOMAIN stack'
             PROVE  /\ stack'[m].ran <= stack'[m].due
                    /\ \A k \in DOMAIN queue :
                         ticket[queue[k]] <= stack'[m].last => stack'[m].ran + k <= stack'[m].due
  BY DEF Budgeted
<1>4. CASE m \in DOMAIN stack BY <1>2, <1>4 DEF PushEffect, Budgeted
<1>5. CASE m = Len(stack) + 1
  <2>1. stack'[m].ran = 0 /\ stack'[m].due = Len(queue) BY <1>2, <1>5 DEF PushEffect
  <2> QED BY <1>3, <2>1
<1> QED BY <1>2, <1>4, <1>5 DEF PushEffect

\* take() spends one of the pass that takes, and brings every later item one
\* place nearer for all passes.
LEMMA TakeBudgeted ==
    ASSUME QueueInv, Budgeted, stack # <<>>, NEW k \in 1..(Len(queue) + 1), Take(k)
    PROVE  Budgeted'
<1>1. TypeOK /\ Ordered BY DEF QueueInv
<1>2. TakeEffect(k) BY <1>1, TakeFacts
<1>3. \A m \in DOMAIN stack : stack[m].ran \in Nat /\ stack[m].due \in Nat /\ stack[m].last \in Nat
  BY <1>1, StackFacts DEF Frames
<1>4. ASSUME NEW m \in DOMAIN stack, NEW j \in DOMAIN queue', ticket'[queue'[j]] <= stack[m].last
      PROVE  /\ stack[m].ran + j <= stack[m].due
             /\ j >= k => stack[m].ran + 1 + j <= stack[m].due
  <2>1. CASE j < k
    <3>1. j \in DOMAIN queue /\ queue'[j] = queue[j] BY <1>2, <2>1 DEF TakeEffect
    <3>2. ticket[queue[j]] <= stack[m].last BY <1>2, <1>4, <3>1 DEF TakeEffect
    <3>3. stack[m].ran + j <= stack[m].due BY <3>1, <3>2 DEF Budgeted
    <3> QED BY <1>2, <2>1, <3>1, <3>3 DEF TakeEffect
  <2>2. CASE j >= k
    <3>1. j \in Nat /\ j + 1 \in DOMAIN queue /\ queue'[j] = queue[j + 1]
      BY <1>2, <2>2 DEF TakeEffect
    <3>2. ticket[queue[j + 1]] <= stack[m].last BY <1>2, <1>4, <3>1 DEF TakeEffect
    <3>3. stack[m].ran + (j + 1) <= stack[m].due BY <3>1, <3>2 DEF Budgeted
    <3> QED BY <1>3, <3>1, <3>3
  <2> QED BY <1>2, <2>1, <2>2 DEF TakeEffect
<1>5. CASE Top.kind = "clear"
  <2>1. stack' = stack BY <1>5 DEF Take
  <2> QED BY <1>4, <2>1 DEF Budgeted
<1>6. CASE Top.kind # "clear"
  <2> DEFINE f == [Top EXCEPT !.item = queue[k], !.ran = @ + 1]
             n == Len(stack)
  <2>1. SetTop(f) BY <1>6 DEF Take
  <2>2. Top \in Frames /\ Top = stack[n] /\ n \in DOMAIN stack BY <1>1, StackFacts DEF Top
  <2>3. f.ran = stack[n].ran + 1 /\ f.due = stack[n].due /\ f.last = stack[n].last
    BY <2>2 DEF Frames
  <2> HIDE DEF f
  <2>4. SetTopEffect(f) BY <1>1, <2>1, SetTopFacts
  <2>5. /\ DOMAIN stack' = DOMAIN stack /\ stack'[n] = f
        /\ \A m \in DOMAIN stack : m # n => stack'[m] = stack[m]
    BY <2>4 DEF SetTopEffect
  <2> HIDE DEF n
  <2>6. k \in DOMAIN queue /\ k \in Nat /\ k >= 1 /\ ticket[queue[k]] <= stack[n].last
    BY <1>2, <2>2 DEF Take, Takes, TakeEffect
  <2>7. stack[n].ran + k <= stack[n].due BY <2>2, <2>6 DEF Budgeted
  <2> SUFFICES ASSUME NEW m \in DOMAIN stack
               PROVE  /\ stack'[m].ran <= stack'[m].due
                      /\ \A j \in DOMAIN queue' :
                           ticket'[queue'[j]] <= stack'[m].last => stack'[m].ran + j <= stack'[m].due
    BY <2>5 DEF Budgeted
  <2>8. CASE m # n
    BY <1>4, <2>5, <2>8 DEF Budgeted
  <2>9. CASE m = n
    <3>1. stack'[m].ran <= stack'[m].due BY <1>3, <2>3, <2>5, <2>6, <2>7, <2>9
    <3>2. ASSUME NEW j \in DOMAIN queue', ticket'[queue'[j]] <= stack'[m].last
          PROVE  stack'[m].ran + j <= stack'[m].due
      <4>1. j \in Nat BY <1>2 DEF TakeEffect
      <4>2. CASE j >= k
        BY <1>4, <2>3, <2>5, <2>9, <3>2, <4>2
      <4>3. CASE j < k
        BY <1>3, <2>3, <2>5, <2>6, <2>7, <2>9, <4>1, <4>3
      <4> QED BY <2>6, <4>1, <4>2, <4>3
    <3> QED BY <3>1, <3>2
  <2> QED BY <2>8, <2>9
<1> QED BY <1>5, <1>6

\* Every step keeps it.
LEMMA BudgetStep == QueueInv /\ Budgeted /\ [Next]_vars => Budgeted'
<1> SUFFICES ASSUME QueueInv, Budgeted, [Next]_vars PROVE Budgeted'
  OBVIOUS
<1>1. TypeOK /\ Ordered BY DEF QueueInv
<1>2. ASSUME NEW i \in Items, NEW c \in Clients \cup {NoClient}, QueueWorkProc(i, c)
      PROVE  Budgeted'
  <2>1. i \notin Elements(queue) BY <1>1, <1>2 DEF Ordered, Elements, QueueWorkProc
  <2> QED BY <1>2, <2>1, AppendBudgeted DEF QueueWorkProc
<1>3. CASE ProcessWorkQueue BY <1>3, PushBudgeted DEF ProcessWorkQueue
<1>4. CASE ClearWorkQueue BY <1>4, PushBudgeted DEF ClearWorkQueue
<1>5. ASSUME NEW c \in Clients, CloseClient(c) PROVE Budgeted'
  BY <1>5, PushBudgeted DEF CloseClient
<1>6. CASE Step
  <2>1. PICK k \in 1..(Len(queue) + 1) : Take(k) \/ EndPass(k) BY <1>6 DEF Step
  <2>2. stack # <<>> BY <1>6 DEF Step
  <2>3. CASE Take(k) BY <2>2, <2>3, TakeBudgeted
  <2>4. CASE EndPass(k)
    <3>1. PopEffect /\ UNCHANGED <<queue, ticket>> BY <1>1, <2>2, <2>4, PopFacts DEF EndPass
    <3>2. DOMAIN stack' \subseteq DOMAIN stack /\ \A m \in DOMAIN stack' : stack'[m] = stack[m]
      BY <3>1 DEF PopEffect
    <3> QED BY <3>1, <3>2 DEF Budgeted
  <2> QED BY <2>1, <2>3, <2>4
<1>7. ASSUME stack # <<>>, SetTop([Top EXCEPT !.item = NoItem])
      PROVE  /\ DOMAIN stack' = DOMAIN stack
             /\ \A m \in DOMAIN stack : /\ stack'[m].ran = stack[m].ran
                                        /\ stack'[m].due = stack[m].due
                                        /\ stack'[m].last = stack[m].last
  <2> DEFINE f == [Top EXCEPT !.item = NoItem]
  <2>1. Top \in Frames /\ Top = stack[Len(stack)] BY <1>1, <1>7, StackFacts DEF Top
  <2>2. f.ran = Top.ran /\ f.due = Top.due /\ f.last = Top.last BY <2>1 DEF Frames
  <2> HIDE DEF f
  <2>3. SetTopEffect(f) BY <1>1, <1>7, SetTopFacts DEF f
  <2> QED BY <2>1, <2>2, <2>3 DEF SetTopEffect
<1>8. CASE CallbackDone
  BY <1>7, <1>8 DEF CallbackDone, Budgeted
<1>9. CASE CallbackRetry
  <2> DEFINE i == Top.item
  <2>1. Top \in Frames /\ Top = stack[Len(stack)] /\ Len(stack) \in DOMAIN stack
    BY <1>1, <1>9, StackFacts DEF CallbackRetry, Top
  <2>2. i \in Items /\ append(i) BY <1>9, <2>1 DEF CallbackRetry, Frames
  <2>3. i \notin Elements(queue)
    BY <1>9, <2>1 DEF CallbackRetry, QueueInv, HeldItemsAreUnlinked
  <2> HIDE DEF i
  <2> QED BY <1>7, <1>9, <2>2, <2>3, AppendBudgeted DEF CallbackRetry
<1>10. CASE UNCHANGED vars
  BY <1>10 DEF vars, Budgeted
<1> QED BY <1>2, <1>3, <1>4, <1>5, <1>6, <1>8, <1>9, <1>10 DEF Next

\* workqueue.cpp:76-78: a pass calls at most what was queued when it began,
\* however much its callbacks queue, retry or close meanwhile.
THEOREM PassesAreBounded == Spec => []PassIsBounded
<1>1. Init => Budgeted BY DEF Init, Budgeted
<1>2. Budgeted => PassIsBounded BY DEF Budgeted, PassIsBounded
<1> QED BY QueueInit, QueueStep, BudgetStep, <1>1, <1>2, PTL DEF Spec

-----------------------------------------------------------------------------
(* Direct input: lorie/direct_input.c.                                     *)

Owner == Sources \cup {NoOutput}

\* What tabletRelease() works on.
StateType == [tablets : [Tools -> [output : Owner, buttons : SUBSET XButtons]],
              tools   : [Tools -> [near : Int, down : [XButtons -> Int]]]]

\* The device of tool t believes what the table says.
Told(st, t) ==
    /\ st.tools[t].near = (IF st.tablets[t].output = NoOutput THEN 0 ELSE 1)
    /\ \A b \in XButtons : st.tools[t].down[b] = (IF b \in st.tablets[t].buttons THEN 1 ELSE 0)

\* One slot per finger, and each slot told.
ContactsInv ==
    /\ contacts \in [1..Slots -> [output : Owner, finger : Fingers \cup {NoOutput}]]
    /\ touches \in [1..Slots -> Int]
    /\ \A s \in 1..Slots : touches[s] = (IF contacts[s].output = NoOutput THEN 0 ELSE 1)
    /\ \A s, r \in 1..Slots : contacts[s] = contacts[r] /\ contacts[s] # NoContact => s = r

\* Every tool told, with its device if it is near, and one of them near.
ToolsInv(st) ==
    /\ st \in StateType
    /\ \A t \in Tools : Told(st, t)
    /\ \A t, u \in Tools : st.tablets[t].output # NoOutput /\ st.tablets[u].output # NoOutput => t = u

StyliExist(st) == \A t \in Tools : st.tablets[t].output # NoOutput => t \in styli

DirectInv ==
    /\ ContactsInv
    /\ ToolsInv(State)
    /\ styli \subseteq Tools
    /\ StyliExist(State)

-----------------------------------------------------------------------------

\* direct_input.c:33-42: a release leaves a state as sound as it was and its
\* tool away, and does not touch the other one.
LEMMA ReleaseFacts ==
    ASSUME NEW st, NEW t \in Tools, ToolsInv(st), StyliExist(st), st.tablets[t].output # NoOutput
    PROVE  /\ ToolsInv(tabletRelease(st, t))
           /\ StyliExist(tabletRelease(st, t))
           /\ tabletRelease(st, t).tablets[t] = NoTablet
           /\ \A u \in Tools \ {t} : tabletRelease(st, t).tablets[u] = st.tablets[u]
<1> DEFINE r == tabletRelease(st, t)
<1>1. st \in StateType /\ t \in styli BY DEF ToolsInv, StyliExist
<1>2. NoTablet \in [output : Owner, buttons : SUBSET XButtons] BY DEF NoTablet, Owner
<1>3. r.tablets = [st.tablets EXCEPT ![t] = NoTablet] BY DEF tabletRelease
<1>4. r.tools = [st.tools EXCEPT ![t].near = @ - 1,
                     ![t].down = [b \in XButtons |-> @[b] - (IF b \in st.tablets[t].buttons THEN 1 ELSE 0)]]
  BY <1>1 DEF tabletRelease
<1>5. r.tablets[t] = NoTablet /\ \A u \in Tools \ {t} : r.tablets[u] = st.tablets[u]
  BY <1>1, <1>3 DEF StateType
<1>6. \A u \in Tools \ {t} : r.tools[u] = st.tools[u]
  BY <1>1, <1>4 DEF StateType
<1>7. /\ r.tools[t].near = st.tools[t].near - 1
      /\ r.tools[t].down = [b \in XButtons |->
                              st.tools[t].down[b] - (IF b \in st.tablets[t].buttons THEN 1 ELSE 0)]
  BY <1>1, <1>4 DEF StateType
<1>8. r \in StateType
  <2>1. r.tablets \in [Tools -> [output : Owner, buttons : SUBSET XButtons]]
    BY <1>1, <1>2, <1>3 DEF StateType
  <2>2. [b \in XButtons |-> st.tools[t].down[b] - (IF b \in st.tablets[t].buttons THEN 1 ELSE 0)]
           \in [XButtons -> Int]
    BY <1>1 DEF StateType
  <2>3. r.tools \in [Tools -> [near : Int, down : [XButtons -> Int]]]
    BY <1>1, <1>4, <2>2 DEF StateType
  <2> QED BY <2>1, <2>3 DEF tabletRelease, StateType
<1>9. Told(r, t)
  <2>1. Told(st, t) BY DEF ToolsInv
  <2>2. r.tools[t].near = 0 BY <1>7, <2>1 DEF Told
  <2>3. \A b \in XButtons : r.tools[t].down[b] = 0 BY <1>7, <2>1 DEF Told
  <2> QED BY <1>5, <2>2, <2>3 DEF Told, NoTablet
<1>10. \A u \in Tools : Told(r, u)
  BY <1>5, <1>6, <1>9 DEF ToolsInv, Told
<1>11. \A u \in Tools : r.tablets[u].output # NoOutput => r.tablets[u] = st.tablets[u] /\ u # t
  BY <1>5 DEF NoTablet
<1> QED BY <1>5, <1>8, <1>10, <1>11 DEF ToolsInv, StyliExist

\* The same of a release that is made on a condition under which the tool is
\* near some output.
LEMMA ReleasedIfFacts ==
    ASSUME NEW st, NEW t \in Tools, NEW condition \in BOOLEAN, ToolsInv(st), StyliExist(st),
           condition => st.tablets[t].output # NoOutput
    PROVE  /\ ToolsInv(ReleasedIf(st, t, condition))
           /\ StyliExist(ReleasedIf(st, t, condition))
           /\ condition => ReleasedIf(st, t, condition).tablets[t] = NoTablet
           /\ ~condition => ReleasedIf(st, t, condition).tablets[t] = st.tablets[t]
           /\ \A u \in Tools \ {t} : ReleasedIf(st, t, condition).tablets[u] = st.tablets[u]
<1>1. CASE condition BY <1>1, ReleaseFacts DEF ReleasedIf
<1>2. CASE ~condition BY <1>2 DEF ReleasedIf
<1> QED BY <1>1, <1>2

-----------------------------------------------------------------------------

\* direct_input.c:57-75: a contact begins in a free slot or ends in its own.
LEMMA TouchStep ==
    ASSUME ContactsInv, NEW o \in Sources, NEW f \in Fingers, Begin(o, f) \/ End(o, f)
    PROVE  ContactsInv'
<1> USE DirectAssumption DEF Owner
<1>1. CASE Begin(o, f)
  <2>1. PICK s \in 1..Slots :
          /\ contacts[s].output = NoOutput
          /\ contacts' = [contacts EXCEPT ![s] = [output |-> o, finger |-> f]]
          /\ touches' = [touches EXCEPT ![s] = @ + 1]
    BY <1>1 DEF Begin, FirstFree
  <2>2. \A r \in 1..Slots : contacts[r] # [output |-> o, finger |-> f]
    BY <1>1 DEF Begin, SlotOf
  <2>3. contacts'[s].output = o /\ touches'[s] = 1
    BY <2>1 DEF ContactsInv
  <2>4. \A r \in 1..Slots : r # s => contacts'[r] = contacts[r] /\ touches'[r] = touches[r]
    BY <2>1 DEF ContactsInv
  <2>5. \A r \in 1..Slots : touches'[r] = (IF contacts'[r].output = NoOutput THEN 0 ELSE 1)
    BY <2>3, <2>4 DEF ContactsInv
  <2>6. contacts'[s] = [output |-> o, finger |-> f] BY <2>1 DEF ContactsInv
  <2>7. \A r, q \in 1..Slots : contacts'[r] = contacts'[q] /\ contacts'[r] # NoContact => r = q
    BY <2>2, <2>4, <2>6 DEF ContactsInv
  <2>8. /\ contacts' \in [1..Slots -> [output : Owner, finger : Fingers \cup {NoOutput}]]
        /\ touches' \in [1..Slots -> Int]
    BY <2>1 DEF ContactsInv
  <2> QED BY <2>5, <2>7, <2>8 DEF ContactsInv
<1>2. CASE End(o, f)
  <2>1. PICK s \in 1..Slots :
          /\ contacts[s] = [output |-> o, finger |-> f]
          /\ contacts' = [contacts EXCEPT ![s] = NoContact]
          /\ touches' = [touches EXCEPT ![s] = @ - 1]
    BY <1>2 DEF End, SlotOf
  <2>2. contacts'[s] = NoContact /\ touches'[s] = 0
    BY <2>1 DEF ContactsInv
  <2>3. \A r \in 1..Slots : r # s => contacts'[r] = contacts[r] /\ touches'[r] = touches[r]
    BY <2>1 DEF ContactsInv
  <2>4. \A r \in 1..Slots : touches'[r] = (IF contacts'[r].output = NoOutput THEN 0 ELSE 1)
    BY <2>2, <2>3 DEF ContactsInv, NoContact
  <2>5. \A r, q \in 1..Slots : contacts'[r] = contacts'[q] /\ contacts'[r] # NoContact => r = q
    BY <2>2, <2>3 DEF ContactsInv
  <2>6. /\ contacts' \in [1..Slots -> [output : Owner, finger : Fingers \cup {NoOutput}]]
        /\ touches' \in [1..Slots -> Int]
    BY <2>1 DEF ContactsInv, NoContact
  <2> QED BY <2>4, <2>5, <2>6 DEF ContactsInv
<1> QED BY <1>1, <1>2

\* direct_input.c:83-103: a tool enters or moves, with buttons that are those of
\* the table before and after.
LEMMA HoverStep ==
    ASSUME DirectInv, NEW o \in Sources, NEW t \in Tools, NEW bits \in SUBSET (0..2), Hover(o, t, bits)
    PROVE  DirectInv'
<1> USE DirectAssumption
<1>1. PICK S \in Enabled :
        /\ styli' = S
        /\ IF t \notin S THEN UNCHANGED <<tablets, tools>>
           ELSE LET other == Other(t)
                    s1 == ReleasedIf(State, other, tablets[other].output # NoOutput)
                    s2 == ReleasedIf(s1, t, tablets[t].output \notin {o, NoOutput})
                    next == {XButton(b) : b \in bits}
                    entering == s2.tablets[t].output = NoOutput
                IN  /\ tablets' = [s2.tablets EXCEPT ![t] = [output |-> o, buttons |-> next]]
                    /\ tools' = [s2.tools EXCEPT
                           ![t].near = @ + (IF entering THEN 1 ELSE 0),
                           ![t].down = [b \in XButtons |->
                               @[b] + (IF b \in next \ s2.tablets[t].buttons THEN 1 ELSE 0)
                                    - (IF b \in s2.tablets[t].buttons \ next THEN 1 ELSE 0)]]
  BY DEF Hover
<1>2. contacts' = contacts /\ touches' = touches BY DEF Hover
<1>3. ContactsInv' BY <1>2 DEF DirectInv, ContactsInv
<1>4. styli' \subseteq Tools /\ styli \subseteq styli' BY <1>1 DEF Enabled
<1>5. ToolsInv(State) /\ StyliExist(State) BY DEF DirectInv
<1>6. CASE t \notin S
  <2>1. tablets' = tablets /\ tools' = tools BY <1>1, <1>6
  <2>2. State' = State BY <2>1 DEF State
  <2>3. ToolsInv(State)' BY <1>5, <2>2 DEF ToolsInv, Told
  <2>4. StyliExist(State)' BY <1>4, <1>5, <2>2 DEF StyliExist
  <2> QED BY <1>3, <1>4, <2>3, <2>4 DEF DirectInv
<1>7. CASE t \in S
  <2> DEFINE other == Other(t)
             s1 == ReleasedIf(State, other, tablets[other].output # NoOutput)
             s2 == ReleasedIf(s1, t, tablets[t].output \notin {o, NoOutput})
             next == {XButton(b) : b \in bits}
             pressed == [b \in XButtons |->
                           s2.tools[t].down[b] + (IF b \in next \ s2.tablets[t].buttons THEN 1 ELSE 0)
                                - (IF b \in s2.tablets[t].buttons \ next THEN 1 ELSE 0)]
  <2>1. other \in Tools /\ other # t /\ \A u \in Tools : u = t \/ u = other
    BY DEF Other, Tools
  <2>2. State.tablets = tablets /\ State.tools = tools BY DEF State
  <2>3. /\ ToolsInv(s1) /\ StyliExist(s1)
        /\ s1.tablets[other].output = NoOutput
        /\ s1.tablets[t] = tablets[t]
    <3>1. /\ ToolsInv(s1) /\ StyliExist(s1)
          /\ tablets[other].output # NoOutput => s1.tablets[other] = NoTablet
          /\ tablets[other].output = NoOutput => s1.tablets[other] = State.tablets[other]
          /\ \A u \in Tools \ {other} : s1.tablets[u] = State.tablets[u]
      BY <1>5, <2>1, <2>2, ReleasedIfFacts
    <3> QED BY <2>1, <2>2, <3>1 DEF NoTablet
  <2> HIDE DEF s1
  <2>4. /\ ToolsInv(s2) /\ StyliExist(s2)
        /\ s2.tablets[other].output = NoOutput
        /\ s2.tablets[t].output \in {o, NoOutput}
    <3>1. /\ ToolsInv(s2) /\ StyliExist(s2)
          /\ tablets[t].output \notin {o, NoOutput} => s2.tablets[t] = NoTablet
          /\ tablets[t].output \in {o, NoOutput} => s2.tablets[t] = s1.tablets[t]
          /\ \A u \in Tools \ {t} : s2.tablets[u] = s1.tablets[u]
      <4>1. tablets[t].output \notin {o, NoOutput} => s1.tablets[t].output # NoOutput BY <2>3
      <4>2. (tablets[t].output \notin {o, NoOutput}) \in BOOLEAN OBVIOUS
      <4> QED BY <2>3, <4>1, <4>2, ReleasedIfFacts
    <3> QED BY <2>1, <2>3, <3>1 DEF NoTablet
  <2>5. next \subseteq XButtons BY DEF XButton, XButtons
  <2>6. /\ tablets' = [s2.tablets EXCEPT ![t] = [output |-> o, buttons |-> next]]
        /\ tools' = [s2.tools EXCEPT ![t].near = @ + (IF s2.tablets[t].output = NoOutput THEN 1 ELSE 0),
                                     ![t].down = pressed]
    BY <1>1, <1>7 DEF s1
  <2> HIDE DEF s2, next
  <2>7. s2 \in StateType /\ Told(s2, t) /\ Told(s2, other) BY <2>1, <2>4 DEF ToolsInv
  <2>8. pressed \in [XButtons -> Int] BY <2>7 DEF StateType
  <2>9. \A b \in XButtons : pressed[b] = (IF b \in next THEN 1 ELSE 0)
    BY <2>7 DEF Told, StateType
  <2> HIDE DEF pressed
  <2>10. /\ tablets'[t] = [output |-> o, buttons |-> next]
         /\ tablets'[other] = s2.tablets[other]
         /\ tablets' \in [Tools -> [output : Owner, buttons : SUBSET XButtons]]
    BY <2>1, <2>5, <2>6, <2>7 DEF StateType, Owner
  <2>11. /\ tools'[t].near = s2.tools[t].near + (IF s2.tablets[t].output = NoOutput THEN 1 ELSE 0)
         /\ tools'[t].down = pressed
         /\ tools'[other] = s2.tools[other]
         /\ tools' \in [Tools -> [near : Int, down : [XButtons -> Int]]]
    BY <2>1, <2>6, <2>7, <2>8 DEF StateType
  <2>12. tools'[t].near = 1 BY <2>7, <2>11 DEF Told
  <2>13. Told(State, t)'
    BY <2>9, <2>10, <2>11, <2>12 DEF Told, State
  <2>14. Told(State, other)'
    BY <2>7, <2>10, <2>11 DEF Told, State
  <2>15. State' \in StateType BY <2>10, <2>11 DEF StateType, State
  <2>16. ToolsInv(State)'
    <3>1. \A u \in Tools : Told(State, u)' BY <2>1, <2>13, <2>14
    <3>2. \A u \in Tools : tablets'[u].output # NoOutput => u = t BY <2>1, <2>4, <2>10
    <3> QED BY <2>15, <3>1, <3>2 DEF ToolsInv, State
  <2>17. StyliExist(State)'
    <3>1. \A u \in Tools : tablets'[u].output # NoOutput => u = t BY <2>1, <2>4, <2>10
    <3> QED BY <1>1, <1>7, <3>1 DEF StyliExist, State
  <2> QED BY <1>3, <1>4, <2>16, <2>17 DEF DirectInv
<1> QED BY <1>6, <1>7

\* direct_input.c:82: a tool that leaves the output it is near.
LEMMA WithdrawStep ==
    ASSUME DirectInv, NEW o \in Sources, NEW t \in Tools, Withdraw(o, t)
    PROVE  DirectInv'
<1>1. tablets[t].output # NoOutput BY DirectAssumption DEF Withdraw
<1>2. ToolsInv(State) /\ StyliExist(State) BY DEF DirectInv
<1>3. ToolsInv(tabletRelease(State, t)) /\ StyliExist(tabletRelease(State, t))
  BY <1>1, <1>2, ReleaseFacts DEF State
<1>4. State' = tabletRelease(State, t) BY DEF Withdraw, State, tabletRelease
<1>5. styli' = styli /\ contacts' = contacts /\ touches' = touches BY DEF Withdraw
<1>6. ContactsInv' BY <1>5 DEF DirectInv, ContactsInv
<1>7. ToolsInv(State)' BY <1>3, <1>4 DEF ToolsInv, Told
<1>8. StyliExist(State)' BY <1>3, <1>4, <1>5 DEF StyliExist
<1> QED BY <1>5, <1>6, <1>7, <1>8 DEF DirectInv

\* direct_input.c:44-50: everything an output holds is released.
LEMMA ReleaseStep ==
    ASSUME DirectInv, NEW o \in Sources, lorieDirectInputRelease(o)
    PROVE  DirectInv'
<1> USE DirectAssumption
<1> DEFINE s1 == ReleasedIf(State, "pen", tablets["pen"].output = o)
           s2 == ReleasedIf(s1, "eraser", tablets["eraser"].output = o)
<1>1. ContactsInv'
  <2>1. /\ contacts' = [s \in 1..Slots |-> IF contacts[s].output = o THEN NoContact ELSE contacts[s]]
        /\ touches' = [s \in 1..Slots |-> IF contacts[s].output = o THEN touches[s] - 1 ELSE touches[s]]
    BY DEF lorieDirectInputRelease
  <2>2. NoContact \in [output : Owner, finger : Fingers \cup {NoOutput}] BY DEF NoContact, Owner
  <2>3. ContactsInv BY DEF DirectInv
  <2>4. \A s \in 1..Slots : touches'[s] = (IF contacts'[s].output = NoOutput THEN 0 ELSE 1)
    BY <2>1, <2>3 DEF ContactsInv, NoContact
  <2>5. \A s, r \in 1..Slots : contacts'[s] = contacts'[r] /\ contacts'[s] # NoContact => s = r
    BY <2>1, <2>3 DEF ContactsInv
  <2>6. /\ contacts' \in [1..Slots -> [output : Owner, finger : Fingers \cup {NoOutput}]]
        /\ touches' \in [1..Slots -> Int]
    BY <2>1, <2>2, <2>3 DEF ContactsInv
  <2> QED BY <2>4, <2>5, <2>6 DEF ContactsInv
<1>2. ToolsInv(State) /\ StyliExist(State) BY DEF DirectInv
<1>3. State.tablets = tablets BY DEF State
<1>4. "pen" \in Tools /\ "eraser" \in Tools BY DEF Tools
<1>5. ToolsInv(s1) /\ StyliExist(s1) /\ s1.tablets["eraser"] = tablets["eraser"]
  <2>1. tablets["pen"].output = o => State.tablets["pen"].output # NoOutput BY <1>3
  <2>2. ToolsInv(s1) /\ StyliExist(s1)
        /\ \A u \in Tools \ {"pen"} : s1.tablets[u] = State.tablets[u]
    BY <1>2, <1>4, <2>1, ReleasedIfFacts
  <2> QED BY <1>3, <1>4, <2>2
<1> HIDE DEF s1
<1>6. ToolsInv(s2) /\ StyliExist(s2)
  <2>1. tablets["eraser"].output = o => s1.tablets["eraser"].output # NoOutput BY <1>5
  <2> QED BY <1>4, <1>5, <2>1, ReleasedIfFacts
<1>7. tablets' = s2.tablets /\ tools' = s2.tools /\ styli' = styli
  BY DEF lorieDirectInputRelease, s1
<1> HIDE DEF s2
<1>8. State'.tablets = s2.tablets /\ State'.tools = s2.tools BY <1>7 DEF State
<1>9. State' \in StateType
  <2>1. s2 \in StateType BY <1>6 DEF ToolsInv
  <2> QED BY <1>7, <2>1 DEF State, StateType
<1>10. ToolsInv(State)' BY <1>6, <1>8, <1>9 DEF ToolsInv, Told
<1>11. StyliExist(State)' BY <1>6, <1>7, <1>8 DEF StyliExist
<1> QED BY <1>1, <1>7, <1>10, <1>11 DEF DirectInv

\* Tools that are away and devices that were told of nothing.
Away == [tablets |-> [t \in Tools |-> NoTablet], tools |-> [t \in Tools |-> Idle]]

\* direct_input.c:18-24, the tables at the start and after a reset.
LEMMA AwayFacts == ToolsInv(Away) /\ \A t \in Tools : Away.tablets[t].output = NoOutput
<1>1. /\ NoTablet \in [output : Owner, buttons : SUBSET XButtons]
      /\ NoTablet.output = NoOutput /\ NoTablet.buttons = {}
  BY DEF NoTablet, Owner
<1>2. /\ Idle \in [near : Int, down : [XButtons -> Int]]
      /\ Idle.near = 0 /\ \A b \in XButtons : Idle.down[b] = 0
  BY DEF Idle
<1>3. Away \in StateType BY <1>1, <1>2 DEF Away, StateType
<1>4. \A t \in Tools : Away.tablets[t] = NoTablet /\ Away.tools[t] = Idle BY DEF Away
<1> QED BY <1>1, <1>2, <1>3, <1>4 DEF ToolsInv, Told

-----------------------------------------------------------------------------

\* direct_input.c: through touches, tools that change outputs, cancelled outputs
\* and server resets, no contact or button stays down without an owner, none
\* begins or ends twice, and at most one tool is near.
THEOREM DirectCorrect == DirectSpec => []DevicesMatchTables
<1>1. DirectInit => DirectInv
  <2> SUFFICES ASSUME DirectInit PROVE DirectInv
    OBVIOUS
  <2>1. ContactsInv BY DEF DirectInit, ContactsInv, NoContact, Owner
  <2>2. State = Away /\ styli = {} BY DEF DirectInit, State, Away
  <2>3. ToolsInv(State) /\ StyliExist(State) BY <2>2, AwayFacts DEF StyliExist
  <2> QED BY <2>1, <2>2, <2>3 DEF DirectInv
<1>2. DirectInv /\ [DirectNext]_directVars => DirectInv'
  <2> SUFFICES ASSUME DirectInv, [DirectNext]_directVars PROVE DirectInv'
    OBVIOUS
  <2>1. ASSUME NEW o \in Sources, NEW f \in Fingers, Touch(o, f) PROVE DirectInv'
    <3>1. ContactsInv' BY <2>1, TouchStep DEF Touch, DirectInv
    <3>2. tablets' = tablets /\ styli' = styli /\ tools' = tools BY <2>1 DEF Touch
    <3>3. State' = State BY <3>2 DEF State
    <3>4. ToolsInv(State)' BY <3>3 DEF DirectInv, ToolsInv, Told
    <3>5. StyliExist(State)' BY <3>2, <3>3 DEF DirectInv, StyliExist
    <3> QED BY <3>1, <3>2, <3>4, <3>5 DEF DirectInv
  <2>2. ASSUME NEW o \in Sources, NEW t \in Tools, NEW bits \in SUBSET (0..2), Hover(o, t, bits)
        PROVE  DirectInv'
    BY <2>2, HoverStep
  <2>3. ASSUME NEW o \in Sources, NEW t \in Tools, Withdraw(o, t) PROVE DirectInv'
    BY <2>3, WithdrawStep
  <2>4. ASSUME NEW o \in Sources, lorieDirectInputRelease(o) PROVE DirectInv'
    BY <2>4, ReleaseStep
  <2>5. CASE InitInput
    <3>1. styli' \subseteq Tools BY <2>5 DEF InitInput, Tools
    <3>2. ContactsInv' BY <2>5 DEF InitInput, ContactsInv, NoContact, Owner
    <3>3. State' = Away BY <2>5 DEF InitInput, State, Away
    <3>4. ToolsInv(State)' BY <3>3, AwayFacts DEF ToolsInv, Told
    <3>5. StyliExist(State)' BY <3>3, AwayFacts DEF StyliExist
    <3> QED BY <3>1, <3>2, <3>4, <3>5 DEF DirectInv
  <2>6. CASE UNCHANGED directVars
    <3>1. /\ contacts' = contacts /\ tablets' = tablets /\ styli' = styli
          /\ touches' = touches /\ tools' = tools
      BY <2>6 DEF directVars
    <3>2. State' = State BY <3>1 DEF State
    <3>3. ContactsInv' BY <3>1 DEF DirectInv, ContactsInv
    <3>4. ToolsInv(State)' BY <3>2 DEF DirectInv, ToolsInv, Told
    <3>5. StyliExist(State)' BY <3>1, <3>2 DEF DirectInv, StyliExist
    <3> QED BY <3>1, <3>3, <3>4, <3>5 DEF DirectInv
  <2> QED BY <2>1, <2>2, <2>3, <2>4, <2>5, <2>6 DEF DirectNext
<1>3. DirectInv => DevicesMatchTables
  BY DEF DirectInv, ContactsInv, ToolsInv, Told, State, DevicesMatchTables
<1> QED BY <1>1, <1>2, <1>3, PTL DEF DirectSpec

-----------------------------------------------------------------------------
(* Redraw events: lorie/window_shell.c, cursor.c, InitOutput.c, after two  *)
(* facts of arithmetic.                                                     *)

\* The lesser of two numbers.
LEMMA MinOfTwo ==
    ASSUME NEW a \in Int, NEW b \in Int
    PROVE  Min({a, b}) = (IF a <= b THEN a ELSE b)
<1> DEFINE m == IF a <= b THEN a ELSE b
<1>1. m \in {a, b} /\ \A y \in {a, b} : m <= y OBVIOUS
<1>2. Min({a, b}) \in {a, b} /\ \A y \in {a, b} : Min({a, b}) <= y
  BY <1>1, Zenon DEF Min
<1> QED BY <1>1, <1>2

\* The greater of two numbers.
LEMMA MaxOfTwo ==
    ASSUME NEW a \in Int, NEW b \in Int
    PROVE  Max({a, b}) = (IF a <= b THEN b ELSE a)
<1> DEFINE m == IF a <= b THEN b ELSE a
<1>1. m \in {a, b} /\ \A y \in {a, b} : m >= y OBVIOUS
<1>2. Max({a, b}) \in {a, b} /\ \A y \in {a, b} : Max({a, b}) >= y
  BY <1>1, Zenon DEF Max
<1> QED BY <1>1, <1>2

-----------------------------------------------------------------------------

\* window_shell.c: the host's catalog is the server's, is no larger than its
\* table and is behind the windows only if it is marked.
ShellInv ==
    /\ shellRecords \in [ShellWindows -> Looks]
    /\ desk \in [ShellWindows -> Looks]
    /\ hostCatalog = shellRecords
    /\ Cardinality(Catalogued(shellRecords)) <= ShellLimit
    /\ shellOwner # NoHost /\ ~shellDirty =>
         /\ ~foreign
         /\ \A w \in ShellWindows :
              \/ shellRecords[w] = desk[w]
              \/ shellRecords[w] = Absent /\ (desk[w].mapped => crowded)

\* cursor.c: the last event is the pointer's image, unless another is pending.
CursorInv == cursorAt # NoPointer /\ ~cursorPending => hostCursor = <<cursorAt, cursorKind>>

\* InitOutput.c: who was notified waited for no later frame.
VblankInv ==
    /\ msc \in Nat
    /\ vblankQueue \subseteq [id : Vblanks, msc : Nat]
    /\ \A i \in DOMAIN fired : fired[i].at >= fired[i].wanted

NewsInv == ShellInv /\ CursorInv /\ VblankInv

\* The records of a catalog are among the windows there are.
LEMMA CatalogIsFinite ==
    ASSUME NEW r
    PROVE  IsFiniteSet(Catalogued(r)) /\ Cardinality(Catalogued(r)) \in Nat
<1>1. Catalogued(r) \subseteq ShellWindows BY DEF Catalogued
<1>2. IsFiniteSet(Catalogued(r)) BY <1>1, RedrawAssumption, FS_Subset
<1> QED BY <1>2, FS_CardinalityType

\* window_shell.c:38-45: an empty catalog fits.
LEMMA EmptyCatalog ==
    NoRecords \in [ShellWindows -> Looks] /\ Cardinality(Catalogued(NoRecords)) <= ShellLimit
<1>1. Catalogued(NoRecords) = {} BY DEF Catalogued, NoRecords
<1>2. Cardinality(Catalogued(NoRecords)) = 0 BY <1>1, FS_EmptySet
<1> QED BY <1>2, RedrawAssumption DEF NoRecords, Looks

\* window_shell.c:38-45: a catalog that is dropped.
LEMMA DroppedStep ==
    ASSUME ShellInv, Dropped, desk' = desk
    PROVE  ShellInv'
<1>1. /\ shellRecords' = NoRecords /\ hostCatalog' = NoRecords /\ shellOwner' = NoHost
  BY DEF Dropped
<1> QED BY <1>1, EmptyCatalog DEF ShellInv

\* window_shell.c:65-128: the refresh brings every known window up to date and
\* takes as many newcomers as there is room for.
LEMMA RefreshStep ==
    ASSUME ShellInv, lorieShellRefresh, desk' = desk, foreign' = foreign
    PROVE  ShellInv'
<1>1. CASE shellOwner = NoHost \/ ~shellDirty
  BY <1>1 DEF ShellInv, lorieShellRefresh
<1>2. CASE ~(shellOwner = NoHost \/ ~shellDirty) /\ foreign
  BY <1>2, DroppedStep DEF lorieShellRefresh
<1>3. CASE ~(shellOwner = NoHost \/ ~shellDirty) /\ ~foreign
  <2>1. PICK admitted \in SUBSET Newcomers :
           /\ Cardinality(admitted) = Min({Room, Cardinality(Newcomers)})
           /\ shellRecords' = Listed(admitted)
           /\ hostCatalog' = [w \in ShellWindows |->
                 IF shellRecords'[w] # shellRecords[w] THEN shellRecords'[w] ELSE hostCatalog[w]]
           /\ crowded' = (admitted # Newcomers)
    BY <1>3 DEF lorieShellRefresh
  <2>2. shellRecords' \in [ShellWindows -> Looks] BY <2>1 DEF ShellInv, Listed, Looks
  <2>3. hostCatalog' = shellRecords' BY <2>1, <2>2 DEF ShellInv
  <2>4. Cardinality(Catalogued(shellRecords')) <= ShellLimit
    <3> DEFINE old == Catalogued(shellRecords)
               new == Catalogued(shellRecords')
    <3>1. Newcomers \subseteq ShellWindows BY DEF Newcomers
    <3>2. IsFiniteSet(Newcomers) /\ IsFiniteSet(admitted)
      BY <3>1, RedrawAssumption, FS_Subset
    <3>3. Cardinality(Newcomers) \in Nat /\ Cardinality(admitted) \in Nat
      BY <3>2, FS_CardinalityType
    <3>4. IsFiniteSet(old) /\ Cardinality(old) \in Nat BY CatalogIsFinite
    <3>5. new \subseteq old \cup admitted BY <2>1, <3>1 DEF Listed, Catalogued
    <3>6. IsFiniteSet(new) /\ Cardinality(new) \in Nat BY CatalogIsFinite
    <3> HIDE DEF old, new
    <3>7. /\ IsFiniteSet(old \cup admitted)
          /\ Cardinality(old \cup admitted) = Cardinality(old) + Cardinality(admitted)
                                              - Cardinality(old \cap admitted)
      BY <3>2, <3>4, FS_Union
    <3>8. Cardinality(old \cap admitted) \in Nat
      <4>1. IsFiniteSet(old \cap admitted) BY <3>4, FS_Subset
      <4> QED BY <4>1, FS_CardinalityType
    <3>9. Cardinality(new) <= Cardinality(old \cup admitted)
      BY <3>5, <3>7, FS_Subset
    <3>10. Room \in Int /\ Room + Cardinality(old) = ShellLimit
      BY <3>4, RedrawAssumption DEF Room, old
    <3>11. Cardinality(admitted) <= Room
      BY <2>1, <3>3, <3>10, MinOfTwo
    <3>12. Cardinality(new) <= ShellLimit
      BY <3>3, <3>4, <3>6, <3>7, <3>8, <3>9, <3>10, <3>11, RedrawAssumption
    <3> QED BY <3>12 DEF new
  <2>5. \A w \in ShellWindows :
          \/ shellRecords'[w] = desk[w]
          \/ shellRecords'[w] = Absent /\ (desk[w].mapped => crowded')
    BY <2>1 DEF Listed, Newcomers
  <2> QED BY <1>3, <2>2, <2>3, <2>4, <2>5 DEF ShellInv, Catalogued
<1> QED BY <1>1, <1>2, <1>3

\* InitOutput.c:798-807: a redraw notifies who waited long enough.
LEMMA VblankStep ==
    ASSUME VblankInv, PerformVblanks
    PROVE  VblankInv'
<1> DEFINE now == Min({msc + 1, MaxMsc})
           waiting == {v \in vblankQueue : DueAt(v, now)}
           notified == {v.id : v \in waiting}
           Entry(i) == [wanted |-> (CHOOSE v \in waiting : v.id = i).msc, at |-> now]
<1>1. /\ msc' = now /\ vblankQueue' = vblankQueue \ waiting
      /\ fired' = [i \in DOMAIN fired \cup notified |-> IF i \in DOMAIN fired THEN fired[i] ELSE Entry(i)]
  BY DEF PerformVblanks
<1>2. now \in Nat BY MinOfTwo, RedrawAssumption DEF VblankInv
<1> HIDE DEF now
<1>3. \A v \in waiting : v.msc <= now BY DEF DueAt
<1>4. ASSUME NEW i \in notified PROVE Entry(i).at >= Entry(i).wanted
  <2>1. PICK u \in waiting : u.id = i BY <1>4
  <2> DEFINE c == CHOOSE v \in waiting : v.id = i
  <2>2. c \in waiting BY <2>1, Zenon
  <2>3. Entry(i).wanted = c.msc /\ Entry(i).at = now OBVIOUS
  <2> HIDE DEF c
  <2>4. c.msc <= now /\ c.msc \in Nat BY <1>3, <2>2 DEF VblankInv
  <2> HIDE DEF Entry
  <2> QED BY <1>2, <2>3, <2>4
<1> HIDE DEF Entry, notified
<1>5. \A i \in DOMAIN fired' : fired'[i].at >= fired'[i].wanted
  BY <1>1, <1>4 DEF VblankInv
<1> QED BY <1>1, <1>2, <1>5 DEF VblankInv

\* window_shell.c, cursor.c, InitOutput.c: the news of every step are sent or
\* pending.
LEMMA NewsStep == NewsInv /\ [RedrawNext]_redrawVars => NewsInv'
<1> SUFFICES ASSUME NewsInv, [RedrawNext]_redrawVars PROVE NewsInv'
  OBVIOUS
<1> USE DEF NewsInv
<1>1. ASSUME NEW id \in Hosts, NEW valid \in BOOLEAN, lorieShellConfigure(id, valid) PROVE NewsInv'
  <2>1. desk' = desk /\ foreign' = foreign /\ UNCHANGED <<cursorVars, vblankVars>>
    BY <1>1 DEF lorieShellConfigure
  <2>2. CursorInv' /\ VblankInv' BY <2>1 DEF cursorVars, vblankVars, CursorInv, VblankInv
  <2>3. CASE valid /\ ~foreign
    <3>1. shellDirty' = TRUE /\ shellRecords' = shellRecords /\ hostCatalog' = hostCatalog
      BY <1>1, <2>3 DEF lorieShellConfigure
    <3> QED BY <2>1, <2>2, <3>1 DEF ShellInv
  <2>4. CASE ~(valid /\ ~foreign)
    <3>1. Dropped BY <1>1, <2>4 DEF lorieShellConfigure
    <3> QED BY <2>1, <2>2, <3>1, DroppedStep
  <2> QED BY <2>3, <2>4
<1>2. ASSUME NEW w \in ShellWindows, WindowChanges(w) PROVE NewsInv'
  <2>1. /\ shellRecords' = shellRecords /\ hostCatalog' = hostCatalog /\ shellOwner' = shellOwner
        /\ foreign' = foreign /\ crowded' = crowded /\ UNCHANGED <<cursorVars, vblankVars>>
    BY <1>2 DEF WindowChanges
  <2>2. CursorInv' /\ VblankInv' BY <2>1 DEF cursorVars, vblankVars, CursorInv, VblankInv
  <2>3. shellOwner # NoHost => shellDirty' BY <1>2 DEF WindowChanges, Marked
  <2>4. desk' \in [ShellWindows -> Looks] BY <1>2 DEF WindowChanges, ShellInv
  <2> QED BY <2>1, <2>2, <2>3, <2>4 DEF ShellInv
<1>3. CASE ManagerChanges
  <2>1. /\ shellRecords' = shellRecords /\ hostCatalog' = hostCatalog /\ shellOwner' = shellOwner
        /\ desk' = desk /\ UNCHANGED <<cursorVars, vblankVars>>
    BY <1>3 DEF ManagerChanges
  <2>2. CursorInv' /\ VblankInv' BY <2>1 DEF cursorVars, vblankVars, CursorInv, VblankInv
  <2>3. shellOwner # NoHost => shellDirty' BY <1>3 DEF ManagerChanges, Marked
  <2> QED BY <2>1, <2>2, <2>3 DEF ShellInv
<1>4. CASE lorieCursorSet
  <2>1. CursorInv' BY <1>4 DEF lorieCursorSet, CursorInv
  <2>2. UNCHANGED <<shellVars, vblankVars>> BY <1>4 DEF lorieCursorSet
  <2> QED BY <2>1, <2>2 DEF shellVars, vblankVars, ShellInv, VblankInv
<1>5. CASE SelectCursor
  <2>1. CursorInv' BY <1>5 DEF SelectCursor, Selected, CursorInv
  <2>2. UNCHANGED <<shellVars, vblankVars>> BY <1>5 DEF SelectCursor
  <2> QED BY <2>1, <2>2 DEF shellVars, vblankVars, ShellInv, VblankInv
<1>6. CASE VblankNext
  <2>1. UNCHANGED <<shellVars, cursorVars>> BY <1>6 DEF VblankNext, QueueVblank, AbortVblank, AfterFlip
  <2>2. ShellInv' /\ CursorInv' BY <2>1 DEF shellVars, cursorVars, ShellInv, CursorInv
  <2>3. ASSUME NEW i \in Vblanks, QueueVblank(i) PROVE VblankInv'
    BY <2>3, RedrawAssumption DEF QueueVblank, VblankInv
  <2>4. ASSUME NEW v \in vblankQueue, AbortVblank(v) PROVE VblankInv'
    BY <2>4 DEF AbortVblank, VblankInv
  <2>5. ASSUME AfterFlip PROVE VblankInv'
    <3>1. PICK target \in 0..MaxMsc : msc' = Min({msc + 1, target}) BY <2>5 DEF AfterFlip
    <3>2. msc' \in Nat BY <3>1, MinOfTwo, RedrawAssumption DEF VblankInv
    <3> QED BY <2>5, <3>2 DEF AfterFlip, VblankInv
  <2> QED BY <1>6, <2>2, <2>3, <2>4, <2>5 DEF VblankNext
<1>7. CASE RedrawStep
  <2>1. VblankInv' BY <1>7, VblankStep DEF RedrawStep
  <2>2. desk' = desk /\ foreign' = foreign /\ cursorAt' = cursorAt /\ cursorKind' = cursorKind
    BY <1>7 DEF RedrawStep
  <2>3. CursorInv' BY <1>7, <2>2 DEF RedrawStep, lorieCursorPublish, CursorInv
  <2>4. CASE online BY <1>7, <2>1, <2>2, <2>3, <2>4, RefreshStep DEF RedrawStep
  <2>5. CASE ~online
    <3>1. UNCHANGED <<shellOwner, shellDirty, shellRecords, hostCatalog, crowded>>
      BY <1>7, <2>5 DEF RedrawStep
    <3> QED BY <2>1, <2>2, <2>3, <3>1 DEF ShellInv
  <2> QED BY <2>4, <2>5
<1>8. CASE GoOffline
  <2>1. UNCHANGED <<shellVars, cursorVars, vblankVars>> BY <1>8 DEF GoOffline
  <2> QED BY <2>1 DEF shellVars, cursorVars, vblankVars, ShellInv, CursorInv, VblankInv
<1>9. CASE GoOnline
  <2>1. desk' = desk /\ Dropped /\ cursorAt' = NoPointer /\ UNCHANGED vblankVars
    BY <1>9 DEF GoOnline, Selected
  <2>2. CursorInv' /\ VblankInv' BY <2>1 DEF vblankVars, CursorInv, VblankInv
  <2> QED BY <2>1, <2>2, DroppedStep
<1>10. CASE UNCHANGED redrawVars
  BY <1>10 DEF redrawVars, shellVars, cursorVars, vblankVars, ShellInv, CursorInv, VblankInv
<1> QED BY <1>1, <1>2, <1>3, <1>4, <1>5, <1>6, <1>7, <1>8, <1>9, <1>10 DEF RedrawNext, ShellNext

\* window_shell.c:38-128, cursor.c:37-54, InitOutput.c:798-807, 975-984: for
\* any number of shell windows, any table size and any clock, nothing the host
\* was told is out of date without a flag, and no client is notified early.
THEOREM NewsCorrect == RedrawSpec => []NewsIsPending
<1>1. RedrawInit => NewsInv
  <2> SUFFICES ASSUME RedrawInit PROVE NewsInv
    OBVIOUS
  <2>1. ShellInv BY EmptyCatalog DEF RedrawInit, ShellInv
  <2>2. CursorInv BY DEF RedrawInit, CursorInv
  <2>3. VblankInv BY DEF RedrawInit, VblankInv
  <2> QED BY <2>1, <2>2, <2>3 DEF NewsInv
<1>2. NewsInv => NewsIsPending
  BY DEF NewsInv, ShellInv, CursorInv, VblankInv, NewsIsPending
<1> QED BY <1>1, <1>2, NewsStep, PTL DEF RedrawSpec

-----------------------------------------------------------------------------
(* Placement: lorie/window_size.h, window_placement.h, window_outputs.c.    *)

\* Limits that some size satisfies.
Satisfiable == {b \in [min : 1..SizeLimit, max : 1..SizeLimit] : b.min <= b.max}

\* The dialogs there can be.
Dialogs == [x : Int, extent : 1..SizeLimit, mapped : BOOLEAN, considered : BOOLEAN]

\* The state of placement; a window that was never sized is as large as its
\* client made it.
PlacementType ==
    /\ mainWindow \in [x : Int, extent : 1..SizeLimit]
    /\ dialog \in Dialogs
    /\ limits \in Satisfiable
    /\ surface \in [proposal : Nat, owns : BOOLEAN, separated : BOOLEAN]
    /\ screen \in 1..ScreenLimit
    /\ prepared \in BOOLEAN

PlacementInv == PlacementType /\ PlacementIsSound

\* window_size.h:24-73: whatever a client sends amounts to limits that can be
\* satisfied.
LEMMA LimitsAreSatisfiable == ClientLimits \subseteq Satisfiable
<1> SUFFICES ASSUME NEW h \in Hints PROVE lorieWindowSizeHints(h) \in Satisfiable
  BY DEF ClientLimits
<1> USE PlacementAssumption
<1> DEFINE bounds == lorieWindowSizeAxis(h)
<1>1. Minimum(h) \in 1..SizeLimit BY DEF Minimum, Hints
<1>2. Maximum(h) \in 1..SizeLimit
  <2>1. h.max \in Int BY DEF Hints
  <2>2. Min({h.max, SizeLimit}) = (IF h.max <= SizeLimit THEN h.max ELSE SizeLimit)
    BY <2>1, MinOfTwo
  <2> QED BY <2>1, <2>2 DEF Maximum
<1>3. bounds \in Satisfiable BY <1>1, <1>2 DEF lorieWindowSizeAxis, Satisfiable
<1> HIDE DEF bounds
<1>4. bounds.max \in 1..SizeLimit /\ bounds.min \in 1..SizeLimit /\ bounds.min <= bounds.max
  BY <1>3 DEF Satisfiable
<1>5. Min({bounds.max, SizeLimit}) = bounds.max BY <1>4, MinOfTwo
<1>6. CASE "base" \in h.flags /\ "min" \notin h.flags /\ h.base \in 1..Min({bounds.max, SizeLimit})
  <2>1. lorieWindowSizeHints(h) = [bounds EXCEPT !.min = h.base]
    BY <1>6 DEF lorieWindowSizeHints, bounds
  <2>2. h.base \in 1..SizeLimit /\ h.base <= bounds.max BY <1>4, <1>5, <1>6
  <2> QED BY <1>3, <2>1, <2>2 DEF Satisfiable
<1>7. CASE ~("base" \in h.flags /\ "min" \notin h.flags /\ h.base \in 1..Min({bounds.max, SizeLimit}))
  <2>1. lorieWindowSizeHints(h) = bounds BY <1>7 DEF lorieWindowSizeHints, bounds
  <2> QED BY <1>3, <2>1
<1> QED BY <1>6, <1>7

\* window_outputs.c:392-399: the size proposed to the window is within limits.
LEMMA ProposedIsAllowed ==
    ASSUME PlacementType
    PROVE  Proposed \in limits.min..limits.max /\ Proposed \in 1..SizeLimit
<1> DEFINE inner == Min({limits.max, surface.proposal})
<1>1. /\ limits.min \in 1..SizeLimit /\ limits.max \in 1..SizeLimit /\ limits.min <= limits.max
      /\ surface.proposal \in Nat
  BY DEF PlacementType, Satisfiable
<1>2. inner = IF limits.max <= surface.proposal THEN limits.max ELSE surface.proposal
  BY <1>1, MinOfTwo
<1>3. Proposed = Max({limits.min, inner}) BY DEF Proposed
<1> HIDE DEF inner
<1>4. inner \in Int /\ inner <= limits.max BY <1>1, <1>2
<1>5. Proposed = IF limits.min <= inner THEN inner ELSE limits.min BY <1>1, <1>3, <1>4, MaxOfTwo
<1> QED BY <1>1, <1>4, <1>5, PlacementAssumption

\* window_placement.h:14-19: a placed transient is where it was wanted if that
\* is inside its owner, else at its owner's nearer end, and stays when it is
\* placed again.
LEMMA PlacedTransient ==
    ASSUME NEW x \in Int, NEW e \in Nat, NEW origin \in Int, NEW available \in Nat
    PROVE  LET r == loriePlaceTransientAxis(x, e, origin, available)
           IN  /\ r \in Int /\ r >= origin
               /\ r = origin \/ r + e <= origin + available
               /\ loriePlaceTransientAxis(r, e, origin, available) = r
BY DEF loriePlaceTransientAxis

\* window_outputs.c:378-417: where the family ends.
LEMMA EdgeOfFamily ==
    ASSUME NEW p \in [x : Int, extent : 1..SizeLimit],
           NEW d \in Dialogs
    PROVE  Edge(p, d) \in Int /\ Edge(p, d) >= p.x + p.extent
<1> USE PlacementAssumption
<1>1. p.x + p.extent \in Int /\ d.x + d.extent \in Int BY DEF Dialogs
<1>2. CASE d.mapped
  <2>1. Edge(p, d) = Max({p.x + p.extent, d.x + d.extent})
    <3>1. {p.x + p.extent} \cup {d.x + d.extent} = {p.x + p.extent, d.x + d.extent} OBVIOUS
    <3> QED BY <1>2, <3>1 DEF Edge
  <2> QED BY <1>1, <2>1, MaxOfTwo
<1>3. CASE ~d.mapped
  <2>1. Edge(p, d) = Max({p.x + p.extent, p.x + p.extent})
    <3>1. {p.x + p.extent} \cup {} = {p.x + p.extent, p.x + p.extent} OBVIOUS
    <3> QED BY <1>3, <3>1 DEF Edge
  <2> QED BY <1>1, <2>1, MaxOfTwo
<1> QED BY <1>2, <1>3

\* window_outputs.c:378-417, InitOutput.c:699-728: the canvas grows to the edge if it
\* can be that large, and does not grow again.
LEMMA GrownCanvas ==
    ASSUME NEW room \in 1..ScreenLimit, NEW edge \in Int
    PROVE  LET s == lorieConfigureNotify(room, Max({room, edge}))
           IN  /\ s \in 1..ScreenLimit
               /\ edge <= ScreenLimit => edge <= s
               /\ lorieConfigureNotify(s, Max({s, edge})) = s
<1> USE PlacementAssumption
<1> DEFINE s == lorieConfigureNotify(room, Max({room, edge}))
<1>1. Max({room, edge}) = IF room <= edge THEN edge ELSE room BY MaxOfTwo
<1>2. s = IF room <= edge /\ edge <= ScreenLimit THEN edge ELSE room
  BY <1>1 DEF lorieConfigureNotify
<1>3. s \in 1..ScreenLimit BY <1>2
<1> HIDE DEF s
<1>4. Max({s, edge}) = IF s <= edge THEN edge ELSE s BY <1>3, MaxOfTwo
<1>5. lorieConfigureNotify(s, Max({s, edge})) = s
  BY <1>2, <1>3, <1>4 DEF lorieConfigureNotify
<1> QED BY <1>2, <1>3, <1>5 DEF s

\* window_placement.h:10-12: centring moves a position, no more.
LEMMA CentredTransient ==
    ASSUME NEW e \in Nat, NEW origin \in Int, NEW available \in Nat
    PROVE  lorieCenterTransientAxis(e, origin, available) \in Int
BY DEF lorieCenterTransientAxis

\* window_outputs.c:344-376: the dialog after its placement, which places it
\* for good.
LEMMA PlacedDialog ==
    ASSUME NEW p \in [x : Nat, extent : 1..SizeLimit], NEW d \in Dialogs, NEW unplaced \in BOOLEAN
    PROVE  LET t == placeTransient(p, d, unplaced)
           IN  /\ t \in Dialogs /\ t.mapped = d.mapped /\ t.considered /\ t.x >= 0
               /\ ~surface.separated => \/ t.x = p.x
                                        \/ t.x > p.x /\ t.x + t.extent <= p.x + p.extent
               /\ placeTransient(p, t, FALSE) = t
<1> USE PlacementAssumption
<1> DEFINE x == IF lorieWindowInitialDialogParent(d, unplaced)
                THEN lorieCenterTransientAxis(d.extent, p.x, p.extent) ELSE d.x
           y == IF surface.separated THEN Max({0, x})
                ELSE loriePlaceTransientAxis(x, d.extent, p.x, p.extent)
           t == placeTransient(p, d, unplaced)
<1>1. d.extent \in Nat /\ p.extent \in Nat /\ p.x \in Nat /\ p.x \in Int /\ d.x \in Int
  BY DEF Dialogs
<1>2. x \in Int BY <1>1, CentredTransient
<1>3. t = [d EXCEPT !.considered = TRUE, !.x = y] BY DEF placeTransient
<1> HIDE DEF x
<1>4. Max({0, x}) = IF 0 <= x THEN x ELSE 0 BY <1>2, MaxOfTwo
<1>5. /\ loriePlaceTransientAxis(x, d.extent, p.x, p.extent) \in Int
      /\ loriePlaceTransientAxis(x, d.extent, p.x, p.extent) >= p.x
      /\ \/ loriePlaceTransientAxis(x, d.extent, p.x, p.extent) = p.x
         \/ loriePlaceTransientAxis(x, d.extent, p.x, p.extent) + d.extent <= p.x + p.extent
      /\ loriePlaceTransientAxis(loriePlaceTransientAxis(x, d.extent, p.x, p.extent),
                                 d.extent, p.x, p.extent)
           = loriePlaceTransientAxis(x, d.extent, p.x, p.extent)
  BY ONLY <1>1, <1>2, PlacedTransient, Zenon
<1>6. y \in Int /\ y >= 0 BY <1>1, <1>2, <1>4, <1>5
<1>7. ~surface.separated => y = p.x \/ (y > p.x /\ y + d.extent <= p.x + p.extent)
  BY <1>1, <1>5
<1>8. y = IF surface.separated THEN Max({0, y})
          ELSE loriePlaceTransientAxis(y, d.extent, p.x, p.extent)
  <2>1. Max({0, y}) = y
    <3> HIDE DEF y
    <3> QED BY <1>6, MaxOfTwo
  <2>2. ~surface.separated => loriePlaceTransientAxis(y, d.extent, p.x, p.extent) = y BY <1>5
  <2> HIDE DEF y
  <2> QED BY <2>1, <2>2
<1> HIDE DEF y, t
<1>9. /\ t \in Dialogs /\ t.x = y /\ t.extent = d.extent /\ t.mapped = d.mapped /\ t.considered = TRUE
  BY <1>3, <1>6 DEF Dialogs
<1>10. placeTransient(p, t, FALSE) = [t EXCEPT !.considered = TRUE, !.x = y]
  BY <1>8, <1>9 DEF placeTransient, lorieWindowInitialDialogParent
<1>11. [t EXCEPT !.considered = TRUE, !.x = y] = t BY <1>9 DEF Dialogs
<1> QED BY <1>6, <1>7, <1>9, <1>10, <1>11 DEF t

\* window_outputs.c:344-417: what one redraw arranges, the next leaves alone.
LEMMA PrepareStep ==
    ASSUME PlacementType, Prepare
    PROVE  PlacementInv'
<1> USE PlacementAssumption
<1>1. PICK unplaced \in BOOLEAN :
        LET r == Arranged(mainWindow, dialog, unplaced, screen)
        IN  mainWindow' = r.main /\ dialog' = r.dialog /\ screen' = r.screen
  BY DEF Prepare
<1>2. limits' = limits /\ surface' = surface /\ prepared' = TRUE BY DEF Prepare
<1> DEFINE p == [x |-> Max({0, mainWindow.x}),
                 extent |-> IF surface.owns THEN Proposed ELSE mainWindow.extent]
           t == IF dialog.mapped THEN placeTransient(p, dialog, unplaced) ELSE dialog
           edge == Edge(p, t)
           s == lorieConfigureNotify(screen, Max({screen, edge}))
<1>3. mainWindow' = p /\ dialog' = t /\ screen' = s BY <1>1 DEF Arranged
<1>4. /\ p \in [x : Nat, extent : 1..SizeLimit]
      /\ p.x = Max({0, p.x}) /\ p.extent = (IF surface.owns THEN Proposed ELSE p.extent)
      /\ surface.owns => p.extent \in limits.min..limits.max
  <2>1. mainWindow.x \in Int /\ mainWindow.extent \in 1..SizeLimit BY DEF PlacementType
  <2>2. Max({0, mainWindow.x}) \in Nat BY <2>1, MaxOfTwo
  <2>3. p.x \in Nat /\ p.extent \in 1..SizeLimit BY <2>1, <2>2, ProposedIsAllowed
  <2>4. p \in [x : Nat, extent : 1..SizeLimit] BY <2>3
  <2>5. p.extent = (IF surface.owns THEN Proposed ELSE p.extent) OBVIOUS
  <2>6. surface.owns => p.extent \in limits.min..limits.max BY ProposedIsAllowed
  <2> HIDE DEF p
  <2>7. p.x = Max({0, p.x}) BY <2>3, MaxOfTwo
  <2> QED BY <2>4, <2>5, <2>6, <2>7
<1>5. dialog \in Dialogs BY DEF PlacementType, Dialogs
<1> HIDE DEF p
<1>6. /\ t \in Dialogs
      /\ t.mapped => /\ t.x >= 0
                     /\ \/ surface.separated \/ t.x = p.x
                        \/ t.x > p.x /\ t.x + t.extent <= p.x + p.extent
      /\ t = IF t.mapped THEN placeTransient(p, t, FALSE) ELSE t
  <2>1. CASE dialog.mapped
    <3> DEFINE u == placeTransient(p, dialog, unplaced)
    <3>1. /\ u \in Dialogs /\ u.mapped = dialog.mapped /\ u.x >= 0
          /\ ~surface.separated => u.x = p.x \/ (u.x > p.x /\ u.x + u.extent <= p.x + p.extent)
          /\ placeTransient(p, u, FALSE) = u
      BY <1>4, <1>5, PlacedDialog
    <3>2. t = u BY <2>1
    <3> HIDE DEF u, t
    <3> QED BY <3>1, <3>2
  <2>2. CASE ~dialog.mapped
    <3>1. t = dialog BY <2>2
    <3> HIDE DEF t
    <3> QED BY <1>5, <2>2, <3>1
  <2> QED BY <2>1, <2>2
<1> HIDE DEF t
<1>7. edge \in Int BY <1>4, <1>6, EdgeOfFamily DEF Dialogs
<1> HIDE DEF edge
<1>8. /\ s \in 1..ScreenLimit /\ (edge <= ScreenLimit => edge <= s)
      /\ lorieConfigureNotify(s, Max({s, edge})) = s
  BY <1>7, GrownCanvas DEF PlacementType
<1> HIDE DEF s
<1>9. PlacementType'
  BY <1>2, <1>3, <1>4, <1>6, <1>8 DEF PlacementType, Dialogs
<1>10. Proposed' = Proposed BY <1>2 DEF Proposed
<1>11. FamilyIsReachable'
  <2>1. Edge(mainWindow, dialog)' = edge BY <1>3 DEF Edge, edge
  <2> QED BY <1>2, <1>3, <1>4, <1>6, <1>8, <2>1 DEF FamilyIsReachable
<1>12. PlacementSettles'
  <2>1. p = [x |-> Max({0, p.x}), extent |-> IF surface.owns THEN Proposed ELSE p.extent]
    BY <1>4
  <2>2. Arranged(p, t, FALSE, s) = [main |-> p, dialog |-> t, screen |-> s]
    BY <1>6, <1>8, <2>1 DEF Arranged, edge
  <2>3. Arranged(mainWindow, dialog, FALSE, screen)' = Arranged(p, t, FALSE, s)
    BY <1>2, <1>3, <1>10 DEF Arranged, placeTransient
  <2> QED BY <1>3, <2>2, <2>3 DEF PlacementSettles
<1> QED BY <1>9, <1>11, <1>12 DEF PlacementInv, PlacementIsSound

\* window_placement.h: a dialog that is not mapped is one.
LEMMA HiddenIsDialog == Hidden \in Dialogs
BY PlacementAssumption DEF Hidden, Dialogs

\* window_outputs.c:344-417, window_placement.h, window_size.h: for any sizes,
\* positions, hints and proposals one redraw is enough and leaves the window
\* and its dialog within reach.
THEOREM PlacementCorrect == PlacementSpec => []PlacementIsSound
<1> USE PlacementAssumption
<1>1. PlacementInit => PlacementInv
  <2> SUFFICES ASSUME PlacementInit PROVE PlacementInv
    OBVIOUS
  <2>1. mainWindow \in [x : Int, extent : 1..SizeLimit] BY DEF PlacementInit
  <2>2. dialog \in Dialogs BY HiddenIsDialog DEF PlacementInit
  <2>3. limits \in Satisfiable BY DEF PlacementInit, Satisfiable
  <2>4. surface \in [proposal : Nat, owns : BOOLEAN, separated : BOOLEAN] BY DEF PlacementInit
  <2>5. screen \in 1..ScreenLimit /\ prepared = FALSE BY DEF PlacementInit
  <2> QED BY <2>1, <2>2, <2>3, <2>4, <2>5
          DEF PlacementInv, PlacementType, PlacementIsSound, PlacementSettles, FamilyIsReachable
<1>2. PlacementInv /\ [PlacementNext]_placementVars => PlacementInv'
  <2> SUFFICES ASSUME PlacementInv, [PlacementNext]_placementVars PROVE PlacementInv'
    OBVIOUS
  <2>1. PlacementType BY DEF PlacementInv
  <2>2. CASE Prepare BY <2>1, <2>2, PrepareStep
  <2>3. (PlacementType /\ ~prepared)' => PlacementInv'
    BY DEF PlacementInv, PlacementIsSound, PlacementSettles, FamilyIsReachable
  <2>4. CASE ConfigureMain
    <3>1. mainWindow' \in [x : Int, extent : 1..SizeLimit] BY <2>4 DEF ConfigureMain
    <3> QED BY <2>1, <2>3, <2>4, <3>1 DEF ConfigureMain, PlacementType
  <2>5. CASE ConfigureDialog
    <3>1. dialog' \in Dialogs BY <2>1, <2>5 DEF ConfigureDialog, PlacementType, Dialogs
    <3> QED BY <2>1, <2>3, <2>5, <3>1 DEF ConfigureDialog, PlacementType
  <2>6. CASE MapDialog
    <3>1. CASE ~dialog.mapped
      BY <2>1, <2>3, <2>6, <3>1 DEF MapDialog, PlacementType, Dialogs
    <3>2. CASE dialog.mapped
      <4>1. dialog' = [Hidden EXCEPT !.considered = dialog.considered] BY <2>6, <3>2 DEF MapDialog
      <4>2. dialog.considered \in BOOLEAN BY <2>1 DEF PlacementType, Dialogs
      <4>3. dialog' \in Dialogs BY <4>1, <4>2, HiddenIsDialog DEF Dialogs
      <4> QED BY <2>1, <2>3, <2>6, <4>3 DEF MapDialog, PlacementType
    <3> QED BY <3>1, <3>2
  <2>7. CASE SetHints
    <3>1. limits' \in Satisfiable BY <2>7, LimitsAreSatisfiable DEF SetHints
    <3>2. surface' \in [proposal : Nat, owns : BOOLEAN, separated : BOOLEAN]
      BY <2>1, <2>7 DEF SetHints, PlacementType, Proposals
    <3> QED BY <2>1, <2>3, <2>7, <3>1, <3>2 DEF SetHints, PlacementType
  <2>8. CASE ResizeSurface
    <3>1. PICK e \in Proposals : surface' = [surface EXCEPT !.proposal = e, !.owns = TRUE]
      BY <2>8 DEF ResizeSurface
    <3>2. e \in Nat BY DEF Proposals
    <3>3. surface' \in [proposal : Nat, owns : BOOLEAN, separated : BOOLEAN]
      BY <2>1, <3>1, <3>2 DEF PlacementType
    <3> QED BY <2>1, <2>3, <2>8, <3>3 DEF ResizeSurface, PlacementType
  <2>9. CASE LoseSize BY <2>1, <2>3, <2>9 DEF LoseSize, PlacementType
  <2>10. CASE Separate BY <2>1, <2>3, <2>10 DEF Separate, PlacementType
  <2>11. CASE ResizeScreen BY <2>1, <2>3, <2>11 DEF ResizeScreen, PlacementType
  <2>12. CASE UNCHANGED placementVars
    BY <2>12 DEF placementVars, PlacementInv, PlacementType, PlacementIsSound, PlacementSettles,
                 FamilyIsReachable, Arranged, placeTransient, Proposed, Edge
  <2> QED BY <2>2, <2>4, <2>5, <2>6, <2>7, <2>8, <2>9, <2>10, <2>11, <2>12 DEF PlacementNext
<1> QED BY <1>1, <1>2, PTL DEF PlacementSpec, PlacementInv

-----------------------------------------------------------------------------
(* Frames: lorie/window_outputs.c, renderer_outputs.cpp.                    *)

Layers == Pictured \X Int

LayerSets == SUBSET Layers

Flags == BOOLEAN

\* The state of frames.
Selections == [window : Pictured \cup {"none"}, parent : Views \cup {NoView}, changed : BOOLEAN,
               seen : BOOLEAN, dead : BOOLEAN, pending : BOOLEAN, published : BOOLEAN,
               layers : SUBSET Layers, revision : Nat, presentation : Nat]

WindowImages == [pixmap : Int, changed : BOOLEAN, damaged : BOOLEAN, redirected : BOOLEAN, there : BOOLEAN]

Windows == [alive : BOOLEAN, mapped : BOOLEAN, redirected : BOOLEAN, place : Int, pixmap : Int]

Records == [revision : Nat, layers : SUBSET Layers, skipped : SUBSET Layers, presentation : Nat,
            family : SUBSET Layers, binding : Nat, drawn : Nat, picture : SUBSET Layers,
            shows : Nat, stale : SUBSET Pictured]

FramesType ==
    /\ views \in [Views -> Selections]
    /\ images \in [Pictured -> WindowImages]
    /\ pane \in [Panes -> Windows]
    /\ bindings \in [Views -> Nat]
    /\ record \in [Views -> Records]

\* The pixmap of its own that a window has.
Current(w) == IF w = "screen" THEN ScreenPixmap
              ELSE IF pane[w].redirected THEN pane[w].pixmap ELSE NoPixmap

\* Only a window that exists is mapped, and Composite gives it a pixmap then.
PanesInv ==
    \A w \in Panes : /\ pane[w].mapped => pane[w].alive
                     /\ pane[w].mapped /\ pane[w].redirected => pane[w].pixmap # NoPixmap

\* An image that is not marked watches the pixmap its window draws to.
ImagesInv ==
    \A w \in Pictured :
        images[w].there /\ ~images[w].changed =>
            /\ images[w].pixmap = Current(w)
            /\ w \in Panes => (pane[w].redirected => pane[w].mapped)

\* Pixels of w that no publication since has announced.
Old(w) == ~images[w].there \/ images[w].changed \/ images[w].damaged

\* What the renderer has of an output that is not marked is what was last sent.
SentInv(o) ==
    ~views[o].changed =>
        /\ views[o].layers = record[o].layers \cup record[o].skipped
        /\ record[o].presentation = views[o].presentation
        /\ record[o].binding = bindings[o]

\* Frames of a binding are numbered upwards.
NumbersInv(o) ==
    /\ record[o].binding <= bindings[o] /\ record[o].shows <= bindings[o]
    /\ Bound(o) =>
         /\ record[o].binding = bindings[o] => record[o].revision = views[o].revision
         /\ record[o].shows = bindings[o] => record[o].drawn <= views[o].revision

\* A picture that is not about to be replaced is the frame, but for windows
\* whose images are marked.
PictureInv(o) ==
    /\ record[o].stale \subseteq {l[1] : l \in record[o].picture}
    /\ Bound(o) /\ ~views[o].changed =>
         \/ record[o].drawn # record[o].revision
         \/ record[o].shows # record[o].binding
         \/ record[o].picture = record[o].layers /\ \A w \in record[o].stale : Old(w)

\* A dependent output belongs to a window, an output whose window was there
\* and is gone is dead, and the geometry of a live family is told or pending.
FamilyInv(o) ==
    Bound(o) =>
        /\ Borrows(o) => views[o].window \in Panes
        /\ views[o].seen /\ ~views[o].dead => Exists(views[o].window)
        /\ Borrows(o) /\ ~views[o].pending /\ views[o].published /\ ~views[o].dead =>
             record[o].family = FamilyGeometry(o, FALSE)

OutputInv(o) == (Bound(o) => SentInv(o)) /\ NumbersInv(o) /\ PictureInv(o) /\ FamilyInv(o)

FramesInv ==
    /\ FramesType /\ PanesInv /\ ImagesInv
    /\ \A o \in Views : OutputInv(o)

-----------------------------------------------------------------------------

\* Two windows leave one of three addresses free.
LEMMA AddressIsFree == ASSUME FramesType PROVE Address \in 1..3
<1> DEFINE S == {a \in 1..3 : \A w \in Panes : pane[w].pixmap # a}
<1>1. pane["app"].pixmap \in Int /\ pane["popup"].pixmap \in Int BY DEF FramesType, Panes, Windows
<1>2. S = {a \in 1..3 : pane["app"].pixmap # a /\ pane["popup"].pixmap # a} BY DEF Panes
<1>3. 1 \in S \/ 2 \in S \/ 3 \in S BY <1>1, <1>2
<1> HIDE DEF S
<1>4. S \subseteq 1..3 BY <1>2
<1>5. \E m \in S : \A y \in S : m <= y
  <2>1. CASE 1 \in S BY <1>4, <2>1
  <2>2. CASE 1 \notin S /\ 2 \in S
    <3>1. \A y \in S : 2 <= y BY <1>4, <2>2
    <3> QED BY <2>2, <3>1
  <2>3. CASE 1 \notin S /\ 2 \notin S
    <3>1. 3 \in S /\ \A y \in S : 3 <= y BY <1>3, <1>4, <2>3
    <3> QED BY <3>1
  <2> QED BY <2>1, <2>2, <2>3
<1>6. Min(S) \in S BY <1>5, Zenon DEF Min
<1> QED BY <1>4, <1>6 DEF Address, S

\* window_outputs.c:127-131: geometry is marked and nothing else.
LEMMA GeometryTypes == ASSUME FramesType PROVE GeometryChanged(views) \in [Views -> Selections]
<1>1. ASSUME NEW o \in Views PROVE [views[o] EXCEPT !.pending = TRUE] \in Selections
  BY DEF FramesType, Selections
<1>2. \A o \in Views : views[o] \in Selections BY DEF FramesType
<1> HIDE DEF Selections
<1> QED BY <1>1, <1>2 DEF GeometryChanged

\* window_outputs.c:154-169: what is left of the outputs when one is released.
LEMMA FreedTypes == ASSUME FramesType, NEW o \in Views PROVE Freed(o) \in [Views -> Selections]
<1>1. ASSUME NEW v \in Views
      PROVE  /\ [views[v] EXCEPT !.changed = TRUE, !.pending = TRUE] \in Selections
             /\ [views[v] EXCEPT !.dead = TRUE, !.changed = TRUE] \in Selections
             /\ views[v] \in Selections
  BY DEF FramesType, Selections
<1>2. NoSelection \in Selections BY DEF NoSelection, Selections
<1> QED BY <1>1, <1>2 DEF Freed

\* window_outputs.c:147-152: an image whose pixmap is freed is marked.
LEMMA DestroyedImages ==
    ASSUME FramesType, NEW a
    PROVE  /\ damageDestroyed(a) \in [Pictured -> WindowImages]
           /\ \A w \in Pictured :
                \/ damageDestroyed(a)[w] = images[w] /\ (images[w].pixmap # a \/ a = NoPixmap)
                \/ damageDestroyed(a)[w].changed /\ damageDestroyed(a)[w].there = images[w].there
<1> DEFINE Gone(w) == [images[w] EXCEPT !.pixmap = NoPixmap, !.damaged = FALSE, !.changed = TRUE]
<1>1. ASSUME NEW w \in Pictured
      PROVE  images[w] \in WindowImages /\ Gone(w) \in WindowImages
  <2>1. images[w] \in WindowImages BY DEF FramesType
  <2> DEFINE i == [images[w] EXCEPT !.pixmap = 0]
             j == [i EXCEPT !.damaged = FALSE]
  <2>2. Gone(w) = [j EXCEPT !.changed = TRUE] BY DEF NoPixmap
  <2>3. i \in WindowImages BY <2>1 DEF WindowImages
  <2> HIDE DEF i
  <2>4. j \in WindowImages BY <2>3 DEF WindowImages
  <2> HIDE DEF j
  <2>5. [j EXCEPT !.changed = TRUE] \in WindowImages BY <2>4 DEF WindowImages
  <2> QED BY <2>1, <2>2, <2>5
<1>2. ASSUME NEW w \in Pictured
      PROVE  Gone(w).changed = TRUE /\ Gone(w).there = images[w].there
  <2>1. images[w] \in WindowImages BY <1>1
  <2> QED BY <2>1 DEF WindowImages
<1>3. \A w \in Pictured : damageDestroyed(a)[w] = IF images[w].pixmap = a /\ a # NoPixmap THEN Gone(w) ELSE images[w]
  BY DEF damageDestroyed
<1>4. damageDestroyed(a) = [w \in Pictured |-> damageDestroyed(a)[w]] BY DEF damageDestroyed
<1> HIDE DEF Gone
<1>5. damageDestroyed(a) \in [Pictured -> WindowImages] BY <1>1, <1>3, <1>4
<1> QED BY <1>2, <1>3, <1>5

-----------------------------------------------------------------------------

\* A step that tells the renderer nothing keeps an output's bookkeeping if
\* it keeps what was sent, or marks the output, and forgets no old pixels.
LEMMA QuietStep ==
    ASSUME NEW o \in Views, OutputInv(o), record' = record, bindings'[o] = bindings[o],
           \A w \in Pictured : Old(w) => Old(w)',
           record[o].stale \subseteq Pictured,
           Bound(o)' => /\ Bound(o) /\ views'[o].revision = views[o].revision
                        /\ ~views'[o].changed => /\ ~views[o].changed
                                                 /\ views'[o].layers = views[o].layers
                                                 /\ views'[o].presentation = views[o].presentation
    PROVE  (Bound(o)' => SentInv(o)') /\ NumbersInv(o)' /\ PictureInv(o)'
<1> USE DEF OutputInv
<1>1. Bound(o)' => SentInv(o)' BY DEF SentInv
<1>2. NumbersInv(o)' BY DEF NumbersInv
<1>3. PictureInv(o)'
  <2>1. \A w \in record[o].stale : Old(w) => Old(w)' OBVIOUS
  <2> QED BY <2>1 DEF PictureInv
<1> QED BY <1>1, <1>2, <1>3

\* window_family_geometry.c:13-50: the geometry told of an output's dependents is that
\* of the mapped windows of a live family.
LEMMA GeometryKept ==
    ASSUME NEW o \in Views, Borrows(o), views[o].window \in Panes,
           views'[o].window = views[o].window, views'[o].parent = views[o].parent,
           views'[o].dead <=> views[o].dead,
           \A w \in Panes : /\ pane'[w].mapped = pane[w].mapped /\ pane'[w].place = pane[w].place
                            /\ pane[w].mapped => pane[w].alive /\ pane'[w].alive
    PROVE  FamilyGeometry(o, FALSE)' = FamilyGeometry(o, FALSE)
<1> DEFINE w == views[o].window
           members == {v \in Family(w) \ {w} : v \in Panes /\ pane[v].mapped}
<1>1. Borrows(o)' BY DEF Borrows
<1>2. Family(w) \subseteq Panes BY DEF Family
<1>3. Members(o) = IF views[o].dead \/ ~pane[w].mapped THEN {} ELSE members
  <2>1. (~Exists(w) \/ ~Realized(w)) <=> ~pane[w].mapped BY DEF Exists, Realized, Panes
  <2>2. {v \in Family(w) \ {w} : Realized(v)} = members
    BY <1>2 DEF Realized, Panes
  <2> QED BY <2>1, <2>2 DEF Members
<1>4. Members(o)' = IF views[o].dead \/ ~pane[w].mapped THEN {} ELSE members
  <2>1. (~Exists(w)' \/ ~Realized(w)') <=> ~pane[w].mapped BY DEF Exists, Realized, Panes
  <2>2. {v \in Family(w) \ {w} : Realized(v)'} = members
    BY <1>2 DEF Realized, Panes
  <2> QED BY <1>1, <2>1, <2>2 DEF Members
<1>5. Members(o)' = Members(o) /\ Members(o) \subseteq Panes BY <1>3, <1>4
<1> QED BY <1>5 DEF FamilyGeometry

\* window_outputs.c:127-131: with every change of geometry the families are
\* to be told of again.
LEMMA GeometryStep ==
    ASSUME FramesInv, FramesType', views' = GeometryChanged(views), record' = record, bindings' = bindings,
           \A w \in Pictured : Old(w) => Old(w)',
           \A w \in Panes : pane'[w].alive = pane[w].alive
    PROVE  \A o \in Views : OutputInv(o)'
<1> SUFFICES ASSUME NEW o \in Views PROVE OutputInv(o)'
  OBVIOUS
<1>1. OutputInv(o) /\ views[o] \in Selections /\ record[o].stale \subseteq Pictured
  BY DEF FramesInv, FramesType, Records
<1>2. /\ views'[o].window = views[o].window /\ views'[o].revision = views[o].revision
      /\ views'[o].changed = views[o].changed /\ views'[o].layers = views[o].layers
      /\ views'[o].presentation = views[o].presentation /\ views'[o].parent = views[o].parent
      /\ views'[o].seen = views[o].seen /\ views'[o].dead = views[o].dead
      /\ Bound(o) /\ views[o].window # "screen" => views'[o].pending
  BY <1>1 DEF GeometryChanged, Selections
<1>3. (Bound(o)' => SentInv(o)') /\ NumbersInv(o)' /\ PictureInv(o)'
  BY <1>1, <1>2, QuietStep DEF Bound
<1>4. FamilyInv(o)'
  <2>1. FamilyInv(o) BY <1>1 DEF OutputInv
  <2>2. Bound(o)' <=> Bound(o) BY <1>2 DEF Bound
  <2>3. Borrows(o)' <=> Borrows(o) BY <1>2 DEF Borrows
  <2>4. Exists(views[o].window)' <=> Exists(views[o].window) BY <1>2 DEF Exists
  <2>5. "screen" \notin Panes BY DEF Panes
  <2> QED BY <1>2, <2>1, <2>2, <2>3, <2>4, <2>5 DEF FamilyInv, Exists
<1> QED BY <1>3, <1>4 DEF OutputInv

\* Drawing: what is drawn to a pixmap with an image marks the image.
LEMMA PaintStep ==
    ASSUME FramesInv, NEW w \in Pictured, Paint(w)
    PROVE  FramesInv'
<1> DEFINE target == PixmapOf(w)
           shown == IF target = ScreenPixmap THEN "screen" ELSE w
           hit == images[shown].damaged \/ images[shown].pixmap = target
<1>1. /\ images' = [images EXCEPT ![shown].damaged = hit]
      /\ record' = Aged(shown)
      /\ views' = views /\ pane' = pane /\ bindings' = bindings
  BY DEF Paint
<1>2. FramesType /\ PanesInv /\ ImagesInv /\ \A o \in Views : OutputInv(o) BY DEF FramesInv
<1>3. shown \in Pictured BY DEF Pictured
<1>4. target = Current(shown)
  <2>1. CASE w = "screen" BY <2>1 DEF PixmapOf, Current
  <2>2. CASE w # "screen"
    <3>1. w \in Panes /\ pane[w].mapped BY <2>2 DEF Paint, Pictured
    <3> QED BY <2>2, <3>1 DEF PixmapOf, Current
  <2> QED BY <2>1, <2>2
<1> HIDE DEF shown, target
<1>5. hit \in BOOLEAN BY <1>2, <1>3 DEF FramesType, WindowImages
<1>6. hit \/ ~images[shown].there \/ images[shown].changed
  BY <1>2, <1>3, <1>4 DEF ImagesInv
<1> HIDE DEF hit
<1>7. /\ images'[shown] = [images[shown] EXCEPT !.damaged = hit]
      /\ \A v \in Pictured : v # shown => images'[v] = images[v]
      /\ images' \in [Pictured -> WindowImages]
  BY <1>1, <1>2, <1>3, <1>5 DEF FramesType, WindowImages
<1>8. /\ images'[shown].there = images[shown].there /\ images'[shown].changed = images[shown].changed
      /\ images'[shown].damaged = hit /\ images'[shown].pixmap = images[shown].pixmap
  BY <1>2, <1>3, <1>7 DEF FramesType, WindowImages
<1>9. \A v \in Pictured : v = shown => Old(v)' BY <1>6, <1>8 DEF Old
<1>10. \A v \in Pictured : Old(v) => Old(v)' BY <1>7, <1>9 DEF Old
<1>11. ASSUME NEW o \in Views
       PROVE  /\ record'[o] \in Records
              /\ record'[o].revision = record[o].revision /\ record'[o].layers = record[o].layers
              /\ record'[o].skipped = record[o].skipped /\ record'[o].presentation = record[o].presentation
              /\ record'[o].family = record[o].family /\ record'[o].binding = record[o].binding
              /\ record'[o].drawn = record[o].drawn /\ record'[o].picture = record[o].picture
              /\ record'[o].shows = record[o].shows
              /\ \/ record'[o].stale = record[o].stale
                 \/ /\ shown \in {l[1] : l \in record[o].picture}
                    /\ record'[o].stale = record[o].stale \cup {shown}
  <2>1. record[o] \in Records BY <1>2 DEF FramesType
  <2>2. record'[o] = IF shown \in {l[1] : l \in record[o].picture}
                     THEN [record[o] EXCEPT !.stale = record[o].stale \cup {shown}] ELSE record[o]
    BY <1>1 DEF Aged
  <2> QED BY <1>3, <2>1, <2>2 DEF Records
<1>12. record' \in [Views -> Records]
  <2>1. record' = [o \in Views |-> record'[o]] BY <1>1 DEF Aged
  <2> QED BY <1>11, <2>1
<1>13. FramesType' BY <1>1, <1>2, <1>7, <1>12 DEF FramesType
<1>14. PanesInv' BY <1>1, <1>2 DEF PanesInv
<1>15. ImagesInv'
  <2>1. \A v \in Pictured : Current(v)' = Current(v) BY <1>1 DEF Current
  <2> QED BY <1>1, <1>2, <1>7, <1>8, <2>1 DEF ImagesInv
<1>16. ASSUME NEW o \in Views PROVE OutputInv(o)'
  <2>1. OutputInv(o) /\ record[o].stale \subseteq Pictured BY <1>2 DEF FramesType, Records
  <2>2. Bound(o)' <=> Bound(o) BY <1>1 DEF Bound
  <2>3. Bound(o)' => SentInv(o)' BY <1>1, <1>11, <2>1, <2>2 DEF OutputInv, SentInv
  <2>4. NumbersInv(o)' BY <1>1, <1>11, <2>1, <2>2 DEF OutputInv, NumbersInv
  <2>5. PictureInv(o)'
    <3>1. PictureInv(o) BY <2>1 DEF OutputInv
    <3>2. \A v \in record[o].stale : Old(v) => Old(v)' BY <1>10, <2>1
    <3>3. \A v \in record'[o].stale : v \in record[o].stale \/ (v = shown /\ Old(v)')
      BY <1>3, <1>9, <1>11
    <3>4. record'[o].stale \subseteq {l[1] : l \in record'[o].picture}
      BY <1>11, <3>1 DEF PictureInv
    <3>5. (\A v \in record[o].stale : Old(v)) => \A v \in record'[o].stale : Old(v)'
      BY <3>2, <3>3
    <3> QED BY <1>1, <1>11, <2>2, <3>1, <3>4, <3>5 DEF PictureInv
  <2>6. FamilyInv(o)'
    <3>1. FamilyInv(o) BY <2>1 DEF OutputInv
    <3>2. FamilyGeometry(o, FALSE)' = FamilyGeometry(o, FALSE)
      BY <1>1 DEF FamilyGeometry, Members, Exists, Realized, Borrows, Separated, Bound
    <3> QED BY <1>1, <1>11, <2>2, <3>1, <3>2 DEF FamilyInv, Borrows, Exists
  <2> QED BY <2>3, <2>4, <2>5, <2>6 DEF OutputInv
<1> QED BY <1>13, <1>14, <1>15, <1>16 DEF FramesInv

\* RealizeWindow: a window that was redirected while it was unmapped gets a
\* pixmap that no image has.
LEMMA MapStep ==
    ASSUME FramesInv, NEW w \in Panes, Map(w)
    PROVE  FramesInv'
<1>1. /\ views' = GeometryChanged(views) /\ images' = images /\ bindings' = bindings /\ record' = record
      /\ pane[w].alive /\ ~pane[w].mapped
      /\ \/ pane[w].redirected /\ pane' = [pane EXCEPT ![w].mapped = TRUE, ![w].pixmap = Address]
         \/ ~pane[w].redirected /\ pane' = [pane EXCEPT ![w].mapped = TRUE]
  BY DEF Map
<1>2. FramesType /\ PanesInv /\ ImagesInv BY DEF FramesInv
<1>3. Address \in 1..3 BY <1>2, AddressIsFree
<1> DEFINE a == Address
<1> HIDE DEF a
<1>4. /\ pane' \in [Panes -> Windows]
      /\ \A v \in Panes : v # w => pane'[v] = pane[v]
      /\ pane'[w].alive = pane[w].alive /\ pane'[w].redirected = pane[w].redirected
      /\ pane[w].redirected => pane'[w].pixmap \in 1..3
  <2>1. a \in 1..3 BY <1>3 DEF a
  <2>2. \/ pane[w].redirected /\ pane' = [pane EXCEPT ![w].mapped = TRUE, ![w].pixmap = a]
        \/ ~pane[w].redirected /\ pane' = [pane EXCEPT ![w].mapped = TRUE]
    BY <1>1 DEF a
  <2> DEFINE u == [pane[w] EXCEPT !.mapped = TRUE]
             q == [u EXCEPT !.pixmap = a]
  <2>3. pane[w] \in Windows /\ pane \in [Panes -> Windows] BY <1>2 DEF FramesType
  <2>4. \/ pane[w].redirected /\ pane' = [pane EXCEPT ![w] = q]
        \/ ~pane[w].redirected /\ pane' = [pane EXCEPT ![w] = u]
    BY <2>2, <2>3
  <2>5. u \in Windows /\ u.alive = pane[w].alive /\ u.redirected = pane[w].redirected
    BY <2>3 DEF Windows
  <2> HIDE DEF u
  <2>6. q \in Windows /\ q.alive = u.alive /\ q.redirected = u.redirected /\ q.pixmap = a
    BY <2>1, <2>5 DEF Windows
  <2> HIDE DEF q
  <2> QED BY <2>1, <2>3, <2>4, <2>5, <2>6
<1>5. FramesType' BY <1>1, <1>2, <1>4, GeometryTypes DEF FramesType
<1>6. PanesInv'
  <2>1. pane[w].alive BY <1>1
  <2>2. \A v \in 1..3 : v # NoPixmap BY DEF NoPixmap
  <2> QED BY ONLY <1>2, <1>4, <2>1, <2>2 DEF PanesInv
<1>7. ImagesInv'
  <2>1. ASSUME NEW v \in Pictured, images[v].there, ~images[v].changed
        PROVE  images[v].pixmap = Current(v)' /\ (v \in Panes => (pane'[v].redirected => pane'[v].mapped))
    <3>1. images[v].pixmap = Current(v) /\ (v \in Panes => (pane[v].redirected => pane[v].mapped))
      BY <1>2, <2>1 DEF ImagesInv
    <3>2. CASE v # w BY <1>4, <3>1, <3>2 DEF Current, Pictured
    <3>3. CASE v = w BY <1>1, <1>4, <3>1, <3>3 DEF Current
    <3> QED BY <3>2, <3>3
  <2> QED BY <1>1, <2>1 DEF ImagesInv
<1>8. \A v \in Pictured : Old(v) => Old(v)' BY <1>1 DEF Old
<1>9. \A v \in Panes : pane'[v].alive = pane[v].alive BY <1>4
<1>10. \A o \in Views : OutputInv(o)' BY <1>1, <1>5, <1>8, <1>9, GeometryStep
<1> QED BY <1>5, <1>6, <1>7, <1>10 DEF FramesInv

\* A pixmap is freed and the window has another, or none: whatever image it
\* had is marked.
LEMMA PixmapFreed ==
    ASSUME FramesInv, NEW w \in Panes, pane[w].mapped, images' = damageDestroyed(pane[w].pixmap),
           pane' \in [Panes -> Windows],
           \A v \in Panes : v # w => pane'[v] = pane[v],
           pane'[w].redirected = pane[w].redirected
    PROVE  ImagesInv' /\ images' \in [Pictured -> WindowImages] /\ \A v \in Pictured : Old(v) => Old(v)'
<1> DEFINE p == pane[w].pixmap
<1>1. FramesType /\ PanesInv /\ ImagesInv BY DEF FramesInv
<1> HIDE DEF p
<1>2. /\ images' \in [Pictured -> WindowImages]
      /\ \A v \in Pictured :
            \/ images'[v] = images[v] /\ (images[v].pixmap # p \/ p = NoPixmap)
            \/ images'[v].changed /\ images'[v].there = images[v].there
  <2>1. images' = damageDestroyed(p) BY DEF p
  <2> QED BY <1>1, <2>1, DestroyedImages
<1>3. \A v \in Pictured : Old(v) => Old(v)' BY <1>2 DEF Old
<1>4. ASSUME NEW v \in Pictured, images'[v].there, ~images'[v].changed
      PROVE  images'[v].pixmap = Current(v)' /\ (v \in Panes => (pane'[v].redirected => pane'[v].mapped))
  <2>1. images'[v] = images[v] /\ (images[v].pixmap # p \/ p = NoPixmap) BY <1>2, <1>4
  <2>2. images[v].pixmap = Current(v) /\ (v \in Panes => (pane[v].redirected => pane[v].mapped))
    BY <1>1, <1>4, <2>1 DEF ImagesInv
  <2>3. CASE v # w BY <2>1, <2>2, <2>3 DEF Current, Pictured
  <2>4. CASE v = w
    <3>1. v # "screen" BY <2>4 DEF Panes
    <3>2. ~pane[w].redirected
      BY <1>1, <2>1, <2>2, <2>4, <3>1 DEF PanesInv, Current, p
    <3> QED BY <2>1, <2>2, <2>4, <3>1, <3>2 DEF Current
  <2> QED BY <2>3, <2>4
<1>5. ImagesInv' BY <1>4 DEF ImagesInv
<1> QED BY <1>2, <1>3, <1>5

\* UnrealizeWindow: the image of a window that loses its pixmap is marked.
LEMMA UnmapStep ==
    ASSUME FramesInv, NEW w \in Panes, Unmap(w)
    PROVE  FramesInv'
<1>1. /\ views' = GeometryChanged(views) /\ images' = damageDestroyed(pane[w].pixmap)
      /\ bindings' = bindings /\ record' = record /\ pane[w].mapped
      /\ pane' = [pane EXCEPT ![w].mapped = FALSE, ![w].pixmap = 0]
  BY DEF Unmap, NoPixmap
<1>2. FramesType /\ PanesInv BY DEF FramesInv
<1>3. /\ pane' \in [Panes -> Windows]
      /\ \A v \in Panes : v # w => pane'[v] = pane[v]
      /\ pane'[w].alive = pane[w].alive /\ pane'[w].redirected = pane[w].redirected /\ ~pane'[w].mapped
  <2> DEFINE u == [pane[w] EXCEPT !.mapped = FALSE]
             q == [u EXCEPT !.pixmap = 0]
  <2>1. pane[w] \in Windows /\ pane \in [Panes -> Windows] BY <1>2 DEF FramesType
  <2>2. pane' = [pane EXCEPT ![w] = q] BY <1>1, <2>1
  <2>3. u \in Windows /\ u.alive = pane[w].alive /\ u.redirected = pane[w].redirected /\ ~u.mapped
    BY <2>1 DEF Windows
  <2> HIDE DEF u
  <2>4. q \in Windows /\ q.alive = u.alive /\ q.redirected = u.redirected /\ ~q.mapped
    BY <2>3 DEF Windows
  <2> HIDE DEF q
  <2> QED BY <2>1, <2>2, <2>3, <2>4
<1>4. ImagesInv' /\ images' \in [Pictured -> WindowImages] /\ \A v \in Pictured : Old(v) => Old(v)'
  BY <1>1, <1>3, PixmapFreed
<1>5. FramesType' BY <1>1, <1>2, <1>3, <1>4, GeometryTypes DEF FramesType
<1>6. PanesInv' BY <1>2, <1>3 DEF PanesInv
<1>7. \A v \in Panes : pane'[v].alive = pane[v].alive BY <1>3
<1>8. \A o \in Views : OutputInv(o)' BY <1>1, <1>4, <1>5, <1>7, GeometryStep
<1> QED BY <1>4, <1>5, <1>6, <1>8 DEF FramesInv

\* ConfigureWindow: so is that of one whose pixmap is replaced.
LEMMA ConfigureStep ==
    ASSUME FramesInv, NEW w \in Panes, Configure(w)
    PROVE  FramesInv'
<1>1. /\ views' = GeometryChanged(views) /\ bindings' = bindings /\ record' = record /\ pane[w].mapped
      /\ \/ pane' = [pane EXCEPT ![w].place = 1 - @] /\ images' = images
         \/ /\ pane[w].redirected /\ pane' = [pane EXCEPT ![w].pixmap = Address]
            /\ images' = damageDestroyed(pane[w].pixmap)
  BY DEF Configure
<1>2. FramesType /\ PanesInv /\ ImagesInv BY DEF FramesInv
<1>3. CASE pane' = [pane EXCEPT ![w].place = 1 - @] /\ images' = images
  <2>1. /\ pane' \in [Panes -> Windows]
        /\ \A v \in Panes : /\ pane'[v].alive = pane[v].alive /\ pane'[v].mapped = pane[v].mapped
                            /\ pane'[v].redirected = pane[v].redirected /\ pane'[v].pixmap = pane[v].pixmap
    BY <1>2, <1>3 DEF FramesType, Windows
  <2>2. FramesType' BY <1>1, <1>2, <1>3, <2>1, GeometryTypes DEF FramesType
  <2>3. PanesInv' BY <1>2, <2>1 DEF PanesInv
  <2>4. \A v \in Pictured : Current(v)' = Current(v) BY <2>1 DEF Current, Pictured
  <2>5. ImagesInv' BY <1>2, <1>3, <2>1, <2>4 DEF ImagesInv
  <2>6. \A v \in Pictured : Old(v) => Old(v)' BY <1>3 DEF Old
  <2>7. \A o \in Views : OutputInv(o)' BY <1>1, <2>1, <2>2, <2>6, GeometryStep
  <2> QED BY <2>2, <2>3, <2>5, <2>7 DEF FramesInv
<1>4. CASE /\ pane[w].redirected /\ pane' = [pane EXCEPT ![w].pixmap = Address]
           /\ images' = damageDestroyed(pane[w].pixmap)
  <2> DEFINE a == Address
  <2>1. a \in 1..3 BY <1>2, AddressIsFree
  <2>2. pane' = [pane EXCEPT ![w].pixmap = a] BY <1>4
  <2> HIDE DEF a
  <2>3. /\ pane' \in [Panes -> Windows]
        /\ \A v \in Panes : v # w => pane'[v] = pane[v]
        /\ pane'[w].alive = pane[w].alive /\ pane'[w].redirected = pane[w].redirected
        /\ pane'[w].mapped = pane[w].mapped /\ pane'[w].pixmap \in 1..3
    BY <1>2, <2>1, <2>2 DEF FramesType, Windows
  <2>4. ImagesInv' /\ images' \in [Pictured -> WindowImages] /\ \A v \in Pictured : Old(v) => Old(v)'
    BY <1>1, <1>4, <2>3, PixmapFreed
  <2>5. FramesType' BY <1>1, <1>2, <2>3, <2>4, GeometryTypes DEF FramesType
  <2>6. PanesInv' BY <1>2, <2>3 DEF PanesInv, NoPixmap
  <2>7. \A v \in Panes : pane'[v].alive = pane[v].alive BY <2>3
  <2>8. \A o \in Views : OutputInv(o)' BY <1>1, <2>4, <2>5, <2>7, GeometryStep
  <2> QED BY <2>4, <2>5, <2>6, <2>8 DEF FramesInv
<1> QED BY <1>1, <1>3, <1>4

\* An output that keeps its window, or dies, in a step that keeps the windows
\* mapped and in place and tells nothing, has no news of its family.
LEMMA FamilyStep ==
    ASSUME FramesInv, NEW o \in Views, NEW x, Bound(o), record'[o].family = record[o].family,
           views[o].window = x, views'[o].window = x, views'[o].parent = views[o].parent,
           views'[o].seen = views[o].seen, views'[o].published = views[o].published,
           ~views'[o].dead => ~views[o].dead /\ (Exists(x) => Exists(x)'),
           ~views'[o].pending => ~views[o].pending,
           \A w \in Panes : /\ pane'[w].mapped = pane[w].mapped /\ pane'[w].place = pane[w].place
                            /\ pane'[w].mapped => pane'[w].alive
    PROVE  FamilyInv(o)'
<1>1. FamilyInv(o) BY DEF FramesInv, OutputInv
<1>2. /\ Borrows(o) => x \in Panes
      /\ views[o].seen /\ ~views[o].dead => Exists(x)
      /\ Borrows(o) /\ ~views[o].pending /\ views[o].published /\ ~views[o].dead =>
            record[o].family = FamilyGeometry(o, FALSE)
  BY <1>1 DEF FamilyInv
<1>3. Borrows(o)' <=> Borrows(o) BY DEF Borrows
<1>4. Borrows(o)' => views'[o].window \in Panes BY <1>2, <1>3
<1>5. views'[o].seen /\ ~views'[o].dead => Exists(x)' BY <1>2
<1>6. ASSUME Borrows(o)', ~views'[o].pending, views'[o].published, ~views'[o].dead
      PROVE  record'[o].family = FamilyGeometry(o, FALSE)'
  <2>1. record[o].family = FamilyGeometry(o, FALSE) /\ ~views[o].dead BY <1>2, <1>3, <1>6
  <2>2. \A w \in Panes : pane[w].mapped => pane[w].alive BY DEF FramesInv, PanesInv
  <2>3. FamilyGeometry(o, FALSE)' = FamilyGeometry(o, FALSE)
    BY <1>2, <1>3, <1>6, <2>1, <2>2, GeometryKept
  <2> QED BY <2>1, <2>3
<1>7. Exists(views[o].window)' <=> Exists(x)' BY DEF Exists
<1> QED BY <1>4, <1>5, <1>6, <1>7 DEF FamilyInv

\* onDestroy(): the outputs of a window that is gone are dead, and others keep
\* their families, to which an unmapped window does not belong.
LEMMA DestroyStep ==
    ASSUME FramesInv, NEW w \in Panes, DestroyPane(w)
    PROVE  FramesInv'
<1>1. /\ views' = [o \in Views |-> IF views[o].window = w
                                   THEN [views[o] EXCEPT !.dead = TRUE, !.changed = TRUE] ELSE views[o]]
      /\ images' = [images EXCEPT ![w].redirected = FALSE]
      /\ pane' = [pane EXCEPT ![w].alive = FALSE, ![w].redirected = FALSE]
      /\ bindings' = bindings /\ record' = record /\ ~pane[w].mapped
  BY DEF DestroyPane, Unredirected
<1>2. FramesType /\ PanesInv /\ ImagesInv BY DEF FramesInv
<1>3. /\ pane' \in [Panes -> Windows]
      /\ \A v \in Panes : v # w => pane'[v] = pane[v]
      /\ pane'[w].mapped = pane[w].mapped /\ pane'[w].place = pane[w].place /\ ~pane'[w].redirected
  <2> DEFINE u == [pane[w] EXCEPT !.alive = FALSE]
             q == [u EXCEPT !.redirected = FALSE]
  <2>1. pane[w] \in Windows /\ pane \in [Panes -> Windows] BY <1>2 DEF FramesType
  <2>2. pane' = [pane EXCEPT ![w] = q] BY <1>1, <2>1
  <2>3. u \in Windows /\ u.mapped = pane[w].mapped /\ u.place = pane[w].place BY <2>1 DEF Windows
  <2> HIDE DEF u
  <2>4. q \in Windows /\ q.mapped = u.mapped /\ q.place = u.place /\ ~q.redirected
    BY <2>3 DEF Windows
  <2> HIDE DEF q
  <2> QED BY <2>1, <2>2, <2>3, <2>4
<1>4. w \in Pictured BY DEF Pictured
<1>5. /\ images' \in [Pictured -> WindowImages]
      /\ \A v \in Pictured : /\ images'[v].pixmap = images[v].pixmap /\ images'[v].changed = images[v].changed
                             /\ images'[v].damaged = images[v].damaged /\ images'[v].there = images[v].there
  BY <1>1, <1>2, <1>4 DEF FramesType, WindowImages
<1>6. ASSUME NEW o \in Views
      PROVE  /\ views'[o] \in Selections
             /\ views'[o].window = views[o].window /\ views'[o].parent = views[o].parent
             /\ views'[o].seen = views[o].seen /\ views'[o].published = views[o].published
             /\ views'[o].pending = views[o].pending /\ views'[o].revision = views[o].revision
             /\ views'[o].layers = views[o].layers /\ views'[o].presentation = views[o].presentation
             /\ ~views'[o].changed => ~views[o].changed
             /\ ~views'[o].dead => ~views[o].dead /\ views[o].window # w
  <2>1. views[o] \in Selections BY <1>2 DEF FramesType
  <2>2. views'[o] = IF views[o].window = w
                    THEN [views[o] EXCEPT !.dead = TRUE, !.changed = TRUE] ELSE views[o]
    BY <1>1
  <2> QED BY <2>1, <2>2 DEF Selections
<1>7. views' \in [Views -> Selections]
  <2>1. views' = [o \in Views |-> views'[o]] BY <1>1
  <2> QED BY <1>6, <2>1
<1>8. FramesType' BY <1>1, <1>2, <1>3, <1>5, <1>7 DEF FramesType
<1>9. PanesInv' BY <1>1, <1>2, <1>3 DEF PanesInv
<1>10. ImagesInv'
  <2>1. ASSUME NEW v \in Pictured, images'[v].there, ~images'[v].changed
        PROVE  images'[v].pixmap = Current(v)' /\ (v \in Panes => (pane'[v].redirected => pane'[v].mapped))
    <3>1. images[v].pixmap = Current(v) /\ (v \in Panes => (pane[v].redirected => pane[v].mapped))
      BY <1>2, <1>5, <2>1 DEF ImagesInv
    <3>2. CASE v # w BY <1>3, <1>5, <3>1, <3>2 DEF Current, Pictured
    <3>3. CASE v = w BY <1>1, <1>3, <1>5, <3>1, <3>3 DEF Current
    <3> QED BY <3>2, <3>3
  <2> QED BY <2>1 DEF ImagesInv
<1>11. \A v \in Pictured : Old(v) => Old(v)' BY <1>5 DEF Old
<1>12. ASSUME NEW o \in Views PROVE OutputInv(o)'
  <2>1. OutputInv(o) /\ record[o].stale \subseteq Pictured BY <1>2 DEF FramesInv, FramesType, Records
  <2>2. Bound(o)' <=> Bound(o) BY <1>6 DEF Bound
  <2>3. (Bound(o)' => SentInv(o)') /\ NumbersInv(o)' /\ PictureInv(o)'
    BY <1>1, <1>6, <1>11, <2>1, <2>2, QuietStep
  <2>4. CASE Bound(o)
    <3>1. PICK x : x = views[o].window OBVIOUS
    <3>2. views[o].window = x /\ views'[o].window = x BY <1>6, <3>1
    <3>3. x # w => (Exists(x) => Exists(x)') BY <1>3 DEF Exists
    <3>4. \A v \in Panes : /\ pane'[v].mapped = pane[v].mapped /\ pane'[v].place = pane[v].place
                           /\ pane'[v].mapped => pane'[v].alive
      BY <1>3, <1>9 DEF PanesInv
    <3>5. FamilyInv(o)'
      BY <1>1, <1>6, <2>4, <3>2, <3>3, <3>4, FamilyStep
    <3> QED BY <2>3, <3>5 DEF OutputInv
  <2>5. CASE ~Bound(o) BY <2>2, <2>3, <2>5 DEF OutputInv, FamilyInv
  <2> QED BY <2>4, <2>5
<1> QED BY <1>8, <1>9, <1>10, <1>12 DEF FramesInv

\* An XID that is used again changes nothing yet: no output that was there
\* before shows it, and it is not mapped.
LEMMA CreateStep ==
    ASSUME FramesInv, NEW w \in Panes, CreatePane(w)
    PROVE  FramesInv'
<1>1. /\ pane' = [pane EXCEPT ![w].alive = TRUE]
      /\ views' = views /\ images' = images /\ bindings' = bindings /\ record' = record
  BY DEF CreatePane
<1>2. FramesType /\ PanesInv /\ ImagesInv BY DEF FramesInv
<1>3. /\ pane' \in [Panes -> Windows] /\ pane'[w].alive
      /\ \A v \in Panes : /\ v # w => pane'[v].alive = pane[v].alive
                          /\ pane'[v].mapped = pane[v].mapped /\ pane'[v].place = pane[v].place
                          /\ pane'[v].redirected = pane[v].redirected /\ pane'[v].pixmap = pane[v].pixmap
  BY <1>1, <1>2 DEF FramesType, Windows
<1>4. FramesType' BY <1>1, <1>2, <1>3 DEF FramesType
<1>5. PanesInv' BY <1>2, <1>3 DEF PanesInv
<1>6. \A v \in Pictured : Current(v)' = Current(v) BY <1>3 DEF Current, Pictured
<1>7. ImagesInv' BY <1>1, <1>2, <1>3, <1>6 DEF ImagesInv
<1>8. \A v \in Pictured : Old(v) => Old(v)' BY <1>1 DEF Old
<1>9. ASSUME NEW o \in Views PROVE OutputInv(o)'
  <2>1. OutputInv(o) /\ record[o].stale \subseteq Pictured BY <1>2 DEF FramesInv, FramesType, Records
  <2>2. Bound(o)' <=> Bound(o) BY <1>1 DEF Bound
  <2>3. (Bound(o)' => SentInv(o)') /\ NumbersInv(o)' /\ PictureInv(o)'
    BY <1>1, <1>8, <2>1, <2>2, QuietStep
  <2>4. CASE Bound(o)
    <3>1. PICK x : x = views[o].window OBVIOUS
    <3>2. Exists(x) => Exists(x)' BY <1>3 DEF Exists
    <3>3. \A v \in Panes : /\ pane'[v].mapped = pane[v].mapped /\ pane'[v].place = pane[v].place
                           /\ pane'[v].mapped => pane'[v].alive
      BY <1>3, <1>5 DEF PanesInv
    <3>4. FamilyInv(o)' BY <1>1, <2>4, <3>1, <3>2, <3>3, FamilyStep
    <3> QED BY <2>3, <3>4 DEF OutputInv
  <2>5. CASE ~Bound(o) BY <2>2, <2>3, <2>5 DEF OutputInv, FamilyInv
  <2> QED BY <2>4, <2>5
<1> QED BY <1>4, <1>5, <1>7, <1>9 DEF FramesInv

\* What another output's release or binding may do to an output: mark it, mark
\* its geometry, end it.
Disturbed(o) ==
    /\ views'[o].window = views[o].window /\ views'[o].parent = views[o].parent
    /\ views'[o].seen = views[o].seen /\ views'[o].published = views[o].published
    /\ views'[o].layers = views[o].layers /\ views'[o].revision = views[o].revision
    /\ ~views'[o].changed => ~views[o].changed /\ views'[o].presentation = views[o].presentation
    /\ ~views'[o].dead => ~views[o].dead
    /\ ~views'[o].pending => ~views[o].pending

\* An output that is disturbed stays sound.
LEMMA DisturbedStep ==
    ASSUME FramesInv, NEW o \in Views, Disturbed(o),
           images' = images, pane' = pane, record' = record, bindings'[o] = bindings[o]
    PROVE  OutputInv(o)'
<1>1. OutputInv(o) /\ record[o].stale \subseteq Pictured BY DEF FramesInv, FramesType, Records
<1>2. Bound(o)' <=> Bound(o) BY DEF Bound, Disturbed
<1>3. \A v \in Pictured : Old(v) => Old(v)' BY DEF Old
<1>4. (Bound(o)' => SentInv(o)') /\ NumbersInv(o)' /\ PictureInv(o)'
  BY <1>1, <1>2, <1>3, QuietStep DEF Disturbed
<1>5. CASE Bound(o)
  <2>1. PICK x : x = views[o].window OBVIOUS
  <2>2. Exists(x) => Exists(x)' BY DEF Exists
  <2>3. \A v \in Panes : /\ pane'[v].mapped = pane[v].mapped /\ pane'[v].place = pane[v].place
                         /\ pane'[v].mapped => pane'[v].alive
    BY DEF FramesInv, PanesInv
  <2>4. FamilyInv(o)' BY <1>5, <2>1, <2>2, <2>3, FamilyStep DEF Disturbed
  <2> QED BY <1>4, <2>4 DEF OutputInv
<1>6. CASE ~Bound(o) BY <1>2, <1>4, <1>6 DEF OutputInv, FamilyInv
<1> QED BY <1>5, <1>6

\* The images and windows of a step that touches neither.
LEMMA ImagesKept ==
    ASSUME FramesInv, images' = images, pane' = pane
    PROVE  PanesInv' /\ ImagesInv'
<1>1. PanesInv /\ ImagesInv BY DEF FramesInv
<1>2. \A v \in Pictured : Current(v)' = Current(v) BY DEF Current
<1> QED BY <1>1, <1>2 DEF PanesInv, ImagesInv

\* window_outputs.c:154-169: a release disturbs the other outputs.
LEMMA FreedFacts ==
    ASSUME FramesType, NEW o \in Views, NEW v \in Views \ {o}
    PROVE  /\ Freed(o)[v].window = views[v].window /\ Freed(o)[v].parent = views[v].parent
           /\ Freed(o)[v].seen = views[v].seen /\ Freed(o)[v].published = views[v].published
           /\ Freed(o)[v].layers = views[v].layers /\ Freed(o)[v].revision = views[v].revision
           /\ Freed(o)[v].presentation = views[v].presentation
           /\ ~Freed(o)[v].changed => ~views[v].changed
           /\ ~Freed(o)[v].dead => ~views[v].dead
           /\ ~Freed(o)[v].pending => ~views[v].pending
<1>1. views[v] \in Selections BY DEF FramesType
<1>2. \/ Freed(o)[v] = [views[v] EXCEPT !.changed = TRUE, !.pending = TRUE]
      \/ Freed(o)[v] = [views[v] EXCEPT !.dead = TRUE, !.changed = TRUE]
      \/ Freed(o)[v] = views[v]
  BY DEF Freed
<1>3. CASE Freed(o)[v] = [views[v] EXCEPT !.changed = TRUE, !.pending = TRUE] BY <1>1, <1>3 DEF Selections
<1>4. CASE Freed(o)[v] = [views[v] EXCEPT !.dead = TRUE, !.changed = TRUE] BY <1>1, <1>4 DEF Selections
<1> QED BY <1>2, <1>3, <1>4

\* window_outputs.c:154-169.
LEMMA ReleaseViewStep ==
    ASSUME FramesInv, NEW o \in Views, ReleaseView(o)
    PROVE  FramesInv'
<1>1. views' = Freed(o) /\ images' = images /\ pane' = pane /\ bindings' = bindings /\ record' = record
  BY DEF ReleaseView
<1>2. FramesType BY DEF FramesInv
<1>3. FramesType' BY <1>1, <1>2, FreedTypes DEF FramesType
<1>4. ASSUME NEW v \in Views PROVE OutputInv(v)'
  <2>1. CASE v # o
    <3>1. Disturbed(v) BY <1>1, <1>2, <2>1, FreedFacts DEF Disturbed
    <3> QED BY <1>1, <3>1, DisturbedStep
  <2>2. CASE v = o
    <3>1. views'[o].window = "none" BY <1>1 DEF Freed, NoSelection
    <3>2. ~Bound(o)' BY <3>1 DEF Bound
    <3>3. OutputInv(o) BY DEF FramesInv
    <3> QED BY <1>1, <2>2, <3>2, <3>3 DEF OutputInv, SentInv, NumbersInv, PictureInv, FamilyInv
  <2> QED BY <2>1, <2>2
<1> QED BY <1>1, <1>3, <1>4, ImagesKept DEF FramesInv

\* window_outputs.c:240-261: a new binding is marked, its number is new, and
\* the others are disturbed at most.
LEMMA BindStep ==
    ASSUME FramesInv, NEW b \in Bindings, BindView(b[1], b[2], b[3])
    PROVE  FramesInv'
<1> DEFINE o == b[1]
           w == b[2]
           parent == b[3]
           vs == IF Bound(o) THEN Freed(o) ELSE views
           fresh == [NoSelection EXCEPT !.window = w, !.parent = parent, !.changed = TRUE,
                                        !.dead = FALSE, !.pending = TRUE]
<1>1. o \in Views /\ w \in Pictured /\ parent \in Views \cup {NoView}
  BY FramesAssumption DEF Pictured, Panes
<1>2. FramesType BY DEF FramesInv
<1>3. /\ \/ parent = NoView /\ views' = [vs EXCEPT ![o] = fresh]
         \/ /\ parent \in Views \ {o} /\ w \in Panes
            /\ views' = [vs EXCEPT ![o] = fresh, ![parent].changed = TRUE, ![parent].pending = TRUE]
      /\ bindings' = [bindings EXCEPT ![o] = @ + 1]
      /\ images' = images /\ pane' = pane /\ record' = record
  BY DEF BindView
<1>4. /\ vs \in [Views -> Selections]
      /\ \A v \in Views \ {o} :
            /\ vs[v].window = views[v].window /\ vs[v].parent = views[v].parent
            /\ vs[v].seen = views[v].seen /\ vs[v].published = views[v].published
            /\ vs[v].layers = views[v].layers /\ vs[v].revision = views[v].revision
            /\ vs[v].presentation = views[v].presentation
            /\ ~vs[v].changed => ~views[v].changed
            /\ ~vs[v].dead => ~views[v].dead
            /\ ~vs[v].pending => ~views[v].pending
  <2>1. CASE Bound(o)
    <3>1. vs = Freed(o) BY <2>1
    <3> QED BY <1>1, <1>2, <3>1, FreedTypes, FreedFacts
  <2>2. CASE ~Bound(o)
    <3>1. vs = views BY <2>2
    <3> QED BY <1>2, <3>1 DEF FramesType
  <2> QED BY <2>1, <2>2
<1> HIDE DEF o, w, parent, vs
<1>5. NoSelection \in Selections BY DEF NoSelection, Selections
<1>6. /\ fresh \in Selections
      /\ fresh.window = w /\ fresh.parent = parent /\ fresh.changed /\ fresh.pending /\ ~fresh.seen
  <2> DEFINE a1 == [NoSelection EXCEPT !.window = w]
             a2 == [a1 EXCEPT !.parent = parent]
             a3 == [a2 EXCEPT !.changed = TRUE]
             a4 == [a3 EXCEPT !.dead = FALSE]
  <2>1. fresh = [a4 EXCEPT !.pending = TRUE] OBVIOUS
  <2> HIDE DEF fresh
  <2>2. a1 \in Selections /\ a1.window = w /\ ~a1.seen BY <1>1, <1>5 DEF Selections, NoSelection
  <2> HIDE DEF a1
  <2>3. a2 \in Selections /\ a2.window = w /\ ~a2.seen /\ a2.parent = parent BY <1>1, <2>2 DEF Selections
  <2> HIDE DEF a2
  <2>4. a3 \in Selections /\ a3.window = w /\ ~a3.seen /\ a3.parent = parent /\ a3.changed
    BY <2>3 DEF Selections
  <2> HIDE DEF a3
  <2>5. a4 \in Selections /\ a4.window = w /\ ~a4.seen /\ a4.parent = parent /\ a4.changed
    BY <2>4 DEF Selections
  <2> HIDE DEF a4
  <2> QED BY <2>1, <2>5 DEF Selections
<1> HIDE DEF fresh
<1> DEFINE marked == [vs[parent] EXCEPT !.changed = TRUE, !.pending = TRUE]
<1>7. parent \in Views =>
        /\ marked \in Selections
        /\ marked.window = vs[parent].window /\ marked.parent = vs[parent].parent
        /\ marked.seen = vs[parent].seen /\ marked.published = vs[parent].published
        /\ marked.layers = vs[parent].layers /\ marked.revision = vs[parent].revision
        /\ marked.dead = vs[parent].dead /\ marked.changed /\ marked.pending
  <2> SUFFICES ASSUME parent \in Views
               PROVE  /\ marked \in Selections
                      /\ marked.window = vs[parent].window /\ marked.parent = vs[parent].parent
                      /\ marked.seen = vs[parent].seen /\ marked.published = vs[parent].published
                      /\ marked.layers = vs[parent].layers /\ marked.revision = vs[parent].revision
                      /\ marked.dead = vs[parent].dead /\ marked.changed /\ marked.pending
    OBVIOUS
  <2> DEFINE t == [vs[parent] EXCEPT !.changed = TRUE]
  <2>1. vs[parent] \in Selections BY <1>4
  <2>2. marked = [t EXCEPT !.pending = TRUE] BY <2>1
  <2>3. /\ t \in Selections /\ t.window = vs[parent].window /\ t.parent = vs[parent].parent
        /\ t.seen = vs[parent].seen /\ t.published = vs[parent].published
        /\ t.layers = vs[parent].layers /\ t.revision = vs[parent].revision
        /\ t.dead = vs[parent].dead /\ t.changed
    BY <2>1 DEF Selections
  <2> HIDE DEF t, marked
  <2>4. marked \in Selections BY <2>2, <2>3 DEF Selections
  <2> QED BY <2>2, <2>3, <2>4 DEF Selections
<1>8. /\ views'[o] = fresh /\ (parent # NoView => w \in Panes)
      /\ \A v \in Views \ {o} : views'[v] = vs[v] \/ (v = parent /\ views'[v] = marked)
      /\ views' = [v \in Views |-> views'[v]]
  <2>1. CASE parent = NoView /\ views' = [vs EXCEPT ![o] = fresh] BY <1>1, <1>4, <2>1
  <2>2. CASE /\ parent \in Views \ {o} /\ w \in Panes
             /\ views' = [vs EXCEPT ![o] = fresh, ![parent].changed = TRUE, ![parent].pending = TRUE]
    <3>1. views' = [vs EXCEPT ![o] = fresh, ![parent] = marked] BY <1>1, <1>4, <2>2
    <3> HIDE DEF marked
    <3> QED BY <1>1, <1>4, <2>2, <3>1
  <2> QED BY <1>3, <2>1, <2>2
<1> HIDE DEF marked
<1>9. views' \in [Views -> Selections]
  <2>1. ASSUME NEW v \in Views PROVE views'[v] \in Selections BY <1>4, <1>6, <1>7, <1>8
  <2> QED BY <1>8, <2>1
<1>10. bindings' \in [Views -> Nat] /\ bindings'[o] = bindings[o] + 1
       /\ \A v \in Views \ {o} : bindings'[v] = bindings[v]
  BY <1>1, <1>2, <1>3 DEF FramesType
<1>11. FramesType' BY <1>2, <1>3, <1>9, <1>10 DEF FramesType
<1>12. ASSUME NEW v \in Views PROVE OutputInv(v)'
  <2>1. CASE v # o
    <3>1. CASE views'[v] = vs[v]
      <4>1. Disturbed(v) BY <1>4, <2>1, <3>1 DEF Disturbed
      <4> QED BY <1>3, <1>10, <2>1, <4>1, DisturbedStep
    <3>2. CASE v = parent /\ views'[v] = marked
      <4>1. Disturbed(v) BY <1>4, <1>7, <2>1, <3>2 DEF Disturbed
      <4> QED BY <1>3, <1>10, <2>1, <4>1, DisturbedStep
    <3> QED BY <1>8, <2>1, <3>1, <3>2
  <2>2. CASE v = o
    <3>1. /\ views'[v].changed /\ views'[v].pending /\ ~views'[v].seen
          /\ views'[v].window = w /\ views'[v].parent = parent
      BY <1>6, <1>8, <2>2
    <3>2. NumbersInv(v) /\ PictureInv(v) BY DEF FramesInv, OutputInv
    <3>3. SentInv(v)' BY <3>1 DEF SentInv
    <3>4. NumbersInv(v)'
      <4>1. record[v].binding \in Nat /\ record[v].shows \in Nat /\ bindings[v] \in Nat
        BY <1>2 DEF FramesType, Records
      <4> QED BY <1>3, <1>10, <2>2, <3>2, <4>1 DEF NumbersInv
    <3>5. PictureInv(v)' BY <1>3, <3>1, <3>2 DEF PictureInv
    <3>6. FamilyInv(v)' BY <1>8, <3>1 DEF FamilyInv, Borrows
    <3> QED BY <3>3, <3>4, <3>5, <3>6 DEF OutputInv
  <2> QED BY <2>1, <2>2
<1> QED BY <1>3, <1>11, <1>12, ImagesKept DEF FramesInv

\* window_outputs.c:264-270: a new viewport marks its output.
LEMMA ViewportStep ==
    ASSUME FramesInv, NEW o \in Views, Viewport(o)
    PROVE  FramesInv'
<1>1. /\ views' = [views EXCEPT ![o].presentation = 1, ![o].changed = TRUE]
      /\ images' = images /\ pane' = pane /\ bindings' = bindings /\ record' = record
  BY DEF Viewport
<1>2. FramesType BY DEF FramesInv
<1> DEFINE u == [views[o] EXCEPT !.presentation = 1, !.changed = TRUE]
<1>3. views[o] \in Selections /\ views \in [Views -> Selections] BY <1>2 DEF FramesType
<1>4. views' = [views EXCEPT ![o] = u] BY <1>1, <1>3
<1>5. /\ u \in Selections /\ u.window = views[o].window /\ u.parent = views[o].parent
      /\ u.seen = views[o].seen /\ u.published = views[o].published
      /\ u.layers = views[o].layers /\ u.revision = views[o].revision
      /\ u.changed /\ u.dead = views[o].dead /\ u.pending = views[o].pending
  <2> DEFINE t == [views[o] EXCEPT !.presentation = 1]
  <2>1. u = [t EXCEPT !.changed = TRUE] BY <1>3
  <2>2. /\ t \in Selections /\ t.window = views[o].window /\ t.parent = views[o].parent
        /\ t.seen = views[o].seen /\ t.published = views[o].published
        /\ t.layers = views[o].layers /\ t.revision = views[o].revision
        /\ t.dead = views[o].dead /\ t.pending = views[o].pending
    BY <1>3 DEF Selections
  <2> HIDE DEF t
  <2>3. u \in Selections BY <2>1, <2>2 DEF Selections
  <2> QED BY <2>1, <2>2, <2>3 DEF Selections
<1> HIDE DEF u
<1>6. FramesType' BY <1>1, <1>2, <1>3, <1>4, <1>5 DEF FramesType
<1>7. \A v \in Views : Disturbed(v) BY <1>3, <1>4, <1>5 DEF Disturbed
<1>8. \A v \in Views : OutputInv(v)' BY <1>1, <1>7, DisturbedStep
<1> QED BY <1>1, <1>6, <1>8, ImagesKept DEF FramesInv

\* renderer_outputs.cpp: a drawn output shows its frame as it is.
LEMMA DrawStep ==
    ASSUME FramesInv, NEW o \in Views, DrawView(o)
    PROVE  FramesInv'
<1> DEFINE u == [record[o] EXCEPT !.drawn = record[o].revision, !.picture = record[o].layers,
                                  !.shows = record[o].binding, !.stale = {}]
<1>1. views' = views /\ images' = images /\ pane' = pane /\ bindings' = bindings
  BY DEF DrawView
<1>2. FramesType BY DEF FramesInv
<1>3. record[o] \in Records /\ record \in [Views -> Records] BY <1>2 DEF FramesType
<1>4. record' = [record EXCEPT ![o] = u] BY <1>3 DEF DrawView
<1>5. /\ u.revision = record[o].revision /\ u.layers = record[o].layers /\ u.skipped = record[o].skipped
      /\ u.presentation = record[o].presentation /\ u.family = record[o].family
      /\ u.binding = record[o].binding /\ u.drawn = record[o].revision /\ u.picture = record[o].layers
      /\ u.shows = record[o].binding /\ u.stale = {}
  BY <1>3 DEF Records
<1>6. u \in Records
  <2> DEFINE s == [record[o] EXCEPT !.drawn = record[o].revision]
             t == [s EXCEPT !.picture = record[o].layers]
             r == [t EXCEPT !.shows = record[o].binding]
  <2>1. u = [r EXCEPT !.stale = {}] BY <1>3
  <2> HIDE DEF u
  <2>2. /\ record[o].revision \in Nat /\ record[o].layers \in SUBSET Layers /\ record[o].binding \in Nat
    BY <1>3 DEF Records
  <2>3. s \in Records BY <1>3, <2>2 DEF Records
  <2> HIDE DEF s
  <2>4. t \in Records BY <2>2, <2>3 DEF Records
  <2> HIDE DEF t
  <2>5. r \in Records BY <2>2, <2>4 DEF Records
  <2> HIDE DEF r
  <2>6. {} \in SUBSET Pictured OBVIOUS
  <2> QED BY <2>1, <2>5, <2>6 DEF Records
<1> HIDE DEF u
<1>7. record' \in [Views -> Records] BY <1>3, <1>4, <1>6
<1>8. FramesType' BY <1>1, <1>2, <1>7 DEF FramesType
<1>9. ASSUME NEW v \in Views PROVE OutputInv(v)'
  <2>1. OutputInv(v) BY DEF FramesInv
  <2>2. Bound(v)' <=> Bound(v) BY <1>1 DEF Bound
  <2>3. \A x \in Pictured : Old(x)' <=> Old(x) BY <1>1 DEF Old
  <2>4. FamilyGeometry(v, FALSE)' = FamilyGeometry(v, FALSE)
    BY <1>1 DEF FamilyGeometry, Members, Exists, Realized, Borrows, Separated, Bound
  <2>5. record'[v].family = record[v].family BY <1>3, <1>4, <1>5
  <2>6. FamilyInv(v)'
    BY <1>1, <2>1, <2>2, <2>4, <2>5 DEF OutputInv, FamilyInv, Borrows, Exists
  <2>7. CASE v # o
    <3>1. record'[v] = record[v] /\ record[v].stale \subseteq Pictured
      BY <1>2, <1>3, <1>4, <2>7 DEF FramesType, Records
    <3>2. (\A x \in record[v].stale : Old(x)) => \A x \in record[v].stale : Old(x)' BY <2>3, <3>1
    <3>3. Bound(v)' => SentInv(v)' BY <1>1, <2>1, <2>2, <3>1 DEF OutputInv, SentInv
    <3>4. NumbersInv(v)' BY <1>1, <2>1, <2>2, <3>1 DEF OutputInv, NumbersInv
    <3>5. PictureInv(v)' BY <1>1, <2>1, <2>2, <3>1, <3>2 DEF OutputInv, PictureInv
    <3> QED BY <2>6, <3>3, <3>4, <3>5 DEF OutputInv
  <2>8. CASE v = o
    <3>1. record'[v] = u BY <1>3, <1>4, <2>8
    <3>2. Bound(v)' => SentInv(v)' BY <1>1, <1>5, <2>1, <2>2, <2>8, <3>1 DEF OutputInv, SentInv
    <3>3. NumbersInv(v)'
      <4>1. views[o].revision \in Nat BY <1>2 DEF FramesType, Selections
      <4> QED BY <1>1, <1>5, <2>1, <2>2, <2>8, <3>1, <4>1 DEF OutputInv, NumbersInv
    <3>4. PictureInv(v)' BY <1>5, <3>1 DEF PictureInv
    <3> QED BY <2>6, <3>2, <3>3, <3>4 DEF OutputInv
  <2> QED BY <2>7, <2>8
<1> QED BY <1>1, <1>8, <1>9, ImagesKept DEF FramesInv

-----------------------------------------------------------------------------

\* A selection and a renderer's output with other contents.
TurnOf(v, d, s, g, t, l, n) ==
    [v EXCEPT !.dead = d, !.seen = s, !.pending = g, !.published = t, !.changed = FALSE,
              !.layers = l, !.revision = n]

HadTurn(u, v, d, s, g, t, l, n) ==
    /\ u \in Selections /\ u.window = v.window /\ u.parent = v.parent
    /\ u.presentation = v.presentation /\ u.dead = d /\ u.seen = s /\ u.pending = g
    /\ u.published = t /\ u.changed = FALSE /\ u.layers = l /\ u.revision = n

FrameOf(r, n, l, k, q, b) ==
    [r EXCEPT !.revision = n, !.layers = l, !.skipped = k, !.presentation = q, !.binding = b]

\* The turn of an output, as an update of its selection.
LEMMA SelectionUpdate ==
    ASSUME NEW v \in Selections, NEW d \in Flags, NEW s \in Flags, NEW g \in Flags, NEW t \in Flags,
           NEW l \in LayerSets, NEW n \in Nat, NEW u, u = TurnOf(v, d, s, g, t, l, n)
    PROVE  HadTurn(u, v, d, s, g, t, l, n)
<1> DEFINE a1 == [v EXCEPT !.dead = d]
           a2 == [a1 EXCEPT !.seen = s]
           a3 == [a2 EXCEPT !.pending = g]
           a4 == [a3 EXCEPT !.published = t]
           a5 == [a4 EXCEPT !.changed = FALSE]
           a6 == [a5 EXCEPT !.layers = l]
<1> USE DEF TurnOf, LayerSets, Flags
<1>1. u = [a6 EXCEPT !.revision = n] OBVIOUS
<1>2. u.window = v.window /\ u.parent = v.parent /\ u.presentation = v.presentation
  BY DEF Selections
<1>3. u.dead = d /\ u.seen = s /\ u.pending = g /\ u.published = t /\ u.changed = FALSE
      /\ u.layers = l /\ u.revision = n
  BY DEF Selections
<1>4. a1 \in Selections BY DEF Selections
<1> HIDE DEF a1
<1>5. a2 \in Selections BY <1>4 DEF Selections
<1> HIDE DEF a2
<1>6. a3 \in Selections BY <1>5 DEF Selections
<1> HIDE DEF a3
<1>7. a4 \in Selections BY <1>6 DEF Selections
<1> HIDE DEF a4
<1>8. a5 \in Selections BY <1>7 DEF Selections
<1> HIDE DEF a5
<1>9. a6 \in Selections BY <1>8 DEF Selections
<1> HIDE DEF a6
<1>10. u \in Selections BY <1>1, <1>9 DEF Selections
<1> QED BY <1>2, <1>3, <1>10 DEF HadTurn

\* A frame that arrives, as an update of the renderer's output.
LEMMA RecordUpdate ==
    ASSUME NEW r \in Records, NEW n \in Nat, NEW l \in LayerSets, NEW k \in LayerSets,
           NEW q \in Nat, NEW b \in Nat, NEW u, u = FrameOf(r, n, l, k, q, b)
    PROVE  /\ u \in Records /\ u.family = r.family /\ u.drawn = r.drawn /\ u.picture = r.picture
           /\ u.shows = r.shows /\ u.stale = r.stale
           /\ u.revision = n /\ u.layers = l /\ u.skipped = k /\ u.presentation = q /\ u.binding = b
<1> DEFINE a1 == [r EXCEPT !.revision = n]
           a2 == [a1 EXCEPT !.layers = l]
           a3 == [a2 EXCEPT !.skipped = k]
           a4 == [a3 EXCEPT !.presentation = q]
<1> USE DEF FrameOf, LayerSets
<1>1. u = [a4 EXCEPT !.binding = b] OBVIOUS
<1>2. /\ u.family = r.family /\ u.drawn = r.drawn /\ u.picture = r.picture
      /\ u.shows = r.shows /\ u.stale = r.stale
      /\ u.revision = n /\ u.layers = l /\ u.skipped = k /\ u.presentation = q /\ u.binding = b
  BY DEF Records
<1>3. a1 \in Records BY DEF Records
<1> HIDE DEF a1
<1>4. a2 \in Records BY <1>3 DEF Records
<1> HIDE DEF a2
<1>5. a3 \in Records BY <1>4 DEF Records
<1> HIDE DEF a3
<1>6. a4 \in Records BY <1>5 DEF Records
<1> HIDE DEF a4
<1>7. u \in Records BY <1>1, <1>6 DEF Records
<1> QED BY <1>2, <1>7

\* window_outputs.c:171-188, 419-446: redirection leaves a window where it is, and gives
\* one that is mapped a pixmap.
LEMMA RecompositionFacts ==
    ASSUME FramesInv, NEW w \in Panes, NEW q \in Recompositions(w)
    PROVE  /\ q \in Windows /\ q.alive = pane[w].alive /\ q.mapped = pane[w].mapped /\ q.place = pane[w].place
           /\ q.mapped /\ q.redirected => q.pixmap # NoPixmap
<1>1. pane[w] \in Windows BY DEF FramesInv, FramesType
<1>2. pane[w].mapped /\ pane[w].redirected => pane[w].pixmap # NoPixmap BY DEF FramesInv, PanesInv
<1>3. \/ q = pane[w]
      \/ q = [pane[w] EXCEPT !.redirected = FALSE, !.pixmap = 0]
      \/ \E a \in 1..2 : q = [pane[w] EXCEPT !.redirected = TRUE, !.pixmap = a]
  BY DEF Recompositions, NoPixmap
<1>4. CASE q = pane[w] BY <1>1, <1>2, <1>4
<1>5. CASE q = [pane[w] EXCEPT !.redirected = FALSE, !.pixmap = 0]
  <2> DEFINE u == [pane[w] EXCEPT !.redirected = FALSE]
  <2>1. q = [u EXCEPT !.pixmap = 0] BY <1>5
  <2>2. /\ u \in Windows /\ u.alive = pane[w].alive /\ u.mapped = pane[w].mapped /\ u.place = pane[w].place
        /\ ~u.redirected
    BY <1>1 DEF Windows
  <2> HIDE DEF u
  <2> QED BY <2>1, <2>2 DEF Windows
<1>6. ASSUME NEW a \in 1..2, q = [pane[w] EXCEPT !.redirected = TRUE, !.pixmap = a]
      PROVE  /\ q \in Windows /\ q.alive = pane[w].alive /\ q.mapped = pane[w].mapped /\ q.place = pane[w].place
             /\ q.pixmap # NoPixmap
  <2> DEFINE u == [pane[w] EXCEPT !.redirected = TRUE]
  <2>1. q = [u EXCEPT !.pixmap = a] BY <1>6
  <2>2. u \in Windows /\ u.alive = pane[w].alive /\ u.mapped = pane[w].mapped /\ u.place = pane[w].place
    BY <1>1 DEF Windows
  <2> HIDE DEF u
  <2> QED BY <2>1, <2>2 DEF Windows, NoPixmap
<1> QED BY <1>3, <1>4, <1>5, <1>6

\* window_outputs.c:419-446: an image for a pixmap has it, and is marked if
\* there are old pixels.
LEMMA ImageForFacts ==
    ASSUME FramesType, NEW w \in Pictured, NEW q \in Int
    PROVE  /\ imageFor(w, q) \in WindowImages /\ imageFor(w, q).pixmap = q /\ imageFor(w, q).there
           /\ Old(w) => imageFor(w, q).changed \/ imageFor(w, q).damaged
<1>1. images[w] \in WindowImages BY DEF FramesType
<1>2. CASE images[w].there /\ images[w].pixmap = q
  BY <1>1, <1>2 DEF imageFor, Old
<1>3. CASE ~(images[w].there /\ images[w].pixmap = q)
  <2> DEFINE a1 == [images[w] EXCEPT !.there = TRUE]
             a2 == [a1 EXCEPT !.pixmap = q]
             a3 == [a2 EXCEPT !.changed = TRUE]
             a4 == [a3 EXCEPT !.damaged = FALSE]
  <2>1. imageFor(w, q) = a4 BY <1>3 DEF imageFor
  <2>2. a1 \in WindowImages /\ a1.there BY <1>1 DEF WindowImages
  <2> HIDE DEF a1
  <2>3. a2 \in WindowImages /\ a2.there /\ a2.pixmap = q BY <2>2 DEF WindowImages
  <2> HIDE DEF a2
  <2>4. a3 \in WindowImages /\ a3.there /\ a3.pixmap = q /\ a3.changed BY <2>3 DEF WindowImages
  <2> HIDE DEF a3
  <2>5. a4 \in WindowImages /\ a4.there /\ a4.pixmap = q /\ a4.changed BY <2>4 DEF WindowImages
  <2> QED BY <2>1, <2>5
<1> QED BY <1>2, <1>3

\* window_outputs.c:475-490: an output shows windows that are mapped.
LEMMA MembersFacts ==
    ASSUME NEW o \in Views
    PROVE  Members(o) \subseteq Pictured /\ \A w \in Members(o) : w \in Panes => pane[w].mapped
<1>1. "screen" \notin Panes BY DEF Panes
<1>2. \A w \in Members(o) : w \in Family(views[o].window) /\ Realized(w) /\ Exists(views[o].window)
  BY DEF Members, Family, Panes
<1>3. \A w : Exists(w) => Family(w) \subseteq Pictured BY DEF Exists, Family, Pictured
<1> QED BY <1>1, <1>2, <1>3 DEF Realized

\* The images a publication finds if the windows are as in p.
FoundIn(p) == [w \in Pictured |-> imageFor(w, IF w = "screen" THEN ScreenPixmap
                                              ELSE IF p[w].redirected THEN p[w].pixmap ELSE NoPixmap)]

\* Windows that loriePublishOutputs() may leave.
Recomposed(p) ==
    /\ p \in [Panes -> Windows]
    /\ \A w \in Panes : /\ p[w].alive = pane[w].alive /\ p[w].mapped = pane[w].mapped
                        /\ p[w].place = pane[w].place
                        /\ p[w].mapped /\ p[w].redirected => p[w].pixmap # NoPixmap

\* window_outputs.c:419-446: all images, found.
LEMMA FoundFacts ==
    ASSUME FramesType, NEW p, Recomposed(p)
    PROVE  \A w \in Pictured :
             /\ FoundIn(p)[w] \in WindowImages /\ FoundIn(p)[w].there
             /\ FoundIn(p)[w].pixmap = (IF w = "screen" THEN ScreenPixmap
                                        ELSE IF p[w].redirected THEN p[w].pixmap ELSE NoPixmap)
             /\ Old(w) => FoundIn(p)[w].changed \/ FoundIn(p)[w].damaged
<1> SUFFICES ASSUME NEW w \in Pictured
             PROVE  /\ FoundIn(p)[w] \in WindowImages /\ FoundIn(p)[w].there
                    /\ FoundIn(p)[w].pixmap = (IF w = "screen" THEN ScreenPixmap
                                               ELSE IF p[w].redirected THEN p[w].pixmap ELSE NoPixmap)
                    /\ Old(w) => FoundIn(p)[w].changed \/ FoundIn(p)[w].damaged
  OBVIOUS
<1> DEFINE q == IF w = "screen" THEN ScreenPixmap ELSE IF p[w].redirected THEN p[w].pixmap ELSE NoPixmap
<1>1. q \in Int
  <2>1. w # "screen" => p[w] \in Windows BY DEF Recomposed, Pictured
  <2> QED BY <2>1 DEF Windows, ScreenPixmap, NoPixmap
<1>2. FoundIn(p)[w] = imageFor(w, q) BY DEF FoundIn
<1> HIDE DEF q
<1>3. /\ FoundIn(p)[w] \in WindowImages /\ FoundIn(p)[w].there /\ FoundIn(p)[w].pixmap = q
      /\ Old(w) => FoundIn(p)[w].changed \/ FoundIn(p)[w].damaged
  BY <1>1, <1>2, ImageForFacts
<1> QED BY <1>3 DEF q

\* window_outputs.c:171-188: what pruneImages() leaves watches the pixmaps.
LEMMA PrunedImages ==
    ASSUME FramesInv, NEW p, Recomposed(p), pane' = p, images' = Pruned(FoundIn(p), p)
    PROVE  images' \in [Pictured -> WindowImages] /\ ImagesInv'
<1> DEFINE now == FoundIn(p)
<1>1. FramesType BY DEF FramesInv
<1>2. \A w \in Pictured :
        /\ now[w] \in WindowImages /\ now[w].there
        /\ now[w].pixmap = (IF w = "screen" THEN ScreenPixmap
                            ELSE IF p[w].redirected THEN p[w].pixmap ELSE NoPixmap)
  BY <1>1, FoundFacts
<1>3. images' = Pruned(now, p) OBVIOUS
<1> HIDE DEF now
<1>4. ASSUME NEW w \in Pictured
      PROVE  /\ images'[w] \in WindowImages
             /\ images'[w].there => images'[w].pixmap = now[w].pixmap /\ w \in Used
  <2>1. CASE w \notin Used
    <3>1. images'[w] = NoImage BY <1>3, <2>1 DEF Pruned
    <3> QED BY <3>1 DEF NoImage, WindowImages, NoPixmap
  <2>2. CASE w \in Used
    <3> DEFINE b == w \in Panes /\ p[w].redirected
               a1 == [now[w] EXCEPT !.changed = FALSE]
               a2 == [a1 EXCEPT !.damaged = FALSE]
    <3>1. images'[w] = [a2 EXCEPT !.redirected = b] BY <1>3, <2>2 DEF Pruned
    <3>2. b \in BOOLEAN BY DEF Recomposed, Windows
    <3> HIDE DEF b
    <3>3. a1 \in WindowImages /\ a1.pixmap = now[w].pixmap BY <1>2 DEF WindowImages
    <3> HIDE DEF a1
    <3>4. a2 \in WindowImages /\ a2.pixmap = now[w].pixmap BY <3>3 DEF WindowImages
    <3> HIDE DEF a2
    <3> QED BY <2>2, <3>1, <3>2, <3>4 DEF WindowImages
  <2> QED BY <2>1, <2>2
<1>5. images' \in [Pictured -> WindowImages]
  <2>1. images' = [w \in Pictured |-> images'[w]] BY <1>3 DEF Pruned
  <2> QED BY <1>4, <2>1
<1>6. \A w \in Pictured : Current(w)' = now[w].pixmap BY <1>2 DEF Current
<1>7. \A w \in Used : w \in Panes => pane'[w].mapped
  <2>1. \A w \in Used : \E o \in Views : w \in Members(o) BY DEF Used
  <2> QED BY <2>1, MembersFacts DEF Recomposed
<1>8. ImagesInv' BY <1>4, <1>6, <1>7 DEF ImagesInv
<1> QED BY <1>5, <1>8

\* window_outputs.c:475-541: an output is up to date with what was sent once it
\* had its turn.
LEMMA PublishedOutput ==
    ASSUME FramesInv, NEW p, Recomposed(p), NEW failed, NEW o \in Views, Bound(o),
           pane' = p, bindings' = bindings, views'[o] = Turned(o, FoundIn(p)),
           record'[o] = Received(o, FoundIn(p), failed)
    PROVE  views'[o] \in Selections /\ record'[o] \in Records /\ OutputInv(o)'
<1> DEFINE now == FoundIn(p)
           v == views[o]
           L == LayersOf(o, now)
           lost == {l \in L : l[1] \in failed}
           sends == Sends(o, now)
           tells == Borrows(o) /\ (v.pending \/ ~v.published \/ Dies(o))
           family == FamilyGeometry(o, Dies(o))
           seen == v.seen \/ Exists(v.window)
           pending == v.pending /\ ~tells
           published == v.published \/ tells
           layers == IF sends THEN L ELSE v.layers
           revision == IF sends THEN v.revision + 1 ELSE v.revision
           told == IF tells THEN [record[o] EXCEPT !.family = family] ELSE record[o]
<1>1. /\ views'[o] = [v EXCEPT !.dead = Dies(o), !.seen = seen, !.pending = pending,
                              !.published = published, !.changed = FALSE, !.layers = layers,
                              !.revision = revision]
      /\ record'[o] = IF ~sends THEN told
                      ELSE [told EXCEPT !.revision = v.revision + 1, !.layers = L \ lost, !.skipped = lost,
                                        !.presentation = v.presentation, !.binding = bindings[o]]
  BY DEF Turned, Received
<1>2. FramesType /\ OutputInv(o) BY DEF FramesInv
<1>3. v \in Selections /\ record[o] \in Records /\ bindings[o] \in Nat BY <1>2 DEF FramesType
<1>4. Members(o) \subseteq Pictured BY MembersFacts
<1>5. \A w \in Panes : pane[w].place \in Int BY <1>2 DEF FramesType, Windows
<1>6. L \in SUBSET Layers
  <2>1. \A w \in Members(o) : <<w, IF w = "screen" THEN 0 ELSE pane[w].place>> \in Layers
    BY <1>4, <1>5 DEF Layers, Pictured
  <2> QED BY <2>1 DEF LayersOf
<1>7. family \in SUBSET Layers
  <2>1. \A w \in Members(o) : w # views[o].window => <<w, pane[w].place>> \in Layers
    <3> SUFFICES ASSUME NEW w \in Members(o), w # views[o].window PROVE w \in Panes
      BY <1>4, <1>5 DEF Layers, Pictured
    <3> QED BY DEF Members, Family, Panes
  <2> QED BY <2>1 DEF FamilyGeometry
<1>8. Dies(o) \in BOOLEAN BY DEF Dies
<1>9. seen \in BOOLEAN /\ tells \in BOOLEAN /\ pending \in BOOLEAN /\ published \in BOOLEAN
  BY <1>3 DEF Selections
<1>10. layers \in SUBSET Layers /\ revision \in Nat BY <1>3, <1>6 DEF Selections
<1>11. sends => L \ lost \in SUBSET Layers /\ lost \in SUBSET Layers BY <1>6
<1>12. ~sends => /\ ~v.changed /\ ~Renewed(L, now) /\ L = v.layers
  BY DEF Sends
<1>13. \A w \in Pictured : Old(w) => now[w].changed \/ now[w].damaged BY <1>2, FoundFacts
<1>14. tells <=> (Borrows(o) /\ (v.pending \/ ~v.published \/ Dies(o))) OBVIOUS
<1>15. (pending <=> (v.pending /\ ~tells)) /\ (published <=> (v.published \/ tells))
       /\ (seen <=> (v.seen \/ Exists(v.window)))
  OBVIOUS
<1>16. ~Dies(o) => ~v.dead /\ family = FamilyGeometry(o, FALSE) BY DEF Dies, FamilyGeometry
<1> HIDE DEF now, L, lost, sends, tells, family, seen, pending, published
<1>17. /\ told \in Records /\ told.revision = record[o].revision /\ told.layers = record[o].layers
       /\ told.skipped = record[o].skipped /\ told.presentation = record[o].presentation
       /\ told.binding = record[o].binding /\ told.drawn = record[o].drawn
       /\ told.picture = record[o].picture /\ told.shows = record[o].shows /\ told.stale = record[o].stale
       /\ told.family = IF tells THEN family ELSE record[o].family
  BY <1>3, <1>7 DEF Records
<1> DEFINE d == Dies(o)
<1> HIDE DEF layers, revision, told, d
<1>18. /\ views'[o] \in Selections /\ views'[o].window = v.window /\ views'[o].parent = v.parent
       /\ views'[o].presentation = v.presentation /\ views'[o].dead = d /\ views'[o].seen = seen
       /\ views'[o].pending = pending /\ views'[o].published = published /\ views'[o].changed = FALSE
       /\ views'[o].layers = layers /\ views'[o].revision = revision
  <2>1. PICK u, l, n, x : u = views'[o] /\ l = layers /\ n = revision /\ x = v OBVIOUS
  <2>2. PICK b1 \in Flags, b2 \in Flags, b3 \in Flags, b4 \in Flags :
          b1 = d /\ b2 = seen /\ b3 = pending /\ b4 = published
    BY <1>8, <1>9 DEF d, Flags
  <2>3. u = TurnOf(x, b1, b2, b3, b4, l, n) BY <1>1, <2>1, <2>2 DEF d, TurnOf
  <2>4. x \in Selections /\ l \in LayerSets /\ n \in Nat BY <1>3, <1>10, <2>1 DEF LayerSets
  <2>5. HadTurn(u, x, b1, b2, b3, b4, l, n)
    BY ONLY <2>3, <2>4, b1 \in Flags, b2 \in Flags, b3 \in Flags, b4 \in Flags, SelectionUpdate
  <2> QED BY <2>1, <2>2, <2>5 DEF HadTurn
<1>19. /\ record'[o] \in Records /\ record'[o].family = told.family /\ record'[o].drawn = record[o].drawn
       /\ record'[o].picture = record[o].picture /\ record'[o].shows = record[o].shows
       /\ record'[o].stale = record[o].stale
       /\ ~sends => /\ record'[o].revision = record[o].revision /\ record'[o].layers = record[o].layers
                    /\ record'[o].skipped = record[o].skipped
                    /\ record'[o].presentation = record[o].presentation
                    /\ record'[o].binding = record[o].binding
       /\ sends => /\ record'[o].revision = v.revision + 1 /\ record'[o].layers = L \ lost
                   /\ record'[o].skipped = lost /\ record'[o].presentation = v.presentation
                   /\ record'[o].binding = bindings[o]
  <2>1. CASE ~sends BY <1>1, <1>17, <2>1
  <2>2. CASE sends
    <3> DEFINE u == record'[o]
               n == v.revision + 1
               kept == L \ lost
               q == v.presentation
               b == bindings[o]
    <3>1. u = FrameOf(told, n, kept, lost, q, b) BY <1>1, <2>2 DEF FrameOf
    <3>2. n \in Nat /\ kept \in LayerSets /\ lost \in LayerSets /\ q \in Nat /\ b \in Nat
      BY <1>3, <1>11, <2>2 DEF Selections, LayerSets
    <3> HIDE DEF u, n, kept, q, b
    <3>3. /\ u \in Records /\ u.family = told.family /\ u.drawn = told.drawn /\ u.picture = told.picture
          /\ u.shows = told.shows /\ u.stale = told.stale
          /\ u.revision = n /\ u.layers = kept /\ u.skipped = lost /\ u.presentation = q /\ u.binding = b
      BY ONLY <1>17, <3>1, <3>2, RecordUpdate
    <3> QED BY <1>17, <2>2, <3>3 DEF u, n, kept, q, b
  <2> QED BY <2>1, <2>2
<1>20. Bound(o)' BY <1>18 DEF Bound
<1>21. SentInv(o)'
  <2>1. CASE sends
    <3>1. L = (L \ lost) \cup lost BY DEF lost
    <3> QED BY <1>18, <1>19, <2>1, <3>1 DEF SentInv, layers
  <2>2. CASE ~sends
    <3>1. /\ v.layers = record[o].layers \cup record[o].skipped
          /\ record[o].presentation = v.presentation /\ record[o].binding = bindings[o]
      BY <1>2, <1>12, <2>2 DEF OutputInv, SentInv
    <3> QED BY <1>18, <1>19, <2>2, <3>1 DEF SentInv, layers
  <2> QED BY <2>1, <2>2
<1>22. NumbersInv(o)'
  <2>1. NumbersInv(o) BY <1>2 DEF OutputInv
  <2>2. v.revision \in Nat /\ record[o].drawn \in Nat BY <1>3 DEF Selections, Records
  <2>3. CASE sends BY <1>3, <1>18, <1>19, <2>1, <2>2, <2>3 DEF NumbersInv, revision
  <2>4. CASE ~sends BY <1>3, <1>18, <1>19, <2>1, <2>2, <2>4 DEF NumbersInv, revision
  <2> QED BY <2>3, <2>4
<1>23. PictureInv(o)'
  <2>1. PictureInv(o) BY <1>2 DEF OutputInv
  <2>2. record'[o].stale \subseteq {l[1] : l \in record'[o].picture} BY <1>19, <2>1 DEF PictureInv
  <2>3. CASE sends
    <3>1. v.revision \in Nat /\ record[o].drawn \in Nat BY <1>3 DEF Selections, Records
    <3>2. record[o].shows = bindings[o] => record[o].drawn <= v.revision
      BY <1>2 DEF OutputInv, NumbersInv
    <3>3. record'[o].drawn # record'[o].revision \/ record'[o].shows # record'[o].binding
      BY <1>19, <2>3, <3>1, <3>2
    <3> QED BY <2>2, <3>3 DEF PictureInv
  <2>4. CASE ~sends
    <3>1. \/ record[o].drawn # record[o].revision
          \/ record[o].shows # record[o].binding
          \/ record[o].picture = record[o].layers /\ \A w \in record[o].stale : Old(w)
      BY <1>12, <2>1, <2>4 DEF PictureInv
    <3>2. ASSUME record[o].picture = record[o].layers, NEW w \in record[o].stale, Old(w) PROVE FALSE
      <4>1. PICK l \in record[o].picture : w = l[1] BY <2>1 DEF PictureInv
      <4>2. v.layers = record[o].layers \cup record[o].skipped
        BY <1>2, <1>12, <2>4 DEF OutputInv, SentInv
      <4>3. l \in L BY <1>12, <2>4, <3>2, <4>2
      <4>4. w \in Pictured BY <1>3 DEF Records
      <4>5. now[w].changed \/ now[w].damaged BY <1>13, <3>2, <4>4
      <4> QED BY <1>12, <2>4, <4>1, <4>3, <4>5 DEF Renewed
    <3>3. record[o].picture = record[o].layers /\ (\A w \in record[o].stale : Old(w)) => record[o].stale = {}
      BY <3>2
    <3>4. CASE record[o].stale = {} /\ record[o].picture = record[o].layers
      BY <1>19, <2>2, <2>4, <3>4 DEF PictureInv
    <3>5. CASE record[o].drawn # record[o].revision \/ record[o].shows # record[o].binding
      BY <1>19, <2>2, <2>4, <3>5 DEF PictureInv
    <3> QED BY <3>1, <3>3, <3>4, <3>5
  <2> QED BY <2>3, <2>4
<1>24. FamilyInv(o)'
  <2>1. PICK x : x = views[o].window OBVIOUS
  <2>2. FamilyInv(o) BY <1>2 DEF OutputInv
  <2>3. /\ Borrows(o) => x \in Panes
        /\ Borrows(o) /\ ~v.pending /\ v.published /\ ~v.dead => record[o].family = FamilyGeometry(o, FALSE)
    BY <2>1, <2>2 DEF FamilyInv
  <2>4. Borrows(o)' <=> Borrows(o) BY <1>18 DEF Borrows
  <2>5. Exists(x)' <=> Exists(x) BY DEF Exists, Recomposed
  <2>6. views'[o].seen /\ ~views'[o].dead => Exists(x)'
    BY <1>15, <1>18, <2>1, <2>5 DEF d, Dies
  <2>7. Exists(views[o].window)' <=> Exists(x)' BY <1>18, <2>1 DEF Exists
  <2>8. ASSUME Borrows(o)', ~views'[o].pending, views'[o].published, ~views'[o].dead
        PROVE  record'[o].family = FamilyGeometry(o, FALSE)'
    <3>1. ~Dies(o) /\ ~v.dead /\ family = FamilyGeometry(o, FALSE) BY <1>16, <1>18, <2>8 DEF d
    <3>2. record'[o].family = FamilyGeometry(o, FALSE)
      <4>1. CASE tells BY <1>17, <1>19, <3>1, <4>1
      <4>2. CASE ~tells
        <5>1. record[o].family = FamilyGeometry(o, FALSE)
          BY <1>14, <2>3, <2>4, <2>8, <3>1, <4>2
        <5> QED BY <1>17, <1>19, <4>2, <5>1
      <4> QED BY <4>1, <4>2
    <3>3. \A w \in Panes : /\ pane'[w].mapped = pane[w].mapped /\ pane'[w].place = pane[w].place
                           /\ pane[w].mapped => pane[w].alive /\ pane'[w].alive
      BY DEF Recomposed, FramesInv, PanesInv
    <3>4. FamilyGeometry(o, FALSE)' = FamilyGeometry(o, FALSE)
      BY <1>18, <2>1, <2>3, <2>4, <2>8, <3>1, <3>3, GeometryKept
    <3> QED BY <3>2, <3>4
  <2> QED BY <1>18, <2>1, <2>3, <2>4, <2>6, <2>7, <2>8 DEF FamilyInv
<1> QED BY <1>18, <1>19, <1>21, <1>22, <1>23, <1>24 DEF OutputInv

\* An output that is not bound has no turn.
LEMMA UnboundOutput ==
    ASSUME FramesInv, NEW o \in Views, ~Bound(o), views'[o] = views[o], record'[o] = record[o],
           bindings' = bindings
    PROVE  OutputInv(o)'
<1>1. OutputInv(o) BY DEF FramesInv
<1>2. ~Bound(o)' BY DEF Bound
<1> QED BY <1>1, <1>2 DEF OutputInv, NumbersInv, PictureInv, FamilyInv

\* window_outputs.c:475-541: loriePublishOutputs() for all outputs at once.
LEMMA PublishStep ==
    ASSUME FramesInv, Publish
    PROVE  FramesInv'
<1>1. PICK app \in Recompositions("app"), popup \in Recompositions("popup"), failed \in SUBSET Panes :
        LET p == [w \in Panes |-> IF w = "app" THEN app ELSE popup]
            now == [w \in Pictured |->
                      imageFor(w, IF w = "screen" THEN ScreenPixmap
                                  ELSE IF p[w].redirected THEN p[w].pixmap ELSE NoPixmap)]
        IN  /\ pane' = p
            /\ views' = [o \in Views |-> IF Bound(o) THEN Turned(o, now) ELSE views[o]]
            /\ record' = [o \in Views |-> IF Bound(o) THEN Received(o, now, failed) ELSE record[o]]
            /\ images' = Pruned(now, p)
  BY DEF Publish
<1> DEFINE p == [w \in Panes |-> IF w = "app" THEN app ELSE popup]
<1>2. /\ pane' = p /\ images' = Pruned(FoundIn(p), p)
      /\ views' = [o \in Views |-> IF Bound(o) THEN Turned(o, FoundIn(p)) ELSE views[o]]
      /\ record' = [o \in Views |-> IF Bound(o) THEN Received(o, FoundIn(p), failed) ELSE record[o]]
  BY <1>1 DEF FoundIn
<1>3. bindings' = bindings BY DEF Publish
<1>4. FramesType BY DEF FramesInv
<1>5. Recomposed(p)
  <2>1. "app" \in Panes /\ "popup" \in Panes /\ \A w \in Panes : w = "app" \/ w = "popup" BY DEF Panes
  <2>2. p["app"] = app /\ p["popup"] = popup BY <2>1
  <2>3. p = [w \in Panes |-> p[w]] OBVIOUS
  <2> HIDE DEF p
  <2>4. ASSUME NEW w \in Panes
        PROVE  /\ p[w] \in Windows /\ p[w].alive = pane[w].alive /\ p[w].mapped = pane[w].mapped
               /\ p[w].place = pane[w].place
               /\ p[w].mapped /\ p[w].redirected => p[w].pixmap # NoPixmap
    <3>1. CASE w = "app" BY <2>1, <2>2, <3>1, RecompositionFacts
    <3>2. CASE w = "popup" BY <2>1, <2>2, <3>2, RecompositionFacts
    <3> QED BY <2>1, <3>1, <3>2
  <2> QED BY <2>3, <2>4 DEF Recomposed
<1> HIDE DEF p
<1>6. images' \in [Pictured -> WindowImages] /\ ImagesInv' BY <1>2, <1>5, PrunedImages
<1>7. PanesInv'
  <2>1. PanesInv BY DEF FramesInv
  <2> QED BY <1>2, <1>5, <2>1 DEF PanesInv, Recomposed
<1>8. ASSUME NEW o \in Views
      PROVE  views'[o] \in Selections /\ record'[o] \in Records /\ OutputInv(o)'
  <2>1. CASE Bound(o)
    <3>1. views'[o] = Turned(o, FoundIn(p)) /\ record'[o] = Received(o, FoundIn(p), failed)
      BY <1>2, <2>1
    <3> QED BY <1>2, <1>3, <1>5, <2>1, <3>1, PublishedOutput
  <2>2. CASE ~Bound(o)
    <3>1. views'[o] = views[o] /\ record'[o] = record[o] BY <1>2, <2>2
    <3> QED BY <1>3, <1>4, <2>2, <3>1, UnboundOutput DEF FramesType
  <2> QED BY <2>1, <2>2
<1>9. FramesType'
  <2>1. views' = [o \in Views |-> views'[o]] /\ record' = [o \in Views |-> record'[o]] BY <1>2
  <2>2. views' \in [Views -> Selections] /\ record' \in [Views -> Records] BY <1>8, <2>1
  <2> QED BY <1>2, <1>3, <1>4, <1>5, <1>6, <2>2 DEF FramesType, Recomposed
<1> QED BY <1>6, <1>7, <1>8, <1>9 DEF FramesInv

\* window_outputs.c:475-541: what is up to date as far as the invariant goes is
\* what the property asks for.
LEMMA NothingLost == FramesInv => NoUpdateIsLost
<1> SUFFICES ASSUME FramesInv, NEW o \in Views, Bound(o)
             PROVE  /\ \/ Sends(o, Found)
                       \/ /\ LayersOf(o, Found) = record[o].layers \cup record[o].skipped
                          /\ record[o].presentation = views[o].presentation /\ record[o].binding = bindings[o]
                          /\ \/ record[o].drawn # record[o].revision
                             \/ record[o].shows # record[o].binding
                             \/ record[o].picture = record[o].layers /\ record[o].stale = {}
                    /\ Borrows(o) =>
                         \/ views[o].pending \/ ~views[o].published \/ Dies(o)
                         \/ record[o].family = FamilyGeometry(o, FALSE)
  BY DEF NoUpdateIsLost
<1>1. FramesType /\ SentInv(o) /\ PictureInv(o) /\ FamilyInv(o) BY DEF FramesInv, OutputInv
<1>2. Borrows(o) => \/ views[o].pending \/ ~views[o].published \/ Dies(o)
                    \/ record[o].family = FamilyGeometry(o, FALSE)
  BY <1>1 DEF FamilyInv, Dies
<1>3. Recomposed(pane) BY DEF Recomposed, FramesInv, FramesType, PanesInv
<1>4. Found = FoundIn(pane) BY DEF Found, FoundIn
<1>5. \A w \in Pictured : Old(w) => Found[w].changed \/ Found[w].damaged BY <1>1, <1>3, <1>4, FoundFacts
<1>6. CASE ~Sends(o, Found)
  <2>1. ~views[o].changed /\ ~Renewed(LayersOf(o, Found), Found) /\ LayersOf(o, Found) = views[o].layers
    BY <1>6 DEF Sends
  <2>2. /\ views[o].layers = record[o].layers \cup record[o].skipped
        /\ record[o].presentation = views[o].presentation /\ record[o].binding = bindings[o]
    BY <1>1, <2>1 DEF SentInv
  <2>3. \/ record[o].drawn # record[o].revision
        \/ record[o].shows # record[o].binding
        \/ record[o].picture = record[o].layers /\ \A w \in record[o].stale : Old(w)
    BY <1>1, <2>1 DEF PictureInv
  <2>4. ASSUME record[o].picture = record[o].layers, NEW w \in record[o].stale, Old(w) PROVE FALSE
    <3>1. PICK l \in record[o].picture : w = l[1] BY <1>1 DEF PictureInv
    <3>2. l \in LayersOf(o, Found) BY <2>1, <2>2, <2>4
    <3>3. w \in Pictured BY <1>1 DEF FramesType, Records
    <3>4. Found[w].changed \/ Found[w].damaged BY <1>5, <2>4, <3>3
    <3> QED BY <2>1, <3>1, <3>2, <3>4 DEF Renewed
  <2>5. record[o].picture = record[o].layers /\ (\A w \in record[o].stale : Old(w)) => record[o].stale = {}
    BY <2>4
  <2> QED BY <1>2, <2>1, <2>2, <2>3, <2>5
<1> QED BY <1>2, <1>6

\* window_outputs.c:475-541: for any outputs, bindings and number of changes, no
\* update is lost between a client's drawing and the picture of an output.
THEOREM FramesCorrect == FramesSpec => []NoUpdateIsLost
<1>1. FramesInit => FramesInv
  <2> SUFFICES ASSUME FramesInit PROVE FramesInv
    OBVIOUS
  <2>1. NoSelection \in Selections /\ NoSelection.window = "none" BY DEF NoSelection, Selections
  <2>2. NoImage \in WindowImages /\ ~NoImage.there BY DEF NoImage, WindowImages, NoPixmap
  <2>3. \A o \in Views : views[o] = NoSelection BY DEF FramesInit
  <2>4. \A o \in Views : /\ record[o] \in Records /\ record[o].binding = 0 /\ record[o].shows = 0
                         /\ record[o].stale = {}
    BY DEF FramesInit, Records
  <2>5. pane \in [Panes -> Windows] /\ \A w \in Panes : pane[w].alive /\ ~pane[w].redirected
    BY DEF FramesInit, Windows, NoPixmap
  <2>6. FramesType
    <3>1. record \in [Views -> Records]
      <4>1. record = [o \in Views |-> record[o]] BY DEF FramesInit
      <4> QED BY <2>4, <4>1
    <3>2. views \in [Views -> Selections] BY <2>1 DEF FramesInit
    <3>3. images \in [Pictured -> WindowImages] BY <2>2 DEF FramesInit
    <3>4. bindings \in [Views -> Nat] BY DEF FramesInit
    <3> QED BY <2>5, <3>1, <3>2, <3>3, <3>4 DEF FramesType
  <2>7. PanesInv BY <2>5 DEF PanesInv
  <2>8. ImagesInv BY <2>2 DEF FramesInit, ImagesInv
  <2>9. ASSUME NEW o \in Views PROVE OutputInv(o)
    <3>1. ~Bound(o) /\ bindings[o] = 0 BY <2>1, <2>3 DEF Bound, FramesInit
    <3>2. NumbersInv(o) BY <2>4, <3>1 DEF NumbersInv
    <3>3. PictureInv(o) BY <2>4, <3>1 DEF PictureInv
    <3>4. FamilyInv(o) BY <3>1 DEF FamilyInv
    <3> QED BY <3>1, <3>2, <3>3, <3>4 DEF OutputInv
  <2> QED BY <2>6, <2>7, <2>8, <2>9 DEF FramesInv
<1>2. FramesInv /\ [FramesNext]_frameVars => FramesInv'
  <2> SUFFICES ASSUME FramesInv, [FramesNext]_frameVars PROVE FramesInv'
    OBVIOUS
  <2>1. ASSUME NEW w \in Pictured, Paint(w) PROVE FramesInv' BY <2>1, PaintStep
  <2>2. ASSUME NEW w \in Panes, Map(w) PROVE FramesInv' BY <2>2, MapStep
  <2>3. ASSUME NEW w \in Panes, Unmap(w) PROVE FramesInv' BY <2>3, UnmapStep
  <2>4. ASSUME NEW w \in Panes, Configure(w) PROVE FramesInv' BY <2>4, ConfigureStep
  <2>5. ASSUME NEW w \in Panes, DestroyPane(w) PROVE FramesInv' BY <2>5, DestroyStep
  <2>6. ASSUME NEW w \in Panes, CreatePane(w) PROVE FramesInv' BY <2>6, CreateStep
  <2>7. ASSUME NEW o \in Views, ReleaseView(o) PROVE FramesInv' BY <2>7, ReleaseViewStep
  <2>8. ASSUME NEW o \in Views, Viewport(o) PROVE FramesInv' BY <2>8, ViewportStep
  <2>9. ASSUME NEW o \in Views, DrawView(o) PROVE FramesInv' BY <2>9, DrawStep
  <2>10. ASSUME NEW b \in Bindings, BindView(b[1], b[2], b[3]) PROVE FramesInv' BY <2>10, BindStep
  <2>11. CASE Publish BY <2>11, PublishStep
  <2>12. CASE UNCHANGED frameVars
    <3>1. views' = views /\ images' = images /\ pane' = pane /\ bindings' = bindings /\ record' = record
      BY <2>12 DEF frameVars
    <3>2. FramesType' BY <3>1 DEF FramesInv, FramesType
    <3>3. \A o \in Views : Disturbed(o) BY <3>1 DEF Disturbed
    <3>4. \A o \in Views : OutputInv(o)' BY <3>1, <3>3, DisturbedStep
    <3> QED BY <3>1, <3>2, <3>4, ImagesKept DEF FramesInv
  <2> QED BY <2>1, <2>2, <2>3, <2>4, <2>5, <2>6, <2>7, <2>8, <2>9, <2>10, <2>11, <2>12 DEF FramesNext
<1> QED BY <1>1, <1>2, NothingLost, PTL DEF FramesSpec

-----------------------------------------------------------------------------
(* Resource channel: lorie/resource_channel.c.                             *)

\* Every descriptor connection c can own.
Own(c) == {Socket(c), Endpoint(c)} \cup UNION {Rights(c, i) : i \in Ids}

Descriptors == UNION {Own(c) : c \in Connections}

Channel == [open : BOOLEAN, fd : BOOLEAN, watched : BOOLEAN, timer : BOOLEAN, pending : BOOLEAN,
            ready : BOOLEAN, sent : BOOLEAN, rights : SUBSET Descriptors,
            request : Ids \cup {NoId}]

ChannelTypes ==
    /\ stage \in [Connections -> {"new", "admission", "client", "gone"}]
    /\ admissions \in Nat
    /\ resources \in [Connections -> Channel]
    /\ asked \in [Connections -> Seq(Ids)]
    /\ answers \in [Connections -> Seq([kind : Replies, rights : SUBSET Descriptors])]
    /\ segments \in [Connections -> SUBSET (Ids \X SUBSET Descriptors)]

IdsOf(S) == {s[1] : s \in S}

\* A channel r and the attachments S of connection c: only a ready channel has
\* rights, those of the very segment it asked for, which was not attached yet.
Sound(c, r, S) ==
    /\ r.watched => r.fd /\ r.pending /\ ~r.ready /\ r.request \in Ids /\ r.request \notin IdsOf(S)
    /\ ~r.ready => r.rights = {}
    /\ r.rights # {} =>
         r.request \in Ids /\ r.rights = Rights(c, r.request) /\ r.request \notin IdsOf(S)
    /\ \A s \in S : s[1] \in Ids /\ s[2] = Rights(c, s[1])

\* What a broker may answer to request i.
Reply(c, i) ==
    {m \in [kind : Replies, rights : SUBSET Rights(c, i)] :
        (m.kind = "grant" => m.rights = Rights(c, i)) /\ (m.kind = "refusal" => m.rights = {})}

\* An open channel carries the request it waits for or the answer to it, and
\* nothing when it waits for none; a closed one is never read again.
InFlight(c, r, q, a) ==
    r.fd => IF r.watched /\ r.sent
            THEN \/ q = <<r.request>> /\ a = <<>>
                 \/ q = <<>> /\ \E m \in Reply(c, r.request) : a = <<m>>
            ELSE q = <<>> /\ a = <<>>

\* Before and after its life a connection has no channel.
Bare(c) ==
    /\ stage[c] # "client" => resources[c] = NoChannel /\ segments[c] = {}
    /\ stage[c] \in {"new", "admission"} => asked[c] = <<>> /\ answers[c] = <<>>

ChannelsAreSound ==
    \A c \in Connections :
        /\ Sound(c, resources[c], segments[c])
        /\ InFlight(c, resources[c], asked[c], answers[c])
        /\ Bare(c)

Admitted == {c \in Connections : stage[c] = "admission"}

AdmissionsAreCounted ==
    IsFiniteSet(Admitted) /\ admissions = Cardinality(Admitted) /\ admissions <= MaxAdmissions

AllAreOwned == installed = UNION {OwnedBy(c) : c \in Connections}

\* The inductive invariant.
ChannelInv == ChannelTypes /\ ChannelsAreSound /\ AdmissionsAreCounted /\ AllAreOwned

-----------------------------------------------------------------------------
\* Descriptors.

\* The descriptors of connections, and of segments, are told apart.
LEMMA DescriptorsApart ==
    /\ \A c, d : c # d => Own(c) \cap Own(d) = {}
    /\ \A c, i, j : i # j => Rights(c, i) \cap Rights(c, j) = {}
    /\ \A c, i : Socket(c) \notin Rights(c, i) /\ Endpoint(c) \notin Rights(c, i) /\ Rights(c, i) # {}
    /\ \A c : Socket(c) # Endpoint(c)
BY DEF Own, Socket, Endpoint, Rights

\* What a channel r and the attachments S of connection c own.
OwnedOf(c, st, r, S) ==
    (IF st \in {"admission", "client"} THEN {Socket(c)} ELSE {})
    \cup (IF r.fd THEN {Endpoint(c)} ELSE {})
    \cup r.rights
    \cup UNION {s[2] : s \in S}

\* A segment that was not attached shares no descriptor with those that were.
LEMMA FreshRights ==
    ASSUME NEW c, NEW r, NEW S, Sound(c, r, S), NEW i, i \notin IdsOf(S)
    PROVE  Rights(c, i) \cap UNION {s[2] : s \in S} = {}
<1>1. ASSUME NEW s \in S PROVE Rights(c, i) \cap s[2] = {}
  <2>1. s[1] # i /\ s[2] = Rights(c, s[1]) BY DEF Sound, IdsOf
  <2> QED BY <2>1, DescriptorsApart
<1> QED BY <1>1

\* The rights of a channel are none that were attached.
LEMMA RightsApart ==
    ASSUME NEW c, NEW r, NEW S, Sound(c, r, S)
    PROVE  r.rights \cap UNION {s[2] : s \in S} = {}
<1>1. CASE r.rights # {} BY <1>1, FreshRights DEF Sound
<1> QED BY <1>1

\* What a connection owns are rights it was given.
LEMMA OwnedInOwn ==
    ASSUME NEW c, NEW r, NEW S, Sound(c, r, S), NEW st
    PROVE  OwnedOf(c, st, r, S) \subseteq Own(c)
<1>1. r.rights \subseteq Own(c) BY DEF Sound, Own
<1>2. UNION {s[2] : s \in S} \subseteq Own(c)
  <2>1. ASSUME NEW s \in S PROVE s[2] \subseteq Own(c) BY DEF Sound, Own
  <2> QED BY <2>1
<1> QED BY <1>1, <1>2 DEF OwnedOf, Own

\* resource_channel.c:54-66: closing the endpoint and the rights X that came.
LEMMA Closing ==
    ASSUME NEW c, NEW st, NEW r, NEW q, NEW S, Sound(c, r, S),
           NEW X \in SUBSET UNION {Rights(c, i) : i \in Ids}, r.rights \subseteq X,
           X \cap UNION {s[2] : s \in S} = {}, ~q.fd, q.rights = {}
    PROVE  OwnedOf(c, st, q, S) = OwnedOf(c, st, r, S) \ (X \cup {Endpoint(c)})
<1> DEFINE T == UNION {s[2] : s \in S}
<1>1. Socket(c) \notin X /\ Socket(c) # Endpoint(c) BY DescriptorsApart
<1>2. Endpoint(c) \notin T
  <2>1. ASSUME NEW s \in S PROVE Endpoint(c) \notin s[2] BY DescriptorsApart DEF Sound
  <2> QED BY <2>1
<1>3. X \cap T = {} OBVIOUS
<1>4. /\ OwnedOf(c, st, q, S) = (IF st \in {"admission", "client"} THEN {Socket(c)} ELSE {}) \cup T
      /\ OwnedOf(c, st, r, S) = (IF st \in {"admission", "client"} THEN {Socket(c)} ELSE {})
                                \cup (IF r.fd THEN {Endpoint(c)} ELSE {}) \cup r.rights \cup T
  BY DEF OwnedOf
<1> HIDE DEF T
<1> QED BY <1>1, <1>2, <1>3, <1>4

\* A step of connection c alone that closes R and opens A.
LEMMA LocalStep ==
    ASSUME ChannelInv, NEW c \in Connections, NEW R \in SUBSET Own(c), NEW A,
           \A d \in Connections \ {c} :
             /\ stage'[d] = stage[d] /\ resources'[d] = resources[d] /\ segments'[d] = segments[d]
             /\ asked'[d] = asked[d] /\ answers'[d] = answers[d],
           Sound(c, resources'[c], segments'[c]),
           InFlight(c, resources'[c], asked'[c], answers'[c]),
           Bare(c)',
           OwnedOf(c, stage'[c], resources'[c], segments'[c]) =
             (OwnedOf(c, stage[c], resources[c], segments[c]) \ R) \cup A,
           installed' = (installed \ R) \cup A
    PROVE  ChannelsAreSound' /\ AllAreOwned'
<1>1. ASSUME NEW d \in Connections
      PROVE  /\ Sound(d, resources'[d], segments'[d])
             /\ InFlight(d, resources'[d], asked'[d], answers'[d])
             /\ Bare(d)'
  <2>1. CASE d = c BY <2>1
  <2>2. CASE d # c
    <3>1. /\ stage'[d] = stage[d] /\ resources'[d] = resources[d] /\ segments'[d] = segments[d]
          /\ asked'[d] = asked[d] /\ answers'[d] = answers[d]
      BY <2>2
    <3>2. Sound(d, resources[d], segments[d]) /\ InFlight(d, resources[d], asked[d], answers[d])
          /\ Bare(d)
      BY DEF ChannelInv, ChannelsAreSound
    <3>3. Bare(d)' BY <3>1, <3>2 DEF Bare
    <3> QED BY <3>1, <3>2, <3>3
  <2> QED BY <2>1, <2>2
<1>2. ChannelsAreSound' BY <1>1 DEF ChannelsAreSound
<1>3. \A d \in Connections : OwnedBy(d) = OwnedOf(d, stage[d], resources[d], segments[d])
  BY DEF OwnedBy, OwnedOf
<1>4. \A d \in Connections : OwnedBy(d)' = OwnedOf(d, stage'[d], resources'[d], segments'[d])
  BY DEF OwnedBy, OwnedOf
<1>5. \A d \in Connections : OwnedBy(d) \subseteq Own(d)
  BY <1>3, OwnedInOwn DEF ChannelInv, ChannelsAreSound
<1>6. \A d \in Connections \ {c} : OwnedBy(d)' = OwnedBy(d) /\ OwnedBy(d) \cap R = {}
  <2> TAKE d \in Connections \ {c}
  <2>1. OwnedBy(d)' = OwnedBy(d) BY <1>3, <1>4
  <2>2. Own(d) \cap Own(c) = {} BY DescriptorsApart
  <2> QED BY <1>5, <2>1, <2>2
<1>7. OwnedBy(c)' = (OwnedBy(c) \ R) \cup A BY <1>3, <1>4
<1>8. \A x : x \in installed <=> \E d \in Connections : x \in OwnedBy(d)
  BY DEF ChannelInv, AllAreOwned
<1>9. ASSUME NEW x PROVE x \in installed' <=> \E d \in Connections : x \in OwnedBy(d)'
  <2>1. ASSUME x \in installed' PROVE \E d \in Connections : x \in OwnedBy(d)'
    <3>1. CASE x \in A BY <1>7, <3>1
    <3>2. CASE x \notin A
      <4>1. x \in installed /\ x \notin R BY <2>1, <3>2
      <4>2. PICK d \in Connections : x \in OwnedBy(d) BY <1>8, <4>1
      <4> QED BY <1>6, <1>7, <4>1, <4>2
    <3> QED BY <3>1, <3>2
  <2>2. ASSUME NEW d \in Connections, x \in OwnedBy(d)' PROVE x \in installed'
    <3>1. CASE d = c BY <1>7, <1>8, <2>2, <3>1
    <3>2. CASE d # c
      <4>1. x \in OwnedBy(d) /\ x \notin R BY <1>6, <2>2, <3>2
      <4> QED BY <1>8, <4>1
    <3> QED BY <3>1, <3>2
  <2> QED BY <2>1, <2>2
<1>10. AllAreOwned' BY <1>9 DEF AllAreOwned
<1> QED BY <1>2, <1>10

-----------------------------------------------------------------------------
\* The steps of a channel.

\* Rights of a connection are descriptors.
LEMMA RightsAreDescriptors ==
    ASSUME NEW c \in Connections
    PROVE  /\ UNION {Rights(c, i) : i \in Ids} \subseteq Own(c)
           /\ Own(c) \subseteq Descriptors
           /\ \A i \in Ids : Rights(c, i) \subseteq Descriptors
BY DEF Own, Descriptors

\* resource_channel.c:57-66, failing: the channel r is closed and ready.
LEMMA FinishFails ==
    ASSUME resources \in [Connections -> Channel], NEW c \in Connections, NEW r \in Channel,
           finish(c, r, TRUE)
    PROVE  /\ resources' \in [Connections -> Channel]
           /\ \A d \in Connections \ {c} : resources'[d] = resources[d]
           /\ ~resources'[c].fd /\ ~resources'[c].watched /\ resources'[c].rights = {}
           /\ installed' = installed \ (r.rights \cup {Endpoint(c)})
<1> DEFINE q == [[Disconnected(r) EXCEPT !.rights = {}] EXCEPT !.timer = FALSE, !.watched = FALSE, !.ready = TRUE]
<1>1. q \in Channel /\ ~q.fd /\ ~q.watched /\ q.rights = {} BY DEF Disconnected, Channel
<1>2. resources' = [resources EXCEPT ![c] = q] BY DEF finish
<1>3. installed' = (installed \cup r.rights) \ (r.rights \cup {Endpoint(c)}) BY DEF finish
<1> HIDE DEF q
<1> QED BY <1>1, <1>2, <1>3

\* The same, succeeding: the rights that came are kept.
LEMMA FinishSucceeds ==
    ASSUME resources \in [Connections -> Channel], NEW c \in Connections, NEW r \in Channel,
           finish(c, r, FALSE)
    PROVE  /\ resources' \in [Connections -> Channel]
           /\ \A d \in Connections \ {c} : resources'[d] = resources[d]
           /\ ~resources'[c].watched /\ resources'[c].ready /\ resources'[c].fd = r.fd
           /\ resources'[c].rights = r.rights /\ resources'[c].request = r.request
           /\ installed' = installed \cup r.rights
<1> DEFINE q == [r EXCEPT !.timer = FALSE, !.watched = FALSE, !.ready = TRUE]
<1>1. /\ q \in Channel /\ ~q.watched /\ q.ready /\ q.fd = r.fd /\ q.rights = r.rights
      /\ q.request = r.request
  BY DEF Channel
<1>2. resources' = [resources EXCEPT ![c] = q] BY DEF finish
<1>3. installed' = installed \cup r.rights BY DEF finish
<1> HIDE DEF q
<1> QED BY <1>1, <1>2, <1>3

\* What every step of a channel owes: the rest is left as it was.
ChannelStep ==
    /\ resources' \in [Connections -> Channel]
    /\ asked' \in [Connections -> Seq(Ids)]
    /\ answers' \in [Connections -> Seq([kind : Replies, rights : SUBSET Descriptors])]
    /\ segments' \in [Connections -> SUBSET (Ids \X SUBSET Descriptors)]
    /\ ChannelsAreSound'
    /\ AllAreOwned'

\* A failing finish() with rights X on the way, whatever becomes of the queues.
LEMMA FailureStep ==
    ASSUME ChannelInv, NEW c \in Connections, NEW r \in Channel, finish(c, r, TRUE),
           stage[c] = "client", stage' = stage, segments' = segments,
           r.rights \in SUBSET UNION {Rights(c, i) : i \in Ids},
           resources[c].rights \subseteq r.rights,
           r.rights \cap UNION {s[2] : s \in segments[c]} = {},
           \A d \in Connections \ {c} : asked'[d] = asked[d] /\ answers'[d] = answers[d]
    PROVE  resources' \in [Connections -> Channel] /\ ChannelsAreSound' /\ AllAreOwned'
<1> DEFINE R == r.rights \cup {Endpoint(c)}
<1>0. resources \in [Connections -> Channel] BY DEF ChannelInv, ChannelTypes
<1>1. /\ resources' \in [Connections -> Channel]
      /\ \A d \in Connections \ {c} : resources'[d] = resources[d]
      /\ ~resources'[c].fd /\ ~resources'[c].watched /\ resources'[c].rights = {}
      /\ installed' = installed \ R
  BY <1>0, FinishFails
<1>2. R \in SUBSET Own(c) BY RightsAreDescriptors DEF Own
<1>3. Sound(c, resources[c], segments[c]) BY DEF ChannelInv, ChannelsAreSound
<1>4. Sound(c, resources'[c], segments'[c]) BY <1>1, <1>3 DEF Sound
<1>5. InFlight(c, resources'[c], asked'[c], answers'[c]) BY <1>1 DEF InFlight
<1>6. Bare(c)' BY DEF Bare
<1>7. OwnedOf(c, stage'[c], resources'[c], segments'[c]) =
        (OwnedOf(c, stage[c], resources[c], segments[c]) \ R) \cup {}
  <2>1. OwnedOf(c, stage[c], resources'[c], segments[c]) =
          OwnedOf(c, stage[c], resources[c], segments[c]) \ R
    <3> DEFINE p == resources[c]
               q == resources'[c]
               S == segments[c]
               X == r.rights
               st == stage[c]
    <3>1. /\ Sound(c, p, S) /\ X \in SUBSET UNION {Rights(c, i) : i \in Ids} /\ p.rights \subseteq X
          /\ X \cap UNION {s[2] : s \in S} = {} /\ ~q.fd /\ q.rights = {}
      BY <1>1, <1>3
    <3> HIDE DEF p, q, S, X, st
    <3>2. OwnedOf(c, st, q, S) = OwnedOf(c, st, p, S) \ (X \cup {Endpoint(c)})
      BY ONLY <3>1, Closing
    <3> QED BY <3>2 DEF p, q, S, X, st
  <2> QED BY <2>1
<1>8. installed' = (installed \ R) \cup {} BY <1>1
<1> HIDE DEF R
<1>9. \A d \in Connections \ {c} :
        /\ stage'[d] = stage[d] /\ resources'[d] = resources[d] /\ segments'[d] = segments[d]
        /\ asked'[d] = asked[d] /\ answers'[d] = answers[d]
  BY <1>1
<1> QED BY <1>1, <1>2, <1>4, <1>5, <1>6, <1>7, <1>8, <1>9, LocalStep

\* The facts of one connection.
LEMMA OneChannel ==
    ASSUME ChannelInv, NEW c \in Connections
    PROVE  /\ resources[c] \in Channel /\ segments[c] \in SUBSET (Ids \X SUBSET Descriptors)
           /\ asked[c] \in Seq(Ids)
           /\ answers[c] \in Seq([kind : Replies, rights : SUBSET Descriptors])
           /\ Sound(c, resources[c], segments[c])
           /\ InFlight(c, resources[c], asked[c], answers[c]) /\ Bare(c)
           /\ resources[c].rights \in SUBSET UNION {Rights(c, i) : i \in Ids}
<1>1. Sound(c, resources[c], segments[c]) BY DEF ChannelInv, ChannelsAreSound
<1>2. resources[c].rights \in SUBSET UNION {Rights(c, i) : i \in Ids} BY <1>1 DEF Sound
<1> QED BY <1>1, <1>2 DEF ChannelInv, ChannelsAreSound, ChannelTypes

\* resource_channel.c:98-123, the answers to an attachment.
LEMMA AttachStep ==
    ASSUME ChannelInv, NEW c \in Connections, NEW i \in Ids, Attach(c, i)
    PROVE  ChannelStep
<1> DEFINE r == resources[c]
           S == segments[c]
           heard == [r EXCEPT !.ready = FALSE, !.pending = FALSE]
<1>0. ChannelTypes BY DEF ChannelInv
<1> USE <1>0
<1>1. PICK fails \in BOOLEAN, armed \in BOOLEAN : Fresh(c, i) /\ lorieResourcesShm(c, i, fails, armed)
  BY DEF Attach
<1>2. /\ stage[c] = "client" /\ stage' = stage /\ asked' = asked /\ answers' = answers
      /\ i \notin IdsOf(S)
  BY <1>1 DEF lorieResourcesShm, Fresh, IdsOf
<1>3. /\ r \in Channel /\ S \in SUBSET (Ids \X SUBSET Descriptors)
      /\ Sound(c, r, S) /\ InFlight(c, r, asked[c], answers[c])
      /\ r.rights \in SUBSET UNION {Rights(c, j) : j \in Ids}
  BY OneChannel
<1>4. ASSUME NEW q \in Channel, resources' = [resources EXCEPT ![c] = q], segments' = segments,
             installed' = installed \ (r.rights \cup {Endpoint(c)}),
             ~q.fd, ~q.watched, q.rights = {}
      PROVE  ChannelStep
  <2> DEFINE R == r.rights \cup {Endpoint(c)}
  <2>1. R \in SUBSET Own(c) BY <1>3, RightsAreDescriptors DEF Own
  <2>2. Sound(c, q, S) /\ InFlight(c, q, asked[c], answers[c])
    BY <1>3, <1>4 DEF Sound, InFlight
  <2>3. OwnedOf(c, stage[c], q, S) = OwnedOf(c, stage[c], r, S) \ R
    <3>1. r.rights \cap UNION {s[2] : s \in S} = {} BY <1>3, RightsApart
    <3> HIDE DEF r, S
    <3> QED BY <1>3, <1>4, <3>1, Closing
  <2>4. resources'[c] = q /\ \A d \in Connections \ {c} : resources'[d] = resources[d]
    BY <1>4 DEF ChannelTypes
  <2>5. Bare(c)' BY <1>2 DEF Bare
  <2>6. installed' = (installed \ R) \cup {} BY <1>4
  <2>7. OwnedOf(c, stage'[c], resources'[c], segments'[c]) =
          (OwnedOf(c, stage[c], resources[c], segments[c]) \ R) \cup {}
    BY <1>2, <1>4, <2>3, <2>4
  <2> HIDE DEF R
  <2>8. ChannelsAreSound' /\ AllAreOwned'
    BY <1>2, <1>4, <2>1, <2>2, <2>4, <2>5, <2>6, <2>7, LocalStep
  <2> QED BY <1>2, <1>4, <2>8 DEF ChannelStep, ChannelTypes
<1>5. ASSUME NEW q \in Channel, NEW T \in SUBSET (Ids \X SUBSET Descriptors),
             resources' = [resources EXCEPT ![c] = q], segments' = [segments EXCEPT ![c] = @ \cup T],
             installed' = installed, q.fd = r.fd,
             q.rights \cup UNION {s[2] : s \in S \cup T} = r.rights \cup UNION {s[2] : s \in S},
             Sound(c, q, S \cup T), InFlight(c, q, asked[c], answers[c])
      PROVE  ChannelStep
  <2>1. /\ resources'[c] = q /\ \A d \in Connections \ {c} : resources'[d] = resources[d]
        /\ segments'[c] = S \cup T /\ \A d \in Connections \ {c} : segments'[d] = segments[d]
    BY <1>5 DEF ChannelTypes
  <2>2. OwnedOf(c, stage[c], q, S \cup T) = OwnedOf(c, stage[c], r, S)
    <3> DEFINE U == UNION {s[2] : s \in S}
               V == UNION {s[2] : s \in S \cup T}
    <3>1. q.rights \cup V = r.rights \cup U BY <1>5
    <3>2. /\ OwnedOf(c, stage[c], q, S \cup T) =
               (IF stage[c] \in {"admission", "client"} THEN {Socket(c)} ELSE {})
               \cup (IF q.fd THEN {Endpoint(c)} ELSE {}) \cup q.rights \cup V
          /\ OwnedOf(c, stage[c], r, S) =
               (IF stage[c] \in {"admission", "client"} THEN {Socket(c)} ELSE {})
               \cup (IF r.fd THEN {Endpoint(c)} ELSE {}) \cup r.rights \cup U
      BY DEF OwnedOf
    <3> HIDE DEF U, V, r
    <3> QED BY <1>5, <3>1, <3>2
  <2>3. OwnedOf(c, stage'[c], resources'[c], segments'[c]) =
          (OwnedOf(c, stage[c], resources[c], segments[c]) \ {}) \cup {}
    BY <1>2, <2>1, <2>2
  <2>4. installed' = (installed \ {}) \cup {} /\ {} \in SUBSET Own(c) BY <1>5
  <2>5. Bare(c)' BY <1>2 DEF Bare
  <2>6. ChannelsAreSound' /\ AllAreOwned' BY <1>2, <1>5, <2>1, <2>3, <2>4, <2>5, LocalStep
  <2>7. segments' \in [Connections -> SUBSET (Ids \X SUBSET Descriptors)]
    <3>1. S \cup T \in SUBSET (Ids \X SUBSET Descriptors) BY <1>3
    <3> HIDE DEF S
    <3> QED BY <1>5, <3>1 DEF ChannelTypes, S
  <2> QED BY <1>2, <1>5, <2>6, <2>7 DEF ChannelStep, ChannelTypes
<1>6. heard \in Channel /\ heard.fd = r.fd /\ heard.watched = r.watched /\ ~heard.ready
      /\ heard.rights = r.rights /\ heard.request = r.request /\ heard.sent = r.sent
  BY <1>3 DEF Channel
<1>7. ASSUME Answered(c, r, {}) PROVE segments' = segments
  <2>1. segments' = [segments EXCEPT ![c] = @ \cup {}] BY <1>7 DEF Answered
  <2> QED BY <2>1 DEF ChannelTypes
<1>8. CASE /\ r.ready /\ r.request # i
           /\ installed' = installed \ (r.rights \cup {Endpoint(c)})
           /\ Answered(c, [Disconnected(heard) EXCEPT !.rights = {}], {})
  <2> DEFINE q == [Disconnected(heard) EXCEPT !.rights = {}]
  <2> HIDE DEF heard
  <2>1. q \in Channel /\ ~q.fd /\ ~q.watched /\ q.rights = {} BY <1>6 DEF Channel, Disconnected
  <2>2. resources' = [resources EXCEPT ![c] = q] /\ segments' = segments
    BY <1>8 DEF Answered, ChannelTypes
  <2> HIDE DEF q
  <2> QED BY <1>4, <1>8, <2>1, <2>2
<1>9. CASE r.ready /\ r.request = i /\ r.rights = {} /\ Answered(c, heard, {}) /\ UNCHANGED installed
  <2>1. resources' = [resources EXCEPT ![c] = heard] /\ segments' = [segments EXCEPT ![c] = @ \cup {}]
    BY <1>9 DEF Answered
  <2>2. S \cup {} = S /\ {} \in SUBSET (Ids \X SUBSET Descriptors) OBVIOUS
  <2> HIDE DEF heard, r
  <2>3. Sound(c, heard, S \cup {}) /\ InFlight(c, heard, asked[c], answers[c])
    BY <1>3, <1>6, <1>9, <2>2 DEF Sound, InFlight
  <2> QED BY <1>5, <1>6, <1>9, <2>1, <2>2, <2>3
<1>10. CASE /\ r.ready /\ r.request = i /\ r.rights # {}
            /\ Answered(c, [heard EXCEPT !.rights = {}], {<<i, r.rights>>}) /\ UNCHANGED installed
  <2> DEFINE q == [heard EXCEPT !.rights = {}]
             T == {<<i, r.rights>>}
  <2>1. resources' = [resources EXCEPT ![c] = q] /\ segments' = [segments EXCEPT ![c] = @ \cup T]
    BY <1>10 DEF Answered
  <2>2. r.rights = Rights(c, i) /\ r.rights \subseteq Descriptors
    BY <1>3, <1>10 DEF Sound, Channel
  <2>3. T \in SUBSET (Ids \X SUBSET Descriptors) BY <2>2
  <2> HIDE DEF heard, r
  <2>4. q \in Channel /\ q.fd = r.fd /\ q.watched = r.watched /\ q.rights = {} /\ ~q.ready /\ q.sent = r.sent
    BY <1>6 DEF Channel
  <2> HIDE DEF q
  <2>5. Sound(c, q, S \cup T)
    <3>1. ~q.watched BY <1>3, <1>10, <2>4 DEF Sound
    <3>2. \A s \in S \cup T : s[1] \in Ids /\ s[2] = Rights(c, s[1]) BY <1>3, <2>2 DEF Sound
    <3> QED BY <2>4, <3>1, <3>2 DEF Sound
  <2>6. InFlight(c, q, asked[c], answers[c]) BY <1>3, <1>10, <2>4 DEF InFlight, Sound
  <2>7. q.rights \cup UNION {s[2] : s \in S \cup T} = r.rights \cup UNION {s[2] : s \in S}
    <3> HIDE DEF S
    <3>1. \A x : x \in UNION {s[2] : s \in S \cup T} <=>
                x \in UNION {s[2] : s \in S} \/ x \in r.rights
      <4>1. \A x : x \in UNION {s[2] : s \in S} <=> \E s \in S : x \in s[2] OBVIOUS
      <4>2. \A x : x \in UNION {s[2] : s \in S \cup T} <=> \E s \in S \cup T : x \in s[2] OBVIOUS
      <4>3. \A x : (\E s \in S \cup T : x \in s[2]) <=> (\E s \in S : x \in s[2]) \/ x \in r.rights
        <5>1. <<i, r.rights>>[2] = r.rights OBVIOUS
        <5>2. \A s : s \in S \cup T <=> s \in S \/ s = <<i, r.rights>> OBVIOUS
        <5> HIDE DEF T
        <5> QED BY <5>1, <5>2
      <4> QED BY <4>1, <4>2, <4>3
    <3> QED BY <2>4, <3>1
  <2> HIDE DEF T
  <2> QED BY <1>5, <1>10, <2>1, <2>3, <2>4, <2>5, <2>6, <2>7
<1>11. CASE ~r.ready /\ ~r.fd /\ Answered(c, r, {}) /\ UNCHANGED installed
  <2>1. resources' = [resources EXCEPT ![c] = r] /\ segments' = [segments EXCEPT ![c] = @ \cup {}]
    BY <1>11 DEF Answered
  <2>2. S \cup {} = S /\ {} \in SUBSET (Ids \X SUBSET Descriptors) OBVIOUS
  <2> HIDE DEF r
  <2> QED BY <1>3, <1>5, <1>11, <2>1, <2>2
<1>12. CASE /\ ~r.ready /\ r.fd /\ ~r.pending /\ installed' = installed \ {Endpoint(c)}
            /\ Answered(c, [Disconnected(r) EXCEPT !.request = i, !.sent = FALSE, !.timer = armed], {})
  <2> DEFINE q == [Disconnected(r) EXCEPT !.request = i, !.sent = FALSE, !.timer = armed]
  <2>1. resources' = [resources EXCEPT ![c] = q] /\ segments' = segments
    BY <1>12 DEF Answered, ChannelTypes
  <2>2. r.rights = {} BY <1>3, <1>12 DEF Sound
  <2> HIDE DEF r
  <2>3. q \in Channel /\ ~q.fd /\ ~q.watched /\ q.rights = {} BY <1>3, <2>2 DEF Channel, Disconnected
  <2> HIDE DEF q
  <2> QED BY <1>4, <1>12, <2>1, <2>2, <2>3
<1>13. CASE /\ ~r.ready /\ r.fd /\ ~r.pending /\ UNCHANGED <<installed, segments>>
            /\ resources' = [resources EXCEPT ![c] =
                               [r EXCEPT !.request = i, !.sent = FALSE, !.timer = TRUE,
                                         !.watched = TRUE, !.pending = TRUE]]
  <2> DEFINE q == [r EXCEPT !.request = i, !.sent = FALSE, !.timer = TRUE,
                            !.watched = TRUE, !.pending = TRUE]
  <2>1. resources' = [resources EXCEPT ![c] = q] BY <1>13
  <2>2. segments' = [segments EXCEPT ![c] = @ \cup {}] BY <1>13 DEF ChannelTypes
  <2>3. S \cup {} = S /\ {} \in SUBSET (Ids \X SUBSET Descriptors) OBVIOUS
  <2> HIDE DEF r
  <2>4. /\ q \in Channel /\ q.fd = r.fd /\ q.watched /\ q.pending /\ ~q.sent /\ q.request = i
        /\ q.ready = r.ready /\ q.rights = r.rights
    BY <1>3 DEF Channel
  <2> HIDE DEF q
  <2>5. Sound(c, q, S \cup {}) BY <1>2, <1>3, <1>13, <2>3, <2>4 DEF Sound
  <2>6. InFlight(c, q, asked[c], answers[c]) BY <1>3, <1>13, <2>4 DEF InFlight, Sound
  <2> QED BY <1>5, <1>13, <2>1, <2>2, <2>3, <2>4, <2>5, <2>6
<1> QED BY <1>1, <1>8, <1>9, <1>10, <1>11, <1>12, <1>13 DEF lorieResourcesShm

\* A channel that waits has an empty list of rights, and one request at most
\* on its way.
LEMMA WorkingChannel ==
    ASSUME ChannelInv, NEW c \in Connections, Working(c)
    PROVE  /\ resources[c].fd /\ ~resources[c].ready /\ resources[c].rights = {}
           /\ resources[c].request \in Ids /\ resources[c].request \notin IdsOf(segments[c])
           /\ Rights(c, resources[c].request) \cap UNION {s[2] : s \in segments[c]} = {}
<1>1. Sound(c, resources[c], segments[c]) BY OneChannel
<1>2. resources[c].request \notin IdsOf(segments[c]) BY <1>1 DEF Sound, Working
<1>3. Rights(c, resources[c].request) \cap UNION {s[2] : s \in segments[c]} = {}
  BY <1>1, <1>2, FreshRights
<1> QED BY <1>1, <1>2, <1>3 DEF Sound, Working

\* Failing with the rights the channel has.
LEMMA PlainFailure ==
    ASSUME ChannelInv, NEW c \in Connections, finish(c, resources[c], TRUE), stage[c] = "client",
           UNCHANGED <<stage, segments, asked, answers>>
    PROVE  ChannelStep
<1>1. /\ resources[c] \in Channel /\ resources[c].rights \in SUBSET UNION {Rights(c, i) : i \in Ids}
      /\ Sound(c, resources[c], segments[c])
  BY OneChannel
<1>2. resources[c].rights \cap UNION {s[2] : s \in segments[c]} = {} BY <1>1, RightsApart
<1>3. resources' \in [Connections -> Channel] /\ ChannelsAreSound' /\ AllAreOwned'
  BY <1>1, <1>2, FailureStep
<1> QED BY <1>3 DEF ChannelStep, ChannelInv, ChannelTypes

\* resource_channel.c:71-79, sending.
LEMMA SendStep ==
    ASSUME ChannelInv, NEW c \in Connections, NEW fails \in BOOLEAN, SendRequest(c, fails)
    PROVE  ChannelStep
<1> DEFINE r == resources[c]
           q == [r EXCEPT !.sent = TRUE, !.rights = {}]
<1>0. ChannelTypes BY DEF ChannelInv
<1>1. stage[c] = "client" /\ stage' = stage /\ segments' = segments /\ answers' = answers /\ Working(c)
      /\ ~r.sent
  BY DEF SendRequest, Working
<1>2. /\ r \in Channel /\ asked[c] \in Seq(Ids)
      /\ Sound(c, r, segments[c]) /\ InFlight(c, r, asked[c], answers[c])
  BY OneChannel
<1>3. r.fd /\ ~r.ready /\ r.rights = {} /\ r.request \in Ids BY <1>1, WorkingChannel
<1>4. CASE c \in hungUp BY <1>1, <1>4, PlainFailure DEF SendRequest
<1>5. CASE c \notin hungUp
  <2>1. asked' = [asked EXCEPT ![c] = Append(@, r.request)] BY <1>5 DEF SendRequest
  <2>2. asked[c] = <<>> /\ answers[c] = <<>> BY <1>1, <1>2, <1>3 DEF InFlight
  <2>3. /\ asked' \in [Connections -> Seq(Ids)] /\ asked'[c] = <<r.request>>
        /\ \A d \in Connections \ {c} : asked'[d] = asked[d]
    <3>1. Append(<<>>, r.request) = <<r.request>> /\ <<r.request>> \in Seq(Ids) BY <1>3
    <3> HIDE DEF r
    <3> QED BY <1>0, <2>1, <2>2, <3>1 DEF ChannelTypes
  <2>4. \/ finish(c, q, TRUE)
        \/ resources' = [resources EXCEPT ![c] = q] /\ installed' = installed
    BY <1>5 DEF SendRequest
  <2>5. /\ q \in Channel /\ q.rights = {} /\ q.sent /\ q.fd = r.fd /\ q.watched = r.watched
        /\ q.ready = r.ready /\ q.pending = r.pending /\ q.request = r.request
    <3> HIDE DEF r
    <3> QED BY <1>2 DEF Channel
  <2> HIDE DEF q
  <2>6. CASE finish(c, q, TRUE)
    <3>1. /\ q.rights \in SUBSET UNION {Rights(c, i) : i \in Ids} /\ resources[c].rights \subseteq q.rights
          /\ q.rights \cap UNION {s[2] : s \in segments[c]} = {}
      BY <1>3, <2>5
    <3>2. resources' \in [Connections -> Channel] /\ ChannelsAreSound' /\ AllAreOwned'
      BY <1>1, <2>3, <2>5, <2>6, <3>1, FailureStep
    <3> QED BY <1>0, <1>1, <2>3, <3>2 DEF ChannelStep, ChannelTypes
  <2>7. CASE resources' = [resources EXCEPT ![c] = q] /\ installed' = installed
    <3>1. resources'[c] = q /\ \A d \in Connections \ {c} : resources'[d] = resources[d]
      BY <1>0, <2>7 DEF ChannelTypes
    <3>2. Sound(c, q, segments[c]) BY <1>2, <1>3, <2>5 DEF Sound
    <3>3. InFlight(c, q, asked'[c], answers'[c])
      BY <1>1, <2>2, <2>3, <2>5 DEF InFlight, Working
    <3>4. Bare(c)' BY <1>1 DEF Bare
    <3>5. OwnedOf(c, stage'[c], resources'[c], segments'[c]) =
            (OwnedOf(c, stage[c], resources[c], segments[c]) \ {}) \cup {}
      BY <1>1, <1>3, <2>5, <3>1 DEF OwnedOf
    <3>6. installed' = (installed \ {}) \cup {} /\ {} \in SUBSET Own(c) BY <2>7
    <3>7. ChannelsAreSound' /\ AllAreOwned'
      BY <1>1, <2>3, <3>1, <3>2, <3>3, <3>4, <3>5, <3>6, LocalStep
    <3> QED BY <1>0, <1>1, <2>3, <2>5, <2>7, <3>7 DEF ChannelStep, ChannelTypes
  <2> QED BY <2>4, <2>6, <2>7
<1> QED BY <1>4, <1>5

\* resource_channel.c:30-86, receiving.
LEMMA ReadStep ==
    ASSUME ChannelInv, NEW c \in Connections, ReadReply(c)
    PROVE  ChannelStep
<1> DEFINE r == resources[c]
           m == Head(answers[c])
           q == [r EXCEPT !.rights = m.rights]
           S == segments[c]
<1>0. ChannelTypes BY DEF ChannelInv
<1>1. stage[c] = "client" /\ stage' = stage /\ segments' = segments /\ asked' = asked /\ Working(c)
      /\ r.sent /\ r.watched
  BY DEF ReadReply, Working
<1>2. /\ r \in Channel /\ Sound(c, r, S) /\ InFlight(c, r, asked[c], answers[c])
  BY OneChannel
<1>3. /\ r.fd /\ ~r.ready /\ r.rights = {} /\ r.request \in Ids /\ r.request \notin IdsOf(S)
      /\ Rights(c, r.request) \cap UNION {s[2] : s \in S} = {}
  BY <1>1, WorkingChannel
<1>4. CASE answers[c] = <<>> /\ finish(c, r, TRUE) /\ UNCHANGED answers BY <1>1, <1>4, PlainFailure
<1>5. CASE /\ answers[c] # <<>> /\ answers' = [answers EXCEPT ![c] = Tail(@)]
           /\ finish(c, q, m.kind = "garbage")
  <2>1. m \in Reply(c, r.request) /\ asked[c] = <<>> /\ Tail(answers[c]) = <<>>
    <3>1. PICK n \in Reply(c, r.request) : answers[c] = <<n>> /\ asked[c] = <<>>
      BY <1>1, <1>2, <1>3, <1>5 DEF InFlight
    <3>2. Head(<<n>>) = n /\ Tail(<<n>>) = <<>> OBVIOUS
    <3> HIDE DEF r
    <3> QED BY <3>1, <3>2
  <2> HIDE DEF m
  <2>2. /\ m.rights \in SUBSET Rights(c, r.request) /\ m.kind \in Replies
        /\ m.kind = "grant" => m.rights = Rights(c, r.request)
        /\ m.kind = "refusal" => m.rights = {}
    BY <2>1 DEF Reply
  <2>3. /\ m.rights \in SUBSET Descriptors /\ m.rights \in SUBSET UNION {Rights(c, i) : i \in Ids}
        /\ m.rights \in SUBSET Own(c)
    BY <1>3, <2>2, RightsAreDescriptors DEF Own
  <2>4. m.rights \cap UNION {s[2] : s \in S} = {} BY <1>3, <2>2
  <2> HIDE DEF r
  <2>5. q \in Channel /\ q.rights = m.rights /\ q.fd = r.fd /\ q.request = r.request
    BY <1>2, <2>3 DEF Channel
  <2> HIDE DEF q
  <2>6. /\ answers'[c] = <<>> /\ \A d \in Connections \ {c} : answers'[d] = answers[d]
        /\ answers' \in [Connections -> Seq([kind : Replies, rights : SUBSET Descriptors])]
    <3>1. <<>> \in Seq([kind : Replies, rights : SUBSET Descriptors]) OBVIOUS
    <3>2. answers' = [answers EXCEPT ![c] = <<>>] BY <1>5, <2>1
    <3> QED BY <1>0, <3>1, <3>2 DEF ChannelTypes
  <2>7. CASE m.kind = "garbage"
    <3>1. finish(c, q, TRUE) BY <1>5, <2>7 DEF finish
    <3>2. resources[c].rights \subseteq q.rights BY <1>3, <2>5 DEF r
    <3>3. resources' \in [Connections -> Channel] /\ ChannelsAreSound' /\ AllAreOwned'
      BY <1>1, <2>3, <2>4, <2>5, <2>6, <3>1, <3>2, FailureStep
    <3> QED BY <1>0, <1>1, <2>6, <3>3 DEF ChannelStep, ChannelTypes
  <2>8. CASE m.kind # "garbage"
    <3>1. finish(c, q, FALSE) BY <1>5, <2>8 DEF finish
    <3>2. /\ resources' \in [Connections -> Channel]
          /\ \A d \in Connections \ {c} : resources'[d] = resources[d]
          /\ ~resources'[c].watched /\ resources'[c].ready /\ resources'[c].fd = q.fd
          /\ resources'[c].rights = q.rights /\ resources'[c].request = q.request
          /\ installed' = installed \cup q.rights
      BY <1>0, <2>5, <3>1, FinishSucceeds DEF ChannelTypes
    <3>3. q.rights # {} => q.rights = Rights(c, r.request) BY <2>2, <2>5, <2>8 DEF Replies
    <3>4. Sound(c, resources'[c], segments'[c]) BY <1>1, <1>2, <1>3, <2>5, <3>2, <3>3 DEF Sound
    <3>5. InFlight(c, resources'[c], asked'[c], answers'[c])
      BY <1>1, <2>1, <2>6, <3>2 DEF InFlight
    <3>6. Bare(c)' BY <1>1 DEF Bare
    <3>7. OwnedOf(c, stage'[c], resources'[c], segments'[c]) =
            (OwnedOf(c, stage[c], resources[c], segments[c]) \ {}) \cup q.rights
      BY <1>1, <1>3, <2>5, <3>2 DEF OwnedOf, r
    <3>8. installed' = (installed \ {}) \cup q.rights /\ {} \in SUBSET Own(c) BY <3>2
    <3>9. ChannelsAreSound' /\ AllAreOwned'
      BY <1>1, <2>6, <3>2, <3>4, <3>5, <3>6, <3>7, <3>8, LocalStep
    <3> QED BY <1>0, <1>1, <2>6, <3>2, <3>9 DEF ChannelStep, ChannelTypes
  <2> QED BY <2>7, <2>8
<1> QED BY <1>4, <1>5 DEF ReadReply

\* The broker's answer, to a channel that waits for it or to one that is closed.
LEMMA BrokerStep ==
    ASSUME ChannelInv, NEW c \in Connections, NEW k \in Replies,
           NEW R \in SUBSET UNION {Rights(c, i) : i \in Ids}, BrokerAnswers(c, k, R)
    PROVE  ChannelStep
<1> DEFINE r == resources[c]
           m == [kind |-> k, rights |-> R]
<1>0. ChannelTypes BY DEF ChannelInv
<1>1. /\ UNCHANGED <<stage, installed, resources, segments>> /\ asked[c] # <<>>
      /\ asked' = [asked EXCEPT ![c] = Tail(@)] /\ answers' = [answers EXCEPT ![c] = Append(@, m)]
  BY DEF BrokerAnswers
<1>2. /\ asked[c] \in Seq(Ids) /\ answers[c] \in Seq([kind : Replies, rights : SUBSET Descriptors])
      /\ Sound(c, r, segments[c]) /\ InFlight(c, r, asked[c], answers[c]) /\ Bare(c)
      /\ r \in Channel
  BY OneChannel
<1>3. m \in [kind : Replies, rights : SUBSET Descriptors] BY RightsAreDescriptors
<1>4. r.fd => /\ asked'[c] = <<>> /\ \E n \in Reply(c, r.request) : answers'[c] = <<n>>
              /\ r.watched /\ r.sent
  <2> SUFFICES ASSUME r.fd
               PROVE  /\ asked'[c] = <<>> /\ \E n \in Reply(c, r.request) : answers'[c] = <<n>>
                      /\ r.watched /\ r.sent
    OBVIOUS
  <2>1. asked[c] = <<r.request>> /\ answers[c] = <<>> /\ r.watched /\ r.sent
    BY <1>1, <1>2 DEF InFlight
  <2>2. Head(asked[c]) = r.request /\ Tail(asked[c]) = <<>> /\ Append(answers[c], m) = <<m>>
    <3> HIDE DEF r, m
    <3> QED BY <2>1
  <2>3. m \in Reply(c, r.request)
    <3>1. /\ k = "grant" => R = Rights(c, r.request) /\ (k = "refusal" => R = {})
          /\ R \in SUBSET Rights(c, r.request)
      BY <2>2 DEF BrokerAnswers, Replies
    <3>2. m.kind = k /\ m.rights = R OBVIOUS
    <3> HIDE DEF r
    <3> QED BY <3>1, <3>2 DEF Reply, BrokerAnswers
  <2> HIDE DEF m
  <2> QED BY <1>0, <1>1, <2>1, <2>2, <2>3 DEF ChannelTypes
<1>5. /\ asked' \in [Connections -> Seq(Ids)]
      /\ answers' \in [Connections -> Seq([kind : Replies, rights : SUBSET Descriptors])]
      /\ \A d \in Connections \ {c} : asked'[d] = asked[d] /\ answers'[d] = answers[d]
  <2>1. Tail(asked[c]) \in Seq(Ids) BY <1>1, <1>2
  <2>2. Append(answers[c], m) \in Seq([kind : Replies, rights : SUBSET Descriptors]) BY <1>2, <1>3
  <2> HIDE DEF m
  <2> QED BY <1>0, <1>1, <2>1, <2>2 DEF ChannelTypes
<1>6. InFlight(c, resources'[c], asked'[c], answers'[c]) BY <1>1, <1>4 DEF InFlight
<1>7. Sound(c, resources'[c], segments'[c]) BY <1>1, <1>2
<1>8. Bare(c)' BY <1>1, <1>2 DEF Bare
<1>9. OwnedOf(c, stage'[c], resources'[c], segments'[c]) =
        (OwnedOf(c, stage[c], resources[c], segments[c]) \ {}) \cup {}
  BY <1>1
<1>10. installed' = (installed \ {}) \cup {} /\ {} \in SUBSET Own(c) BY <1>1
<1>11. ChannelsAreSound' /\ AllAreOwned' BY <1>1, <1>5, <1>6, <1>7, <1>8, <1>9, <1>10, LocalStep
<1> QED BY <1>0, <1>1, <1>5, <1>11 DEF ChannelStep, ChannelTypes

\* resource_channel.c:87-95: a client goes with all it owns.
LEMMA ClientGoneStep ==
    ASSUME ChannelInv, NEW c \in Connections, client_state(c)
    PROVE  ChannelStep
<1> DEFINE r == resources[c]
           S == segments[c]
           R == {Socket(c), Endpoint(c)} \cup r.rights \cup UNION {s[2] : s \in S}
<1>0. ChannelTypes BY DEF ChannelInv
<1>1. /\ stage' = [stage EXCEPT ![c] = "gone"] /\ resources' = [resources EXCEPT ![c] = NoChannel]
      /\ installed' = installed \ R /\ segments' = [segments EXCEPT ![c] = {}]
      /\ asked' = asked /\ answers' = answers
  BY DEF client_state
<1>2. /\ stage'[c] = "gone" /\ resources'[c] = NoChannel /\ segments'[c] = {}
      /\ \A d \in Connections \ {c} :
           stage'[d] = stage[d] /\ resources'[d] = resources[d] /\ segments'[d] = segments[d]
  BY <1>0, <1>1 DEF ChannelTypes
<1>3. /\ NoChannel \in Channel /\ ~NoChannel.fd /\ ~NoChannel.watched /\ NoChannel.rights = {}
  BY DEF NoChannel, Channel
<1>4. Sound(c, r, S) BY OneChannel
<1>5. OwnedOf(c, stage[c], r, S) \subseteq R
  <2> DEFINE T == UNION {s[2] : s \in S}
  <2> HIDE DEF T, r, S
  <2>1. R = {Socket(c), Endpoint(c)} \cup r.rights \cup T BY DEF T
  <2>2. OwnedOf(c, stage[c], r, S) = (IF stage[c] \in {"admission", "client"} THEN {Socket(c)} ELSE {})
                                     \cup (IF r.fd THEN {Endpoint(c)} ELSE {}) \cup r.rights \cup T
    BY DEF OwnedOf, T
  <2> HIDE DEF R
  <2> QED BY <2>1, <2>2
<1>6. R \in SUBSET Own(c)
  <2>1. r.rights \subseteq Own(c) BY OneChannel, RightsAreDescriptors
  <2>2. \A s \in S : s[2] \subseteq Own(c) BY <1>4 DEF Sound, Own
  <2> HIDE DEF r, S
  <2> QED BY <2>1, <2>2 DEF Own
<1>7. OwnedOf(c, stage'[c], resources'[c], segments'[c]) = {}
  <2>1. OwnedOf(c, "gone", NoChannel, {}) = {} BY <1>3 DEF OwnedOf
  <2> QED BY <1>2, <2>1
<1> HIDE DEF R
<1>8. OwnedOf(c, stage'[c], resources'[c], segments'[c]) =
        (OwnedOf(c, stage[c], resources[c], segments[c]) \ R) \cup {}
  BY <1>5, <1>7
<1>9. installed' = (installed \ R) \cup {} BY <1>1
<1>10. Sound(c, resources'[c], segments'[c]) BY <1>2, <1>3 DEF Sound
<1>11. InFlight(c, resources'[c], asked'[c], answers'[c]) BY <1>2, <1>3 DEF InFlight
<1>12. Bare(c)' BY <1>2 DEF Bare
<1>13. ChannelsAreSound' /\ AllAreOwned'
  BY <1>1, <1>2, <1>6, <1>8, <1>9, <1>10, <1>11, <1>12, LocalStep
<1>14. resources' \in [Connections -> Channel] BY <1>0, <1>1, <1>3 DEF ChannelTypes
<1>15. segments' \in [Connections -> SUBSET (Ids \X SUBSET Descriptors)]
  <2>1. {} \in SUBSET (Ids \X SUBSET Descriptors) OBVIOUS
  <2> QED BY <1>0, <1>1, <2>1 DEF ChannelTypes
<1> QED BY <1>0, <1>1, <1>13, <1>14, <1>15 DEF ChannelStep, ChannelTypes

\* resource_channel.c:124-168: a step of an admission, which has no channel
\* yet, moves its socket and brings an endpoint at most.
LEMMA AdmissionStep ==
    ASSUME ChannelInv, NEW c \in Connections, stage[c] \in {"new", "admission"},
           NEW st \in {"admission", "client", "gone"}, NEW preface \in BOOLEAN,
           st # "client" => ~preface,
           stage' = [stage EXCEPT ![c] = st],
           resources' = IF preface
                        THEN [resources EXCEPT ![c] = [NoChannel EXCEPT !.open = TRUE, !.fd = TRUE]]
                        ELSE resources,
           installed' = (installed \ (IF st = "gone" THEN {Socket(c)} ELSE {}))
                        \cup (IF st # "gone" THEN {Socket(c)} ELSE {})
                        \cup (IF preface THEN {Endpoint(c)} ELSE {}),
           UNCHANGED <<asked, answers, segments>>
    PROVE  ChannelStep
<1> DEFINE q == [NoChannel EXCEPT !.open = TRUE, !.fd = TRUE]
           R == IF st = "gone" THEN {Socket(c)} ELSE {}
           A == (IF st # "gone" THEN {Socket(c)} ELSE {}) \cup (IF preface THEN {Endpoint(c)} ELSE {})
<1>0. ChannelTypes BY DEF ChannelInv
<1>1. /\ resources[c] = NoChannel /\ segments[c] = {} /\ asked[c] = <<>> /\ answers[c] = <<>>
  BY OneChannel DEF Bare
<1>2. /\ NoChannel \in Channel /\ ~NoChannel.fd /\ ~NoChannel.watched /\ NoChannel.rights = {}
      /\ q \in Channel /\ q.fd /\ ~q.watched /\ q.rights = {}
  BY DEF NoChannel, Channel
<1> HIDE DEF q
<1>3. /\ stage'[c] = st /\ resources'[c] = IF preface THEN q ELSE NoChannel
      /\ \A d \in Connections \ {c} : stage'[d] = stage[d] /\ resources'[d] = resources[d]
      /\ resources' \in [Connections -> Channel]
  BY <1>0, <1>1, <1>2 DEF ChannelTypes, q
<1>4. Sound(c, resources'[c], segments'[c]) BY <1>1, <1>2, <1>3 DEF Sound
<1>5. InFlight(c, resources'[c], asked'[c], answers'[c]) BY <1>1, <1>2, <1>3 DEF InFlight
<1>6. Bare(c)' BY <1>1, <1>3 DEF Bare
<1>7. OwnedOf(c, stage[c], resources[c], segments[c]) \subseteq {Socket(c)}
  <2>1. OwnedOf(c, stage[c], NoChannel, {}) \subseteq {Socket(c)} BY <1>2 DEF OwnedOf
  <2> QED BY <1>1, <2>1
<1>8. OwnedOf(c, stage'[c], resources'[c], segments'[c]) = A
  <2>1. OwnedOf(c, st, NoChannel, {}) = IF st # "gone" THEN {Socket(c)} ELSE {}
    BY <1>2 DEF OwnedOf
  <2>2. OwnedOf(c, "client", q, {}) = {Socket(c), Endpoint(c)} BY <1>2 DEF OwnedOf
  <2> QED BY <1>1, <1>3, <2>1, <2>2
<1>9. OwnedOf(c, stage'[c], resources'[c], segments'[c]) =
        (OwnedOf(c, stage[c], resources[c], segments[c]) \ R) \cup A
  BY <1>7, <1>8
<1>10. installed' = (installed \ R) \cup A /\ R \in SUBSET Own(c) BY DEF Own
<1> HIDE DEF R, A
<1>11. ChannelsAreSound' /\ AllAreOwned'
  BY <1>1, <1>3, <1>4, <1>5, <1>6, <1>9, <1>10, LocalStep
<1> QED BY <1>0, <1>3, <1>11 DEF ChannelStep, ChannelTypes

\* The counter follows the sockets in admission.
LEMMA AdmissionCounted ==
    ASSUME ChannelInv, NEW c \in Connections, stage[c] \in {"new", "admission"},
           NEW st \in {"admission", "client", "gone"}, stage' = [stage EXCEPT ![c] = st],
           \/ stage[c] = "new" /\ st = "admission" /\ admissions < MaxAdmissions /\ admissions' = admissions + 1
           \/ stage[c] = "new" /\ st = "gone" /\ admissions' = admissions
           \/ stage[c] = "admission" /\ st # "admission" /\ admissions' = admissions - 1
    PROVE  AdmissionsAreCounted' /\ admissions' \in Nat
<1>0. ChannelTypes /\ AdmissionsAreCounted BY DEF ChannelInv
<1>1. stage'[c] = st /\ \A d \in Connections \ {c} : stage'[d] = stage[d] BY <1>0 DEF ChannelTypes
<1>2. IsFiniteSet(Admitted) /\ admissions = Cardinality(Admitted) /\ admissions <= MaxAdmissions
      /\ admissions \in Nat /\ MaxAdmissions \in Nat
  BY <1>0, ChannelAssumption DEF AdmissionsAreCounted, ChannelTypes
<1>3. CASE stage[c] = "new" /\ st = "admission"
  <2>1. Admitted' = Admitted \cup {c} /\ c \notin Admitted BY <1>1, <1>3 DEF Admitted
  <2>2. IsFiniteSet(Admitted') /\ Cardinality(Admitted') = Cardinality(Admitted) + 1
    <3> HIDE DEF Admitted
    <3> QED BY <1>2, <2>1, FS_AddElement
  <2> QED BY <1>2, <1>3, <2>2 DEF AdmissionsAreCounted
<1>4. CASE stage[c] = "new" /\ st = "gone"
  <2>1. Admitted' = Admitted BY <1>1, <1>4 DEF Admitted
  <2> QED BY <1>2, <1>4, <2>1 DEF AdmissionsAreCounted
<1>5. CASE stage[c] = "admission" /\ st # "admission"
  <2>1. Admitted' = Admitted \ {c} /\ c \in Admitted BY <1>1, <1>5 DEF Admitted
  <2>2. IsFiniteSet(Admitted') /\ Cardinality(Admitted') = Cardinality(Admitted) - 1
    BY <1>2, <2>1, FS_RemoveElement
  <2>3. Cardinality(Admitted') \in Nat BY <2>2, FS_CardinalityType
  <2> QED BY <1>2, <1>5, <2>2, <2>3 DEF AdmissionsAreCounted
<1> QED BY <1>3, <1>4, <1>5

\* The invariant holds at the start.
LEMMA ChannelInitially == ChannelInit => ChannelInv
<1> SUFFICES ASSUME ChannelInit PROVE ChannelInv
  OBVIOUS
<1>1. /\ NoChannel \in Channel /\ ~NoChannel.fd /\ ~NoChannel.watched /\ NoChannel.rights = {}
  BY DEF NoChannel, Channel
<1>2. \A c \in Connections : /\ stage[c] = "new" /\ resources[c] = NoChannel /\ segments[c] = {}
                             /\ asked[c] = <<>> /\ answers[c] = <<>>
  BY DEF ChannelInit
<1>3. ChannelTypes BY <1>1 DEF ChannelTypes, ChannelInit
<1>4. ChannelsAreSound BY <1>1, <1>2 DEF ChannelsAreSound, Sound, InFlight, Bare
<1>5. Admitted = {} BY <1>2 DEF Admitted
<1>6. AdmissionsAreCounted
  BY <1>5, FS_EmptySet, ChannelAssumption DEF AdmissionsAreCounted, ChannelInit
<1>7. \A c \in Connections : OwnedBy(c) = {} BY <1>1, <1>2 DEF OwnedBy
<1>8. AllAreOwned BY <1>7 DEF AllAreOwned, ChannelInit
<1> QED BY <1>3, <1>4, <1>6, <1>8 DEF ChannelInv

\* Every step keeps the invariant.
LEMMA ChannelPreserved == ChannelInv /\ [ChannelNext]_channelVars => ChannelInv'
<1> SUFFICES ASSUME ChannelInv, [ChannelNext]_channelVars PROVE ChannelInv'
  OBVIOUS
<1>0. ChannelTypes /\ AdmissionsAreCounted BY DEF ChannelInv
<1>1. ASSUME ChannelStep, UNCHANGED <<stage, admissions>> PROVE ChannelInv'
  BY <1>0, <1>1 DEF ChannelStep, ChannelInv, ChannelTypes, AdmissionsAreCounted, Admitted
<1>2. ASSUME NEW c \in Connections, stage[c] = "admission" \/ stage[c] = "new",
             NEW st \in {"admission", "client", "gone"}, stage' = [stage EXCEPT ![c] = st],
             ChannelStep, AdmissionsAreCounted', admissions' \in Nat
      PROVE  ChannelInv'
  BY <1>0, <1>2 DEF ChannelStep, ChannelInv, ChannelTypes
<1>3. \A c \in Connections : stage[c] = "admission" => Socket(c) \in installed
  BY DEF ChannelInv, AllAreOwned, OwnedBy
<1>4. ASSUME NEW c \in Connections, NEW ok \in BOOLEAN, Accept(c, ok) PROVE ChannelInv'
  <2>1. /\ stage[c] = "new" /\ UNCHANGED <<resources, asked, answers, segments>>
        /\ \/ /\ stage' = [stage EXCEPT ![c] = "admission"] /\ admissions < MaxAdmissions
              /\ admissions' = admissions + 1 /\ installed' = installed \cup {Socket(c)}
           \/ /\ stage' = [stage EXCEPT ![c] = "gone"] /\ UNCHANGED <<admissions, installed>>
    BY <1>4 DEF Accept
  <2>2. CASE /\ stage' = [stage EXCEPT ![c] = "admission"] /\ admissions < MaxAdmissions
             /\ admissions' = admissions + 1 /\ installed' = installed \cup {Socket(c)}
    <3>1. ChannelStep BY <2>1, <2>2, AdmissionStep
    <3>2. AdmissionsAreCounted' /\ admissions' \in Nat BY <2>1, <2>2, AdmissionCounted
    <3> QED BY <1>2, <2>1, <2>2, <3>1, <3>2
  <2>3. CASE stage' = [stage EXCEPT ![c] = "gone"] /\ UNCHANGED <<admissions, installed>>
    <3>1. Socket(c) \notin installed
      <4>1. OwnedBy(c) = {}
        <5>1. resources[c] = NoChannel /\ segments[c] = {} BY <2>1, OneChannel DEF Bare
        <5>2. ~NoChannel.fd /\ NoChannel.rights = {} BY DEF NoChannel
        <5> QED BY <2>1, <5>1, <5>2 DEF OwnedBy
      <4>2. ASSUME NEW d \in Connections, Socket(c) \in OwnedBy(d) PROVE FALSE
        <5>1. OwnedBy(d) = OwnedOf(d, stage[d], resources[d], segments[d]) BY DEF OwnedBy, OwnedOf
        <5>2. OwnedBy(d) \subseteq Own(d) BY <5>1, OneChannel, OwnedInOwn
        <5>3. Socket(c) \in Own(c) BY DEF Own
        <5>4. c # d => Own(c) \cap Own(d) = {} BY DescriptorsApart
        <5> QED BY <4>1, <4>2, <5>2, <5>3, <5>4
      <4> QED BY <4>2 DEF ChannelInv, AllAreOwned
    <3>2. installed' = installed \ {Socket(c)} BY <2>3, <3>1
    <3>3. ChannelStep BY <2>1, <2>3, <3>2, AdmissionStep
    <3>4. AdmissionsAreCounted' /\ admissions' \in Nat BY <2>1, <2>3, AdmissionCounted
    <3> QED BY <1>2, <2>1, <2>3, <3>3, <3>4
  <2> QED BY <2>1, <2>2, <2>3
<1>5. ASSUME NEW c \in Connections, Reject(c) \/ admission_expired(c) PROVE ChannelInv'
  <2>1. /\ stage[c] = "admission" /\ UNCHANGED <<resources, asked, answers, segments>>
        /\ stage' = [stage EXCEPT ![c] = "gone"] /\ admissions' = admissions - 1
        /\ installed' = installed \ {Socket(c)}
    BY <1>5 DEF Reject, admission_expired, discard_admission
  <2>2. ChannelStep BY <2>1, AdmissionStep
  <2>3. AdmissionsAreCounted' /\ admissions' \in Nat BY <2>1, AdmissionCounted
  <2> QED BY <1>2, <2>1, <2>2, <2>3
<1>6. ASSUME NEW c \in Connections, NEW preface \in BOOLEAN, NEW accepted \in BOOLEAN,
             admit(c, preface, accepted)
      PROVE  ChannelInv'
  <2> DEFINE st == IF accepted THEN "client" ELSE "gone"
             pre == accepted /\ preface
  <2>1. /\ stage[c] = "admission" /\ UNCHANGED <<asked, answers, segments>>
        /\ stage' = [stage EXCEPT ![c] = st] /\ admissions' = admissions - 1
        /\ resources' = IF pre
                        THEN [resources EXCEPT ![c] = [NoChannel EXCEPT !.open = TRUE, !.fd = TRUE]]
                        ELSE resources
    BY <1>6 DEF admit
  <2>2. installed' = (installed \ (IF st = "gone" THEN {Socket(c)} ELSE {}))
                     \cup (IF st # "gone" THEN {Socket(c)} ELSE {})
                     \cup (IF pre THEN {Endpoint(c)} ELSE {})
    BY <1>3, <1>6 DEF admit
  <2>3. st \in {"client", "gone"} /\ pre \in BOOLEAN /\ (st # "client" => ~pre) OBVIOUS
  <2> HIDE DEF st, pre
  <2>4. ChannelStep BY <2>1, <2>2, <2>3, AdmissionStep
  <2>5. AdmissionsAreCounted' /\ admissions' \in Nat BY <2>1, <2>3, AdmissionCounted
  <2> QED BY <1>2, <2>1, <2>3, <2>4, <2>5
<1>7. ASSUME NEW c \in Connections, NEW i \in Ids, Attach(c, i) PROVE ChannelInv'
  BY <1>1, <1>7, AttachStep DEF Attach, lorieResourcesShm
<1>8. ASSUME NEW c \in Connections, NEW fails \in BOOLEAN, SendRequest(c, fails) PROVE ChannelInv'
  BY <1>1, <1>8, SendStep DEF SendRequest
<1>9. ASSUME NEW c \in Connections, ReadReply(c) PROVE ChannelInv'
  BY <1>1, <1>9, ReadStep DEF ReadReply
<1>10. ASSUME NEW c \in Connections, expired(c) PROVE ChannelInv'
  <2>1. ChannelStep BY <1>10, PlainFailure DEF expired
  <2> QED BY <1>1, <1>10, <2>1 DEF expired
<1>11. ASSUME NEW c \in Connections, client_state(c) PROVE ChannelInv'
  <2>1. ChannelStep BY <1>11, ClientGoneStep
  <2>2. stage' = [stage EXCEPT ![c] = "gone"] /\ stage[c] = "client" /\ admissions' = admissions
    BY <1>11 DEF client_state
  <2>3. Admitted' = Admitted BY <1>0, <2>2 DEF Admitted, ChannelTypes
  <2> QED BY <1>0, <2>1, <2>2, <2>3 DEF ChannelStep, ChannelInv, ChannelTypes, AdmissionsAreCounted
<1>12. ASSUME NEW c \in Connections, NEW k \in Replies,
              NEW R \in SUBSET UNION {Rights(c, i) : i \in Ids}, BrokerAnswers(c, k, R)
       PROVE  ChannelInv'
  <2>1. ChannelStep BY <1>12, BrokerStep
  <2> QED BY <1>1, <1>12, <2>1 DEF BrokerAnswers
<1>13. ASSUME UNCHANGED <<stage, admissions, installed, resources, asked, answers, segments>>
       PROVE  ChannelInv'
  <2>1. ChannelTypes' BY <1>0, <1>13 DEF ChannelTypes
  <2>2. ChannelsAreSound' BY <1>13 DEF ChannelInv, ChannelsAreSound, Bare
  <2>3. AdmissionsAreCounted' BY <1>0, <1>13 DEF AdmissionsAreCounted, Admitted
  <2>4. AllAreOwned'
    <3>1. \A c \in Connections : OwnedBy(c)' = OwnedBy(c) BY <1>13 DEF OwnedBy
    <3> QED BY <1>13, <3>1 DEF ChannelInv, AllAreOwned
  <2> QED BY <2>1, <2>2, <2>3, <2>4 DEF ChannelInv
<1>14. ASSUME NEW c \in Connections, BrokerHangsUp(c) PROVE ChannelInv'
  BY <1>13, <1>14 DEF BrokerHangsUp
<1>15. CASE UNCHANGED channelVars BY <1>13, <1>15 DEF channelVars
<1>16. CASE ChannelNext
  BY <1>4, <1>5, <1>6, <1>7, <1>8, <1>9, <1>10, <1>11, <1>12, <1>14, <1>16 DEF ChannelNext
<1> QED BY <1>15, <1>16

\* resource_channel.c:28-29, 54-70, 87-129: for any number of clients and
\* segments, each open descriptor has one owner, none is lost or closed under
\* its owner, every attachment has the rights of the segment it asked for, and
\* the admission counter is exact.
THEOREM ChannelCorrect == ChannelSpec => []RightsAreOwnedOnce
<1>1. ASSUME ChannelInv PROVE RightsAreOwnedOnce
  <2>1. installed = UNION {OwnedBy(c) : c \in Connections}
    BY <1>1 DEF ChannelInv, AllAreOwned
  <2>2. ASSUME NEW c \in Connections, NEW s \in segments[c]
        PROVE  s[2] = Rights(c, s[1]) /\ s[2] \cap resources[c].rights = {}
    <3>1. Sound(c, resources[c], segments[c]) BY <1>1, OneChannel
    <3>2. resources[c].rights \cap UNION {t[2] : t \in segments[c]} = {} BY <3>1, RightsApart
    <3> QED BY <3>1, <3>2 DEF Sound
  <2>3. admissions = Cardinality({c \in Connections : stage[c] = "admission"})
        /\ admissions <= MaxAdmissions
    BY <1>1 DEF ChannelInv, AdmissionsAreCounted, Admitted
  <2> QED BY <2>1, <2>2, <2>3 DEF RightsAreOwnedOnce
<1>2. ChannelSpec => ChannelInit /\ [][ChannelNext]_channelVars BY DEF ChannelSpec
<1> QED BY ChannelInitially, ChannelPreserved, <1>1, <1>2, PTL
=============================================================================
