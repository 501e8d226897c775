------------------------- MODULE DataExchangeProofs -------------------------
(***************************************************************************)
(* Selections and drags between X clients and the host, for any owners,    *)
(* targets, number of slots and limit on the size of a transfer.           *)
(*                                                                         *)
(*   AnswersCorrect    no READ is answered twice, and the host is told of  *)
(*                     no more ends of drops than it has dropped;          *)
(*   TransfersCorrect  a transfer that succeeds carried every piece.       *)
(*                                                                         *)
(* The inductive invariant ExchangeInv says what a slot knows of its       *)
(* transfer, that the deferred work of a transfer in pieces is queued at   *)
(* most once and finds the property it was queued for (WorkInv), which     *)
(* slots wait for an answer (ReadsInv), and that a drop is pending,        *)
(* finished or due at one target (DragInv).                                *)
(***************************************************************************)
EXTENDS DataExchange, FiniteSetTheorems, WellFoundedInduction, TLAPS

-----------------------------------------------------------------------------
\* The inductive invariant.

Properties == {"none", "incr", "data", "end", "bad"}

Transfer == [used : BOOLEAN, incoming : BOOLEAN, incremental : BOOLEAN, list : BOOLEAN, serial : Nat,
             generation : Nat, ticket : Nat, queued : BOOLEAN, channel : Channels, size : Nat, offset : Nat,
             alive : BOOLEAN, prop : Properties, replied : BOOLEAN, taken : Nat]

Drag == [target : DragTargets \cup {None}, source : BOOLEAN, accepted : BOOLEAN, positionPending : BOOLEAN,
         dropPending : BOOLEAN, moveQueued : BOOLEAN, revision : Nat, positionRevision : Nat,
         owes : [DragTargets -> Nat], due : SUBSET DragTargets, drops : Nat, finishes : Nat, lost : BOOLEAN]

Holders == Owners \cup {Bridge, None}

\* Of an X client's offer the owner is a client or nobody.
OffersInv ==
    /\ owner \in [Channels -> Holders]
    /\ offers \in [Channels -> [generation : Nat, owner : Holders, local : BOOLEAN]]
    /\ \A c \in Channels : ~offers[c].local => offers[c].owner \in Owners \cup {None}
    /\ export \in [source : Owners \cup {None}, dropped : BOOLEAN, completed : BOOLEAN, output : Nat]
    /\ pointerOutput \in Nat

TypesInv ==
    /\ enabled \in BOOLEAN /\ clipboardActive \in BOOLEAN /\ pointerDown \in BOOLEAN
    /\ sequence \in Nat /\ transferSequence \in Nat /\ requestSequence \in Nat

\* The piece that is on the requestor's window.
OnWindow(t) == IF t.prop = "data" THEN 1 ELSE 0

\* What was received is what the owner wrote but for the piece on the window; an
\* owner that has not answered has written nothing.
ReceivesInOrder(t) ==
    /\ t.size + OnWindow(t) = t.taken
    /\ t.offset = 0
    /\ ~t.incremental => t.size = 0 /\ t.prop = "none"

\* What was sent is what the client has read and the piece on its window; before
\* the host has answered there is nothing to send.
SendsInOrder(t) ==
    /\ t.alive => t.offset = t.taken + OnWindow(t)
    /\ ~t.replied => t.size = 0 /\ ~t.incremental /\ t.prop = "none"

SlotIsSound(t, last) ==
    t.used =>
        /\ t.ticket \in 1..last
        /\ t.size <= MaxBytes /\ t.offset <= t.size
        /\ t.incoming => ReceivesInOrder(t)
        /\ ~t.incoming => SendsInOrder(t)

SlotsInv ==
    /\ transfers \in [Slots -> Transfer]
    /\ \A i \in Slots : SlotIsSound(transfers[i], transferSequence)

\* Deferred work that is still for the transfer in its slot.
Item == [slot : Slots, ticket : Nat]
IsFor(w, t) == t.used /\ t.ticket = w.ticket

\* A transfer that may have work: a sending one whose client has taken the
\* property away.
MayHaveWork(t) == t.incremental /\ t.queued /\ (t.incoming \/ t.prop = "none")

WorkIsSound(q, ts, last) ==
    /\ q \in Seq(Item)
    /\ \A k \in DOMAIN q : q[k].ticket <= last
    /\ \A k \in DOMAIN q : IsFor(q[k], ts[q[k].slot]) => MayHaveWork(ts[q[k].slot])
    /\ \A k, l \in DOMAIN q :
          IsFor(q[k], ts[q[k].slot]) /\ IsFor(q[l], ts[q[l].slot]) /\ q[k].slot = q[l].slot => k = l

WorkInv == WorkIsSound(work, transfers, transferSequence)

\* A slot that receives for a READ.
Serves(t) == t.used /\ t.incoming /\ ~t.list

\* A READ has no answer while a slot receives for it, and no two slots receive
\* for one READ.
Answers == Seq({"ok", "failed", "reset"})

ReadsAreSound(rs, ts) ==
    /\ rs \in Seq(Answers)
    /\ \A s \in DOMAIN rs : Len(rs[s]) <= 1
    /\ \A i \in Slots : Serves(ts[i]) => ts[i].serial \in DOMAIN rs /\ rs[ts[i].serial] = <<>>
    /\ \A i, j \in Slots : Serves(ts[i]) /\ Serves(ts[j]) /\ ts[i].serial = ts[j].serial => i = j

ReadsInv == ReadsAreSound(reads, transfers)

\* Drops that the host has not been told the end of, and may be.
Open(d) == (IF d.dropPending THEN 1 ELSE 0) + Cardinality(d.due)

DragIsSound(d) ==
    /\ d \in Drag /\ IsFiniteSet(d.due)
    /\ d.finishes + Open(d) <= d.drops

TableInv ==
    /\ SlotsInv
    /\ WorkInv
    /\ ReadsInv
    /\ DragIsSound(drag)
    /\ TransfersAreWhole

ExchangeInv ==
    /\ TypesInv
    /\ OffersInv
    /\ TableInv

-----------------------------------------------------------------------------
\* The drag.

\* A move leaves the drops and their ends alone.
LEMMA DragShape ==
    ASSUME NEW d \in Drag, NEW hit \in Hits
    PROVE  /\ moveDrag(d, hit) \in Drag
           /\ moveDrag(d, hit).dropPending = d.dropPending
           /\ moveDrag(d, hit).due = d.due
           /\ moveDrag(d, hit).drops = d.drops
           /\ moveDrag(d, hit).finishes = d.finishes
<1> DEFINE owed == [x \in DragTargets |-> IF x = hit THEN d.owes[x] + 1 ELSE d.owes[x]]
           m == [d EXCEPT !.target = hit,
                          !.accepted = @ /\ hit = d.target,
                          !.positionPending = hit # None,
                          !.positionRevision = IF hit = None THEN @ ELSE d.revision,
                          !.owes = owed]
<1>1. CASE d.positionPending
  BY <1>1 DEF Drag, moveDrag
<1>2. CASE ~d.positionPending /\ hit = "outside"
  BY <1>2 DEF Drag, moveDrag
<1>3. CASE ~d.positionPending /\ hit # "outside"
  <2>1. owed \in [DragTargets -> Nat]
    BY DEF Drag
  <2>2. moveDrag(d, hit) = m
    BY <1>3 DEF moveDrag
  <2> QED BY <1>3, <2>1, <2>2 DEF Drag, Hits
<1> QED BY <1>1, <1>2, <1>3

\* Room for the end of one more drop than are finished or due.
HasDrop(d) ==
    /\ d \in Drag /\ IsFiniteSet(d.due)
    /\ d.finishes + 1 + Cardinality(d.due) <= d.drops

\* The drops that are due are a number.
LEMMA DueIsCounted ==
    ASSUME NEW d \in Drag, IsFiniteSet(d.due)
    PROVE  Cardinality(d.due) \in Nat
  BY FS_CardinalityType

\* A drop that was rejected was open.
LEMMA RejectIsSound ==
    ASSUME NEW d, HasDrop(d)
    PROVE  DragIsSound(rejectDrag(d))
<1>1. Cardinality(d.due) \in Nat
  BY DueIsCounted DEF HasDrop
<1>2. /\ rejectDrag(d) \in Drag
      /\ rejectDrag(d).due = d.due /\ rejectDrag(d).drops = d.drops
      /\ rejectDrag(d).finishes = d.finishes + 1 /\ rejectDrag(d).dropPending = FALSE
  <2>1. d \in Drag
    BY DEF HasDrop
  <2>2. rejectDrag(d) \in Drag
    <3>1. d.finishes + 1 \in Nat
      BY <2>1 DEF Drag
    <3>2. [d EXCEPT !.dropPending = FALSE, !.target = None] \in Drag
      BY <2>1 DEF Drag
    <3>3. \A e \in Drag, n \in Nat : [e EXCEPT !.finishes = n] \in Drag
      BY DEF Drag
    <3>4. rejectDrag(d) = [[d EXCEPT !.dropPending = FALSE, !.target = None] EXCEPT !.finishes = d.finishes + 1]
      BY <2>1 DEF rejectDrag, Drag
    <3> QED BY <3>1, <3>2, <3>3, <3>4
  <2>3. /\ rejectDrag(d).due = d.due /\ rejectDrag(d).drops = d.drops
        /\ rejectDrag(d).finishes = d.finishes + 1
    BY <2>1 DEF rejectDrag, Drag
  <2>4. rejectDrag(d).dropPending = FALSE
    BY <2>1 DEF rejectDrag, Drag
  <2> QED BY <2>2, <2>3, <2>4
<1>3. d.finishes \in Nat /\ d.drops \in Nat
  BY DEF HasDrop, Drag
<1> QED BY <1>1, <1>2, <1>3 DEF HasDrop, DragIsSound, Open

\* dropDrag() turns one open drop into a pending, a due or a finished one.
LEMMA DropIsSound ==
    ASSUME NEW d, HasDrop(d), NEW ts, NEW hit \in Hits
    PROVE  DragIsSound(dropDrag(d, ts, hit))
<1> DEFINE refused == d.target # None /\ ~d.accepted
           waits == d.positionPending \/ (refused /\ dragDataPending(ts))
           again == ~d.positionPending /\ refused /\ ~dragDataPending(ts) /\ d.revision # d.positionRevision
           drops == ~d.positionPending /\ d.target # None /\ d.accepted
<1>1. Cardinality(d.due) \in Nat /\ d \in Drag /\ d.finishes \in Nat /\ d.drops \in Nat
  BY DueIsCounted DEF HasDrop, Drag
<1>2. CASE waits
  <2>1. dropDrag(d, ts, hit) = [d EXCEPT !.dropPending = TRUE]
    BY <1>2 DEF dropDrag
  <2>2. /\ [d EXCEPT !.dropPending = TRUE] \in Drag
        /\ [d EXCEPT !.dropPending = TRUE].due = d.due
        /\ [d EXCEPT !.dropPending = TRUE].drops = d.drops
        /\ [d EXCEPT !.dropPending = TRUE].finishes = d.finishes
        /\ [d EXCEPT !.dropPending = TRUE].dropPending = TRUE
    BY <1>1 DEF Drag
  <2> QED BY <1>1, <2>1, <2>2 DEF HasDrop, DragIsSound, Open
<1>3. CASE again
  <2> DEFINE e == [d EXCEPT !.dropPending = TRUE, !.lost = @ \/ hit \notin DragTargets]
  <2>1. dropDrag(d, ts, hit) = moveDrag(e, hit)
    BY <1>3 DEF dropDrag
  <2>2. e \in Drag /\ e.due = d.due /\ e.drops = d.drops /\ e.finishes = d.finishes /\ e.dropPending = TRUE
    BY <1>1 DEF Drag
  <2> HIDE DEF e
  <2>3. /\ moveDrag(e, hit) \in Drag /\ moveDrag(e, hit).due = d.due
        /\ moveDrag(e, hit).drops = d.drops /\ moveDrag(e, hit).finishes = d.finishes
        /\ moveDrag(e, hit).dropPending = TRUE
    BY <2>2, DragShape
  <2> QED BY <1>1, <2>1, <2>3 DEF HasDrop, DragIsSound, Open
<1>4. CASE drops
  <2> DEFINE e == [d EXCEPT !.dropPending = FALSE, !.due = @ \cup {d.target}]
  <2>1. dropDrag(d, ts, hit) = e
    BY <1>4 DEF dropDrag
  <2>2. e \in Drag /\ e.due = d.due \cup {d.target} /\ e.drops = d.drops /\ e.finishes = d.finishes
        /\ e.dropPending = FALSE
    BY <1>1, <1>4 DEF Drag
  <2> HIDE DEF e
  <2>3. /\ IsFiniteSet(d.due \cup {d.target})
        /\ Cardinality(d.due \cup {d.target}) \in Nat
        /\ Cardinality(d.due \cup {d.target}) <= Cardinality(d.due) + 1
    <3>1. IsFiniteSet(d.due \cup {d.target})
      BY FS_AddElement DEF HasDrop
    <3>2. Cardinality(d.due \cup {d.target}) =
             IF d.target \in d.due THEN Cardinality(d.due) ELSE Cardinality(d.due) + 1
      BY FS_AddElement DEF HasDrop
    <3> QED BY <1>1, <3>1, <3>2
  <2> QED BY <1>1, <2>1, <2>2, <2>3 DEF HasDrop, DragIsSound, Open
<1>5. CASE ~waits /\ ~again /\ ~drops
  <2>1. dropDrag(d, ts, hit) = rejectDrag(d)
    BY <1>5 DEF dropDrag
  <2> QED BY <2>1, RejectIsSound
<1> HIDE DEF waits, again, drops
<1> QED BY <1>2, <1>3, <1>4, <1>5

\* A pending drop is open.
LEMMA PendingHasDrop ==
    ASSUME NEW d, DragIsSound(d), d.dropPending
    PROVE  HasDrop(d)
<1>1. Cardinality(d.due) \in Nat /\ d \in Drag /\ d.finishes \in Nat /\ d.drops \in Nat
  BY DueIsCounted DEF DragIsSound, Drag
<1> QED BY <1>1 DEF HasDrop, DragIsSound, Open

\* What a step does not count.
LEMMA SameCounts ==
    ASSUME NEW d, DragIsSound(d), NEW e \in Drag, e.due = d.due, e.drops = d.drops, e.finishes = d.finishes,
           e.dropPending = d.dropPending
    PROVE  DragIsSound(e)
  BY DEF DragIsSound, Open

\* A new revision is no drop.
LEMMA RevisionIsSound ==
    ASSUME NEW d, DragIsSound(d)
    PROVE  /\ DragIsSound([d EXCEPT !.revision = @ + 1])
           /\ [d EXCEPT !.revision = @ + 1].dropPending = d.dropPending
<1> DEFINE e == [d EXCEPT !.revision = @ + 1]
<1>1. d \in Drag
  BY DEF DragIsSound
<1>2. e \in Drag /\ e.due = d.due /\ e.drops = d.drops /\ e.finishes = d.finishes /\ e.dropPending = d.dropPending
  BY <1>1 DEF Drag
<1> HIDE DEF e
<1>3. DragIsSound(e) /\ e.dropPending = d.dropPending
  BY <1>2, SameCounts
<1> QED BY <1>3 DEF e

\* The end of a transfer, however it ends.
LEMMA FinishedIsSound ==
    ASSUME DragIsSound(drag), NEW t, NEW success \in BOOLEAN, NEW ts, NEW hit \in Hits
    PROVE  DragIsSound(selectionFinished(t, success, ts, hit))
<1> DEFINE next == IF success THEN [drag EXCEPT !.revision = @ + 1] ELSE drag
<1>1. DragIsSound(next) /\ next.dropPending = drag.dropPending
  BY RevisionIsSound
<1>2. selectionFinished(t, success, ts, hit) =
         CASE ~Concerns(t) -> drag
           [] Concerns(t) /\ ~drag.dropPending -> next
           [] Concerns(t) /\ drag.dropPending -> IF success THEN dropDrag(next, ts, hit) ELSE rejectDrag(next)
  BY DEF selectionFinished
<1> HIDE DEF next
<1>3. CASE ~Concerns(t)
  <2>1. selectionFinished(t, success, ts, hit) = drag
    BY <1>2, <1>3
  <2> QED BY <2>1
<1>4. CASE Concerns(t) /\ ~drag.dropPending
  <2>1. selectionFinished(t, success, ts, hit) = next
    BY <1>2, <1>4
  <2> QED BY <1>1, <2>1
<1>5. CASE Concerns(t) /\ drag.dropPending
  <2>1. selectionFinished(t, success, ts, hit) = IF success THEN dropDrag(next, ts, hit) ELSE rejectDrag(next)
    BY <1>2, <1>5
  <2>2. HasDrop(next)
    BY <1>1, <1>5, PendingHasDrop
  <2>3. CASE success
    BY <2>1, <2>2, <2>3, DropIsSound
  <2>4. CASE ~success
    BY <2>1, <2>2, <2>4, RejectIsSound
  <2> QED BY <2>3, <2>4
<1> QED BY <1>3, <1>4, <1>5

\* A drop that waited for a transfer that failed.
LEMMA FailedIsSound ==
    ASSUME DragIsSound(drag), NEW S
    PROVE  DragIsSound(FailedDrag(S))
<1>1. CASE drag.dropPending /\ \E i \in S : Concerns(transfers[i])
  <2>1. FailedDrag(S) = rejectDrag(drag)
    BY <1>1 DEF FailedDrag
  <2> QED BY <1>1, <2>1, PendingHasDrop, RejectIsSound
<1>2. CASE ~(drag.dropPending /\ \E i \in S : Concerns(transfers[i]))
  <2>1. FailedDrag(S) = drag
    BY <1>2 DEF FailedDrag
  <2> QED BY <2>1
<1> QED BY <1>1, <1>2

\* A drop that is lost is still counted.
LEMMA LostIsSound ==
    ASSUME DragIsSound(drag), NEW b \in BOOLEAN
    PROVE  DragIsSound([drag EXCEPT !.lost = @ \/ b])
<1> DEFINE e == [drag EXCEPT !.lost = @ \/ b]
<1>1. drag \in Drag
  BY DEF DragIsSound
<1>2. e \in Drag /\ e.due = drag.due /\ e.drops = drag.drops /\ e.finishes = drag.finishes
      /\ e.dropPending = drag.dropPending
  BY <1>1 DEF Drag
<1> HIDE DEF e
<1>3. DragIsSound(e)
  BY <1>2, SameCounts
<1> QED BY <1>3 DEF e

\* An abandoned drag has no pending drop.
LEMMA QuietIsSound ==
    ASSUME NEW d, DragIsSound(d)
    PROVE  DragIsSound(Quiet(d))
<1>1. Cardinality(d.due) \in Nat /\ d \in Drag /\ d.finishes \in Nat /\ d.drops \in Nat
  BY DueIsCounted DEF DragIsSound, Drag
<1>2. Quiet(d) \in Drag /\ Quiet(d).due = d.due /\ Quiet(d).drops = d.drops /\ Quiet(d).finishes = d.finishes
      /\ Quiet(d).dropPending = FALSE
  BY <1>1 DEF Drag, Quiet
<1> QED BY <1>1, <1>2 DEF DragIsSound, Open

-----------------------------------------------------------------------------
\* Slots and their work.

\* The elements of a sequence that lost its first one.
LEMMA TailFacts ==
    ASSUME NEW S, NEW s \in Seq(S), s # <<>>
    PROVE  /\ Tail(s) \in Seq(S)
           /\ 1 \in DOMAIN s /\ Head(s) = s[1] /\ Head(s) \in S
           /\ \A k \in DOMAIN Tail(s) :
                 k \in Nat /\ k >= 1 /\ k + 1 \in DOMAIN s /\ Tail(s)[k] = s[k + 1]
  <1>1. /\ Tail(s) \in Seq(S) /\ Len(s) \in Nat /\ Len(s) >= 1 /\ DOMAIN s = 1..Len(s)
        /\ DOMAIN Tail(s) = 1..(Len(s) - 1)
    OBVIOUS
  <1>2. \A k \in 1..(Len(s) - 1) : Tail(s)[k] = s[k + 1]
    OBVIOUS
  <1>3. Head(s) = s[1]
    OBVIOUS
  <1>4. s[1] \in S
    BY <1>1
  <1> QED  BY <1>1, <1>2, <1>3, <1>4

\* The elements of a sequence that got one more.
LEMMA AppendFacts ==
    ASSUME NEW S, NEW s \in Seq(S), NEW x \in S
    PROVE  /\ Append(s, x) \in Seq(S)
           /\ \A k \in DOMAIN Append(s, x) :
                 \/ k \in DOMAIN s /\ Append(s, x)[k] = s[k]
                 \/ k = Len(s) + 1 /\ k \notin DOMAIN s /\ Append(s, x)[k] = x
           /\ \A k \in DOMAIN s : k \in DOMAIN Append(s, x)
           /\ Len(s) + 1 \in DOMAIN Append(s, x)
  <1>1. /\ Append(s, x) \in Seq(S) /\ Len(s) \in Nat /\ DOMAIN s = 1..Len(s)
        /\ DOMAIN Append(s, x) = 1..(Len(s) + 1)
    OBVIOUS
  <1>2. \A k \in 1..Len(s) : Append(s, x)[k] = s[k]
    OBVIOUS
  <1>3. Append(s, x)[Len(s) + 1] = x
    OBVIOUS
  <1> QED  BY <1>1, <1>2, <1>3

\* No work in q is for the transfer in slot i.
Workless(q, ts, i) == \A k \in DOMAIN q : q[k].slot = i => ~IsFor(q[k], ts[i])

\* Work goes on when every slot is as it was, is free, or has a newer ticket, or
\* has the same one and may have work or has none.
LEMMA WorkKept ==
    ASSUME NEW q, NEW ts, NEW us, NEW last \in Nat, NEW next \in Nat,
           WorkIsSound(q, ts, last), next >= last,
           \A i \in Slots : us[i].ticket \in Nat,
           \A i \in Slots : \/ us[i] = ts[i]
                            \/ ~us[i].used
                            \/ us[i].ticket > last
                            \/ /\ ts[i].used /\ us[i].ticket = ts[i].ticket
                               /\ MayHaveWork(us[i]) \/ Workless(q, ts, i)
    PROVE  WorkIsSound(q, us, next)
<1>1. q \in Seq(Item) /\ \A k \in DOMAIN q : q[k] \in Item /\ q[k].slot \in Slots /\ q[k].ticket \in Nat
  <2>1. q \in Seq(Item)
    BY DEF WorkIsSound
  <2>2. \A k \in DOMAIN q : q[k] \in Item
    BY <2>1
  <2> QED BY <2>1, <2>2 DEF Item
<1>2. \A k \in DOMAIN q : q[k].ticket <= next
  BY <1>1 DEF WorkIsSound
<1>3. ASSUME NEW k \in DOMAIN q, IsFor(q[k], us[q[k].slot])
      PROVE  IsFor(q[k], ts[q[k].slot]) /\ MayHaveWork(us[q[k].slot])
  <2>1. q[k].ticket <= last
    BY DEF WorkIsSound
  <2>2. us[q[k].slot].used /\ ~(us[q[k].slot].ticket > last)
    BY <1>1, <1>3, <2>1 DEF IsFor
  <2>3. CASE us[q[k].slot] = ts[q[k].slot]
    BY <1>3, <2>3 DEF WorkIsSound
  <2>4. CASE /\ ts[q[k].slot].used /\ us[q[k].slot].ticket = ts[q[k].slot].ticket
             /\ MayHaveWork(us[q[k].slot]) \/ Workless(q, ts, q[k].slot)
    <3>1. IsFor(q[k], ts[q[k].slot])
      BY <1>3, <2>4 DEF IsFor
    <3>2. ~Workless(q, ts, q[k].slot)
      BY <3>1 DEF Workless
    <3> QED BY <2>4, <3>1, <3>2
  <2> QED BY <1>1, <2>2, <2>3, <2>4
<1> QED BY <1>1, <1>2, <1>3 DEF WorkIsSound

\* Work that was taken from the queue.
LEMMA WorkTaken ==
    ASSUME NEW q, q # <<>>, NEW ts, NEW last \in Nat, WorkIsSound(q, ts, last)
    PROVE  /\ WorkIsSound(Tail(q), ts, last)
           /\ Head(q) \in Item
           /\ IsFor(Head(q), ts[Head(q).slot]) => /\ MayHaveWork(ts[Head(q).slot])
                                                  /\ Workless(Tail(q), ts, Head(q).slot)
<1>1. q \in Seq(Item)
  BY DEF WorkIsSound
<1>2. /\ Tail(q) \in Seq(Item)
      /\ 1 \in DOMAIN q /\ Head(q) = q[1] /\ Head(q) \in Item
      /\ \A k \in DOMAIN Tail(q) : k \in Nat /\ k >= 1 /\ k + 1 \in DOMAIN q /\ Tail(q)[k] = q[k + 1]
  BY <1>1, TailFacts
<1>3. \A k \in DOMAIN Tail(q) : Tail(q)[k].ticket <= last
  BY <1>2 DEF WorkIsSound
<1>4. \A k \in DOMAIN Tail(q) : IsFor(Tail(q)[k], ts[Tail(q)[k].slot]) => MayHaveWork(ts[Tail(q)[k].slot])
  BY <1>2 DEF WorkIsSound
<1>5. ASSUME NEW k \in DOMAIN Tail(q), NEW l \in DOMAIN Tail(q), IsFor(Tail(q)[k], ts[Tail(q)[k].slot]),
             IsFor(Tail(q)[l], ts[Tail(q)[l].slot]), Tail(q)[k].slot = Tail(q)[l].slot
      PROVE  k = l
  <2>1. k + 1 = l + 1
    BY <1>2, <1>5 DEF WorkIsSound
  <2> QED BY <1>2, <2>1
<1>6. WorkIsSound(Tail(q), ts, last)
  BY <1>2, <1>3, <1>4, <1>5 DEF WorkIsSound
<1>7. ASSUME IsFor(Head(q), ts[Head(q).slot])
      PROVE  MayHaveWork(ts[Head(q).slot]) /\ Workless(Tail(q), ts, Head(q).slot)
  <2>1. MayHaveWork(ts[Head(q).slot])
    BY <1>2, <1>7 DEF WorkIsSound
  <2>2. SUFFICES ASSUME NEW k \in DOMAIN Tail(q), Tail(q)[k].slot = Head(q).slot, IsFor(Tail(q)[k], ts[Head(q).slot])
                 PROVE  FALSE
    BY <2>1 DEF Workless
  <2>3. k + 1 = 1
    BY <1>2, <1>7, <2>2 DEF WorkIsSound
  <2> QED BY <1>2, <2>3
<1> QED BY <1>2, <1>6, <1>7

\* Work that was queued for a transfer that had none.
LEMMA WorkAdded ==
    ASSUME NEW q, NEW ts, NEW last \in Nat, WorkIsSound(q, ts, last), NEW i \in Slots, ts[i].ticket \in Nat,
           ts[i].ticket <= last, Workless(q, ts, i), MayHaveWork(ts[i])
    PROVE  WorkIsSound(Append(q, [slot |-> i, ticket |-> ts[i].ticket]), ts, last)
<1> DEFINE x == [slot |-> i, ticket |-> ts[i].ticket]
           r == Append(q, x)
<1>1. x \in Item /\ x.slot = i /\ x.ticket = ts[i].ticket
  BY DEF Item
<1>2. q \in Seq(Item)
  BY DEF WorkIsSound
<1> HIDE DEF x
<1>3. /\ r \in Seq(Item)
      /\ \A k \in DOMAIN r : \/ k \in DOMAIN q /\ r[k] = q[k]
                             \/ k = Len(q) + 1 /\ k \notin DOMAIN q /\ r[k] = x
  BY <1>1, <1>2, AppendFacts
<1> HIDE DEF r
<1>4. \A k \in DOMAIN r : r[k].ticket <= last
  BY <1>1, <1>3 DEF WorkIsSound
<1>5. \A k \in DOMAIN r : IsFor(r[k], ts[r[k].slot]) => MayHaveWork(ts[r[k].slot])
  BY <1>1, <1>3 DEF WorkIsSound
<1>6. ASSUME NEW k \in DOMAIN r, NEW l \in DOMAIN r, IsFor(r[k], ts[r[k].slot]),
             IsFor(r[l], ts[r[l].slot]), r[k].slot = r[l].slot
      PROVE  k = l
  <2>1. CASE k \in DOMAIN q /\ r[k] = q[k] /\ l \in DOMAIN q /\ r[l] = q[l]
    BY <1>6, <2>1 DEF WorkIsSound
  <2>2. CASE k = Len(q) + 1 /\ r[k] = x /\ l = Len(q) + 1
    BY <2>2
  <2>3. CASE k = Len(q) + 1 /\ r[k] = x /\ l \in DOMAIN q /\ r[l] = q[l]
    BY <1>1, <1>6, <2>3 DEF Workless
  <2>4. CASE l = Len(q) + 1 /\ r[l] = x /\ k \in DOMAIN q /\ r[k] = q[k]
    BY <1>1, <1>6, <2>4 DEF Workless
  <2> QED BY <1>3, <2>1, <2>2, <2>3, <2>4
<1>7. WorkIsSound(r, ts, last)
  BY <1>3, <1>4, <1>5, <1>6 DEF WorkIsSound
<1> QED BY <1>7 DEF r, x

-----------------------------------------------------------------------------
\* Reads.

\* The slots of S have transfers.
InUse(S) == \A i \in S : transfers[i].used

\* A slot that serves no READ any more needs no answer.
LEMMA ReadsKept ==
    ASSUME NEW rs, NEW ts, NEW us, ReadsAreSound(rs, ts),
           \A i \in Slots : Serves(us[i]) => Serves(ts[i]) /\ us[i].serial = ts[i].serial
    PROVE  ReadsAreSound(rs, us)
  BY DEF ReadsAreSound

\* The READs of released slots are answered.
LEMMA ReadsAnswered ==
    ASSUME ReadsInv, NEW S \in SUBSET Slots, NEW result \in {"ok", "failed"}, NEW us,
           InUse(S),
           \A i \in S : ~Serves(us[i]),
           \A i \in Slots \ S : Serves(us[i]) => Serves(transfers[i]) /\ us[i].serial = transfers[i].serial
    PROVE  ReadsAreSound(Answer(S, result), us)
<1> DEFINE rs == Answer(S, result)
           Answered(s) == \E i \in S : transfers[i].incoming /\ ~transfers[i].list /\ transfers[i].serial = s
<1>1. reads \in Seq(Answers) /\ DOMAIN reads = 1..Len(reads) /\ Len(reads) \in Nat
      /\ \A s \in DOMAIN reads : reads[s] \in Answers
  BY DEF ReadsInv, ReadsAreSound
<1>2. \A s : Answered(s) => s \in DOMAIN reads /\ reads[s] = <<>>
  <2>1. ASSUME NEW s, NEW i \in S, transfers[i].incoming, ~transfers[i].list, transfers[i].serial = s
        PROVE  s \in DOMAIN reads /\ reads[s] = <<>>
    BY <2>1 DEF ReadsInv, ReadsAreSound, Serves, InUse
  <2> QED BY <2>1
<1>3. DOMAIN rs = DOMAIN reads
      /\ \A s \in DOMAIN reads : rs[s] = IF Answered(s) THEN Append(reads[s], result) ELSE reads[s]
  BY DEF Answer
<1> HIDE DEF Answered
<1>4. \A s \in DOMAIN reads : Answered(s) => rs[s] \in Answers /\ Len(rs[s]) = 1
  <2>1. ASSUME NEW s \in DOMAIN reads, Answered(s)
        PROVE  rs[s] \in Answers /\ Len(rs[s]) = 1
    <3>1. rs[s] = Append(<<>>, result)
      BY <1>2, <1>3, <2>1
    <3>2. <<>> \in Answers /\ Len(<<>>) = 0
      BY DEF Answers
    <3>3. Append(<<>>, result) \in Answers /\ Len(Append(<<>>, result)) = 1
      BY <3>2 DEF Answers
    <3> QED BY <3>1, <3>3
  <2> QED BY <2>1
<1>5. \A s \in DOMAIN reads : rs[s] \in Answers /\ Len(rs[s]) <= 1
  BY <1>1, <1>3, <1>4 DEF ReadsInv, ReadsAreSound
<1>6. rs \in Seq(Answers)
  <2>1. rs \in [1..Len(reads) -> Answers]
    <3>1. rs = [s \in DOMAIN reads |-> rs[s]]
      BY DEF Answer
    <3> HIDE DEF rs
    <3> QED BY <1>1, <1>5, <3>1
  <2> HIDE DEF rs
  <2> QED BY <1>1, <2>1
<1>7. ASSUME NEW i \in Slots, Serves(us[i])
      PROVE  us[i].serial \in DOMAIN rs /\ rs[us[i].serial] = <<>>
  <2>1. i \in Slots \ S /\ Serves(transfers[i]) /\ us[i].serial = transfers[i].serial
    BY <1>7
  <2>2. us[i].serial \in DOMAIN reads /\ reads[us[i].serial] = <<>>
    BY <2>1 DEF ReadsInv, ReadsAreSound
  <2>3. ~Answered(us[i].serial)
    BY <2>1 DEF Answered, ReadsInv, ReadsAreSound, Serves, InUse
  <2> QED BY <1>3, <2>2, <2>3
<1>8. ASSUME NEW i \in Slots, NEW j \in Slots, Serves(us[i]), Serves(us[j]), us[i].serial = us[j].serial
      PROVE  i = j
  BY <1>8 DEF ReadsInv, ReadsAreSound
<1> HIDE DEF rs
<1>9. ReadsAreSound(rs, us)
  BY <1>3, <1>5, <1>6, <1>7, <1>8 DEF ReadsAreSound
<1> QED BY <1>9 DEF rs

-----------------------------------------------------------------------------
\* Slots.

\* A nonempty set of naturals has a least member.
LEMMA LeastNumber ==
    ASSUME NEW T, T \subseteq Nat, T # {}
    PROVE  \E m \in T : \A y \in T : m <= y
<1>1. IsWellFoundedOn(OpToRel(<, Nat), Nat) BY NatLessThanWellFounded
<1>2. PICK x \in T : \A y \in T : ~(<<y, x>> \in OpToRel(<, Nat)) BY <1>1, WFMin
<1>3. \A y \in T : ~(y < x) BY <1>2 DEF OpToRel
<1> QED BY <1>3

\* The transfer that allocate() puts in a slot.
Given(t) == [t EXCEPT !.used = TRUE, !.ticket = transferSequence + 1]

\* allocate() changes one slot, which was free.
LEMMA AllocateFacts ==
    ASSUME NEW ts \in [Slots -> Transfer], ~Full(ts), NEW t \in Transfer, transferSequence \in Nat
    PROVE  \E f \in Slots :
              /\ ~ts[f].used
              /\ allocate(ts, t) \in [Slots -> Transfer]
              /\ allocate(ts, t)[f] = Given(t)
              /\ \A i \in Slots : i # f => allocate(ts, t)[i] = ts[i]
<1> DEFINE f == FirstFree(ts)
           u == [t EXCEPT !.used = TRUE, !.ticket = transferSequence + 1]
<1>1. f \in Slots /\ ~ts[f].used
  <2> DEFINE T == {i \in Slots : ~ts[i].used}
  <2>1. T \subseteq Nat /\ T # {}
    BY ConstantsAssumption DEF Full, Slots
  <2>2. \E m \in T : \A y \in T : m <= y
    BY <2>1, LeastNumber
  <2>3. \E i \in Slots : ~ts[i].used /\ \A j \in Slots : ~ts[j].used => i <= j
    BY <2>2
  <2> QED BY <2>3 DEF FirstFree
<1>2. u \in Transfer
  <2>1. transferSequence + 1 \in Nat
    OBVIOUS
  <2>2. \A n \in Nat : [t EXCEPT !.used = TRUE, !.ticket = n] \in Transfer
    BY DEF Transfer
  <2> QED BY <2>1, <2>2
<1>3. allocate(ts, t) = [ts EXCEPT ![f] = u]
  BY DEF allocate
<1> HIDE DEF f, u
<1>4. /\ allocate(ts, t) \in [Slots -> Transfer]
      /\ allocate(ts, t)[f] = u
      /\ \A i \in Slots : i # f => allocate(ts, t)[i] = ts[i]
  BY <1>1, <1>2, <1>3
<1>5. u = Given(t)
  BY DEF u, Given
<1> QED BY <1>1, <1>4, <1>5

\* A free slot is sound, and released ones are free.
LEMMA FreeFacts ==
    /\ Free \in Transfer /\ ~Free.used
    /\ \A n : SlotIsSound(Free, n)
    /\ ~Serves(Free)
<1>1. Free \in Transfer /\ Free.used = FALSE
  BY DEF Free, Transfer, Properties, Channels
<1> QED BY <1>1 DEF SlotIsSound, Serves

LEMMA ReleaseFacts ==
    ASSUME SlotsInv, NEW S \in SUBSET Slots
    PROVE  /\ Release(S) \in [Slots -> Transfer]
           /\ \A i \in S : Release(S)[i] = Free
           /\ \A i \in Slots \ S : Release(S)[i] = transfers[i]
           /\ \A i \in Slots : SlotIsSound(Release(S)[i], transferSequence)
<1>1. \A i \in Slots : Release(S)[i] = IF i \in S THEN Free ELSE transfers[i]
  BY DEF Release
<1>2. \A i \in Slots : transfers[i] \in Transfer
  BY DEF SlotsInv
<1>3. Release(S) \in [Slots -> Transfer]
  BY <1>2, FreeFacts DEF Release
<1> QED BY <1>1, <1>3, FreeFacts DEF SlotsInv

-----------------------------------------------------------------------------
\* What the handlers do to the table.

\* A transfer that was given to a free slot.
Fresh(t) == /\ t \in Transfer /\ t.size = 0 /\ t.offset = 0 /\ t.taken = 0 /\ t.prop = "none"
            /\ ~t.incremental

LEMMA FreshFacts ==
    ASSUME NEW t, Fresh(t), transferSequence \in Nat
    PROVE  LET u == Given(t) IN
           /\ u \in Transfer /\ u.used /\ u.ticket = transferSequence + 1 /\ u.incoming = t.incoming
           /\ u.list = t.list /\ u.serial = t.serial
           /\ SlotIsSound(u, transferSequence + 1)
<1> DEFINE u == [t EXCEPT !.used = TRUE, !.ticket = transferSequence + 1]
<1>1. t \in Transfer
  BY DEF Fresh
<1>2. u \in Transfer
  <2>1. transferSequence + 1 \in Nat
    OBVIOUS
  <2>2. \A n \in Nat : [t EXCEPT !.used = TRUE, !.ticket = n] \in Transfer
    BY <1>1 DEF Transfer
  <2> QED BY <2>1, <2>2
<1>3. /\ u.used = TRUE /\ u.ticket = transferSequence + 1 /\ u.incoming = t.incoming /\ u.list = t.list
      /\ u.serial = t.serial /\ u.size = t.size /\ u.offset = t.offset /\ u.taken = t.taken /\ u.prop = t.prop
      /\ u.incremental = t.incremental /\ u.replied = t.replied /\ u.alive = t.alive
  BY <1>1 DEF Transfer
<1> HIDE DEF u
<1>4. SlotIsSound(u, transferSequence + 1)
  <2>1. u.ticket \in 1..(transferSequence + 1)
    BY <1>3
  <2>2. /\ u.size = 0 /\ u.offset = 0 /\ u.taken = 0 /\ u.prop = "none" /\ ~u.incremental
    BY <1>3 DEF Fresh
  <2>3. u.size <= MaxBytes /\ u.offset <= u.size
    BY <2>2, ConstantsAssumption
  <2>4. ReceivesInOrder(u) /\ SendsInOrder(u)
    BY <2>2 DEF ReceivesInOrder, SendsInOrder, OnWindow
  <2> QED BY <2>1, <2>3, <2>4 DEF SlotIsSound
<1>5. /\ u \in Transfer /\ u.used /\ u.ticket = transferSequence + 1 /\ u.incoming = t.incoming
      /\ u.list = t.list /\ u.serial = t.serial
      /\ SlotIsSound(u, transferSequence + 1)
  BY <1>2, <1>3, <1>4
<1> QED BY <1>5 DEF u, Given

\* A larger sequence only makes room.
LEMMA SoundForLonger ==
    ASSUME NEW t, NEW m \in Nat, NEW n \in Nat, m <= n, SlotIsSound(t, m)
    PROVE  SlotIsSound(t, n)
  BY DEF SlotIsSound

\* One slot is changed and keeps its transfer.
LEMMA SlotChanged ==
    ASSUME TableInv, transferSequence \in Nat, UNCHANGED <<transferSequence, reads, drag, outcomes>>,
           NEW i \in Slots, NEW u \in Transfer, transfers' = [transfers EXCEPT ![i] = u],
           transfers[i].used, u.used, u.ticket = transfers[i].ticket,
           u.incoming = transfers[i].incoming, u.list = transfers[i].list, u.serial = transfers[i].serial,
           SlotIsSound(u, transferSequence),
           \/ MayHaveWork(u) /\ WorkIsSound(work', transfers, transferSequence)
           \/ Workless(work', transfers, i) /\ WorkIsSound(work', transfers, transferSequence)
           \/ /\ MayHaveWork(u) /\ Workless(work, transfers, i)
              /\ work' = Append(work, [slot |-> i, ticket |-> u.ticket])
    PROVE  TableInv'
<1>1. /\ transfers \in [Slots -> Transfer] /\ transfers' \in [Slots -> Transfer]
      /\ transfers'[i] = u /\ \A j \in Slots : j # i => transfers'[j] = transfers[j]
  BY DEF TableInv, SlotsInv
<1>2. SlotsInv'
  BY <1>1 DEF TableInv, SlotsInv
<1>3. \A j \in Slots : transfers'[j].ticket \in Nat
  BY <1>1 DEF Transfer
<1>4. WorkInv'
  <2>1. CASE /\ MayHaveWork(u) \/ Workless(work', transfers, i)
             /\ WorkIsSound(work', transfers, transferSequence)
    <3>1. WorkIsSound(work', transfers', transferSequence)
      <4>1. \A j \in Slots : \/ transfers'[j] = transfers[j]
                             \/ /\ transfers[j].used /\ transfers'[j].ticket = transfers[j].ticket
                                /\ MayHaveWork(transfers'[j]) \/ Workless(work', transfers, j)
        BY <1>1, <2>1
      <4>2. transferSequence >= transferSequence
        OBVIOUS
      <4>3. \A j \in Slots : \/ transfers'[j] = transfers[j]
                             \/ ~transfers'[j].used
                             \/ transfers'[j].ticket > transferSequence
                             \/ /\ transfers[j].used /\ transfers'[j].ticket = transfers[j].ticket
                                /\ MayHaveWork(transfers'[j]) \/ Workless(work', transfers, j)
        BY <4>1
      <4> QED BY <1>3, <2>1, <4>2, <4>3, WorkKept
    <3> QED BY <3>1 DEF WorkInv
  <2>2. CASE /\ MayHaveWork(u) /\ Workless(work, transfers, i)
             /\ work' = Append(work, [slot |-> i, ticket |-> u.ticket])
    <3>1. WorkIsSound(work, transfers, transferSequence)
      BY DEF TableInv, WorkInv
    <3>2. WorkIsSound(work, transfers', transferSequence)
      <4>1. \A j \in Slots : \/ transfers'[j] = transfers[j]
                             \/ /\ transfers[j].used /\ transfers'[j].ticket = transfers[j].ticket
                                /\ MayHaveWork(transfers'[j]) \/ Workless(work, transfers, j)
        BY <1>1, <2>2
      <4>2. transferSequence >= transferSequence
        OBVIOUS
      <4>3. \A j \in Slots : \/ transfers'[j] = transfers[j]
                             \/ ~transfers'[j].used
                             \/ transfers'[j].ticket > transferSequence
                             \/ /\ transfers[j].used /\ transfers'[j].ticket = transfers[j].ticket
                                /\ MayHaveWork(transfers'[j]) \/ Workless(work, transfers, j)
        BY <4>1
      <4> QED BY <1>3, <3>1, <4>2, <4>3, WorkKept
    <3>3. Workless(work, transfers', i)
      BY <1>1, <2>2 DEF Workless, IsFor
    <3>4. transfers'[i].ticket <= transferSequence
      BY <1>1, <1>3 DEF SlotIsSound
    <3>5. WorkIsSound(Append(work, [slot |-> i, ticket |-> transfers'[i].ticket]), transfers', transferSequence)
      BY <1>1, <1>3, <2>2, <3>2, <3>3, <3>4, WorkAdded
    <3> QED BY <1>1, <2>2, <3>5 DEF WorkInv
  <2> QED BY <2>1, <2>2
<1>5. ReadsInv'
  <2>1. \A j \in Slots : Serves(transfers'[j]) => Serves(transfers[j]) /\ transfers'[j].serial = transfers[j].serial
    BY <1>1 DEF Serves
  <2>2. ReadsAreSound(reads, transfers)
    BY DEF TableInv, ReadsInv
  <2>3. ReadsAreSound(reads, transfers')
    <3>1. \A us : (\A j \in Slots : Serves(us[j]) => Serves(transfers[j]) /\ us[j].serial = transfers[j].serial)
                     => ReadsAreSound(reads, us)
      BY <2>2, ReadsKept
    <3> QED BY <2>1, <3>1
  <2> QED BY <2>3 DEF ReadsInv
<1>6. DragIsSound(drag)' /\ TransfersAreWhole'
  BY DEF TableInv, TransfersAreWhole, DragIsSound, Open
<1> QED BY <1>2, <1>4, <1>5, <1>6 DEF TableInv

\* Slots are released, those of READs with an answer.
LEMMA SlotsReleased ==
    ASSUME TableInv, transferSequence \in Nat, UNCHANGED transferSequence,
           NEW S \in SUBSET Slots, transfers' = Release(S), InUse(S),
           WorkIsSound(work', transfers, transferSequence),
           \/ reads' = Answer(S, "failed")
           \/ reads' = Answer(S, "ok")
           \/ reads' = reads,
           DragIsSound(drag'), TransfersAreWhole'
    PROVE  TableInv'
<1>1. SlotsInv
  BY DEF TableInv
<1>2. /\ transfers' \in [Slots -> Transfer]
      /\ \A i \in S : transfers'[i] = Free
      /\ \A i \in Slots \ S : transfers'[i] = transfers[i]
      /\ \A i \in Slots : SlotIsSound(transfers'[i], transferSequence)
  BY <1>1, ReleaseFacts
<1>3. SlotsInv'
  BY <1>2 DEF SlotsInv
<1>4. WorkInv'
  <2>1. \A j \in Slots : transfers'[j] = transfers[j] \/ ~transfers'[j].used
    BY <1>2, FreeFacts
  <2>2. \A j \in Slots : transfers'[j].ticket \in Nat
    BY <1>2 DEF Transfer
  <2>3. WorkIsSound(work', transfers', transferSequence)
    BY <2>1, <2>2, WorkKept
  <2> QED BY <2>3 DEF WorkInv
<1>5. ReadsInv'
  <2>1. \A i \in S : ~Serves(transfers'[i])
    BY <1>2, FreeFacts
  <2>2. \A i \in Slots \ S : Serves(transfers'[i]) =>
                                Serves(transfers[i]) /\ transfers'[i].serial = transfers[i].serial
    BY <1>2
  <2>3. CASE reads' = Answer(S, "failed") \/ reads' = Answer(S, "ok")
    <3>1. ReadsAreSound(reads', transfers')
      BY <2>1, <2>2, <2>3, ReadsAnswered DEF TableInv
    <3> QED BY <3>1 DEF ReadsInv
  <2>4. CASE reads' = reads
    <3>1. ReadsAreSound(reads, transfers')
      BY <2>1, <2>2, ReadsKept DEF TableInv, ReadsInv
    <3> QED BY <2>4, <3>1 DEF ReadsInv
  <2> QED BY <2>3, <2>4
<1>6. DragIsSound(drag)'
  BY DEF DragIsSound, Open
<1> QED BY <1>3, <1>4, <1>5, <1>6 DEF TableInv

\* A transfer is begun in a free slot of a table, some of which was released.
LEMMA SlotAllocated ==
    ASSUME TableInv, transferSequence \in Nat, transferSequence' = transferSequence + 1,
           NEW S \in SUBSET Slots, InUse(S), ~Full(Release(S)),
           NEW t, Fresh(t), transfers' = allocate(Release(S), t), work' = work,
           DragIsSound(drag'), TransfersAreWhole',
           \/ /\ ~(t.incoming /\ ~t.list)
              /\ reads' = reads \/ reads' = Answer(S, "failed")
           \/ /\ S = {} /\ reads' = Append(reads, <<>>) /\ t.serial = Len(reads) + 1
    PROVE  TableInv'
<1> DEFINE ts == Release(S)
<1>1. SlotsInv /\ ReadsInv
  BY DEF TableInv
<1>2. /\ ts \in [Slots -> Transfer]
      /\ \A i \in S : ts[i] = Free
      /\ \A i \in Slots \ S : ts[i] = transfers[i]
      /\ \A i \in Slots : SlotIsSound(ts[i], transferSequence)
  BY <1>1, ReleaseFacts
<1> HIDE DEF ts
<1>3. PICK f \in Slots :
         /\ ~ts[f].used
         /\ allocate(ts, t) \in [Slots -> Transfer]
         /\ allocate(ts, t)[f] = Given(t)
         /\ \A i \in Slots : i # f => allocate(ts, t)[i] = ts[i]
  <2>1. ~Full(ts) /\ t \in Transfer
    BY DEF ts, Fresh
  <2>2. \E f \in Slots :
           /\ ~ts[f].used
           /\ allocate(ts, t) \in [Slots -> Transfer]
           /\ allocate(ts, t)[f] = Given(t)
           /\ \A i \in Slots : i # f => allocate(ts, t)[i] = ts[i]
    BY <1>2, <2>1, AllocateFacts
  <2> QED BY <2>2
<1> DEFINE u == Given(t)
<1>4. /\ u \in Transfer /\ u.used /\ u.ticket = transferSequence + 1 /\ u.incoming = t.incoming
      /\ u.list = t.list /\ u.serial = t.serial
      /\ SlotIsSound(u, transferSequence + 1)
  BY FreshFacts
<1>5. transfers' \in [Slots -> Transfer] /\ transfers'[f] = u /\ \A i \in Slots : i # f => transfers'[i] = ts[i]
  BY <1>3 DEF ts
<1> HIDE DEF u
<1>6. SlotsInv'
  <2>1. \A i \in Slots : SlotIsSound(ts[i], transferSequence + 1)
    BY <1>2, SoundForLonger
  <2>2. \A i \in Slots : SlotIsSound(transfers'[i], transferSequence + 1)
    BY <1>4, <1>5, <2>1
  <2> QED BY <1>5, <2>2 DEF SlotsInv
<1>7. WorkInv'
  <2>1. \A j \in Slots : \/ transfers'[j] = transfers[j]
                         \/ ~transfers'[j].used
                         \/ transfers'[j].ticket > transferSequence
    BY <1>2, <1>4, <1>5, FreeFacts
  <2>2. \A j \in Slots : transfers'[j].ticket \in Nat
    BY <1>5 DEF Transfer
  <2>3. WorkIsSound(work, transfers, transferSequence)
    BY DEF TableInv, WorkInv
  <2>4. WorkIsSound(work, transfers', transferSequence + 1)
    BY <2>1, <2>2, <2>3, WorkKept
  <2> QED BY <2>4 DEF WorkInv
<1>8. ReadsInv'
  <2>1. CASE ~(t.incoming /\ ~t.list) /\ (reads' = reads \/ reads' = Answer(S, "failed"))
    <3>1. \A i \in S : ~Serves(transfers'[i])
      BY <1>2, <1>4, <1>5, <2>1, FreeFacts DEF Serves
    <3>2. \A i \in Slots \ S : Serves(transfers'[i]) =>
                                  Serves(transfers[i]) /\ transfers'[i].serial = transfers[i].serial
      BY <1>2, <1>4, <1>5, <2>1 DEF Serves
    <3>3. CASE reads' = Answer(S, "failed")
      <4>1. ReadsAreSound(reads', transfers')
        BY <1>1, <3>1, <3>2, <3>3, ReadsAnswered
      <4> QED BY <4>1 DEF ReadsInv
    <3>4. CASE reads' = reads
      <4>1. ReadsAreSound(reads, transfers')
        BY <1>1, <3>1, <3>2, ReadsKept DEF ReadsInv
      <4> QED BY <3>4, <4>1 DEF ReadsInv
    <3> QED BY <2>1, <3>3, <3>4
  <2>2. CASE S = {} /\ reads' = Append(reads, <<>>) /\ t.serial = Len(reads) + 1
    <3> DEFINE rs == Append(reads, <<>>)
    <3>1. reads \in Seq(Answers) /\ <<>> \in Answers
      BY <1>1 DEF ReadsInv, ReadsAreSound, Answers
    <3>2. /\ rs \in Seq(Answers)
          /\ \A k \in DOMAIN rs : \/ k \in DOMAIN reads /\ rs[k] = reads[k]
                                  \/ k = Len(reads) + 1 /\ k \notin DOMAIN reads /\ rs[k] = <<>>
          /\ \A k \in DOMAIN reads : k \in DOMAIN rs
          /\ Len(reads) + 1 \in DOMAIN rs
          /\ Len(reads) + 1 \notin DOMAIN reads
      <4>1. DOMAIN reads = 1..Len(reads) /\ Len(reads) \in Nat
        BY <3>1
      <4>2. Len(reads) + 1 \notin DOMAIN reads
        BY <4>1
      <4> QED BY <3>1, <4>2, AppendFacts
    <3> HIDE DEF rs
    <3>3. \A i \in Slots : i # f => transfers'[i] = transfers[i]
      BY <1>2, <1>5, <2>2
    <3>4. transfers'[f].serial = Len(reads) + 1
      BY <1>4, <1>5, <2>2
    <3>5. rs[Len(reads) + 1] = <<>>
      BY <3>2
    <3>6. ReadsAreSound(rs, transfers')
      <4>1. \A s \in DOMAIN rs : Len(rs[s]) <= 1
        BY <1>1, <3>2 DEF ReadsInv, ReadsAreSound
      <4>2. \A i \in Slots : Serves(transfers'[i]) =>
               transfers'[i].serial \in DOMAIN rs /\ rs[transfers'[i].serial] = <<>>
        BY <1>1, <3>2, <3>3, <3>4, <3>5 DEF ReadsInv, ReadsAreSound
      <4>3. \A i \in Slots : i # f /\ Serves(transfers'[i]) => transfers'[i].serial # Len(reads) + 1
        BY <1>1, <3>2, <3>3 DEF ReadsInv, ReadsAreSound
      <4>4. \A i, j \in Slots : Serves(transfers'[i]) /\ Serves(transfers'[j])
                                /\ transfers'[i].serial = transfers'[j].serial => i = j
        BY <1>1, <3>3, <3>4, <4>3 DEF ReadsInv, ReadsAreSound
      <4> QED BY <3>2, <4>1, <4>2, <4>4 DEF ReadsAreSound
    <3> QED BY <2>2, <3>6 DEF ReadsInv, rs
  <2> QED BY <2>1, <2>2
<1>9. DragIsSound(drag)'
  BY DEF DragIsSound, Open
<1> QED BY <1>6, <1>7, <1>8, <1>9 DEF TableInv

\* fail() for one slot.
LEMMA Failed ==
    ASSUME TableInv, transferSequence \in Nat, UNCHANGED transferSequence, NEW i \in Slots, InUse({i}), fail({i}),
           WorkIsSound(work', transfers, transferSequence)
    PROVE  TableInv'
<1>1. transfers' = Release({i}) /\ reads' = Answer({i}, "failed") /\ drag' = FailedDrag({i}) /\ outcomes' = outcomes
  BY DEF fail
<1>2. DragIsSound(drag')
  BY <1>1, FailedIsSound DEF TableInv
<1>3. TransfersAreWhole'
  BY <1>1 DEF TableInv, TransfersAreWhole
<1>4. {i} \in SUBSET Slots
  OBVIOUS
<1> QED BY <1>1, <1>2, <1>3, <1>4, SlotsReleased

\* receive(): the owner has written taken pieces, the one in the property p
\* included, and no other work is queued for the slot.
LEMMA Received ==
    ASSUME TableInv, transferSequence \in Nat, UNCHANGED transferSequence, NEW i \in Slots, InUse({i}),
           NEW p \in Properties, NEW initial \in BOOLEAN, NEW taken \in Nat, receive(i, p, initial, taken),
           transfers[i].incoming, initial <=> ~transfers[i].incremental,
           taken = transfers[i].size + (IF p = "data" THEN 1 ELSE 0),
           WorkIsSound(work', transfers, transferSequence), Workless(work', transfers, i)
    PROVE  TableInv'
<1> DEFINE t == transfers[i]
           size == t.size + (IF p = "data" THEN 1 ELSE 0)
<1>1. t \in Transfer /\ SlotIsSound(t, transferSequence) /\ t.used
  BY DEF TableInv, SlotsInv, InUse
<1>2. t.size \in Nat /\ MaxBytes \in Nat
  BY <1>1, ConstantsAssumption DEF Transfer
<1>3. t.size <= MaxBytes /\ ReceivesInOrder(t) /\ t.ticket \in 1..transferSequence
  BY <1>1 DEF SlotIsSound
<1>4. CASE Refused(t, p, initial) /\ fail({i})
  BY <1>4, Failed
<1>5. CASE /\ ~Refused(t, p, initial) /\ Begins(t, p, initial)
           /\ transfers' = [transfers EXCEPT ![i].incremental = TRUE, ![i].queued = FALSE, ![i].prop = "none"]
           /\ UNCHANGED <<reads, drag, outcomes>>
  <2> DEFINE u == [t EXCEPT !.incremental = TRUE, !.queued = FALSE, !.prop = "none"]
  <2>1. transfers' = [transfers EXCEPT ![i] = u]
    BY <1>5 DEF TableInv, SlotsInv
  <2>2. /\ u \in Transfer /\ u.used = t.used /\ u.ticket = t.ticket /\ u.incoming = t.incoming /\ u.list = t.list
        /\ u.serial = t.serial /\ u.size = t.size /\ u.offset = t.offset /\ u.taken = t.taken /\ u.prop = "none"
        /\ u.incremental = TRUE
    BY <1>1 DEF Transfer, Properties
  <2>3. t.size = 0 /\ t.prop = "none" /\ t.taken = 0 /\ t.offset = 0
    <3>1. ~t.incremental
      BY <1>5 DEF Begins
    <3> QED BY <1>3, <3>1 DEF ReceivesInOrder, OnWindow
  <2> HIDE DEF u
  <2>4. SlotIsSound(u, transferSequence)
    <3>1. ReceivesInOrder(u)
      BY <2>2, <2>3 DEF ReceivesInOrder, OnWindow
    <3>2. u.incoming
      BY <2>2
    <3>3. u.ticket \in 1..transferSequence /\ u.size <= MaxBytes /\ u.offset <= u.size
      BY <1>2, <1>3, <2>2, <2>3
    <3> QED BY <3>1, <3>2, <3>3 DEF SlotIsSound
  <2>5. transfers[i].used /\ u.used
    BY <1>1, <2>2
  <2> QED BY <1>5, <2>1, <2>2, <2>4, <2>5, SlotChanged
<1>6. CASE /\ ~Refused(t, p, initial) /\ ~Begins(t, p, initial) /\ Completes(t, p)
           /\ transfers' = Release({i})
           /\ reads' = Answer({i}, "ok")
           /\ outcomes' = IF t.list THEN outcomes
                          ELSE outcomes \cup {IF size = taken THEN "whole" ELSE "partial"}
           /\ UNCHANGED drag
  <2>1. TransfersAreWhole'
    BY <1>6 DEF TableInv, TransfersAreWhole
  <2>2. DragIsSound(drag')
    BY <1>6 DEF TableInv
  <2>3. {i} \in SUBSET Slots
    OBVIOUS
  <2> QED BY <1>6, <2>1, <2>2, <2>3, SlotsReleased
<1>7. CASE /\ ~Refused(t, p, initial) /\ ~Begins(t, p, initial) /\ ~Completes(t, p)
           /\ transfers' = [transfers EXCEPT ![i].size = size, ![i].taken = taken,
                                             ![i].queued = FALSE, ![i].prop = "none"]
           /\ UNCHANGED <<reads, drag, outcomes>>
  <2> DEFINE u == [t EXCEPT !.size = size, !.taken = taken, !.queued = FALSE, !.prop = "none"]
  <2>1. transfers' = [transfers EXCEPT ![i] = u]
    BY <1>7 DEF TableInv, SlotsInv
  <2>2. p = "data" /\ ~t.list /\ t.incremental /\ t.size # MaxBytes
    BY <1>7 DEF Refused, Begins, Completes, Properties
  <2>3. size = t.size + 1 /\ size \in Nat /\ size <= MaxBytes /\ taken = size
    BY <1>2, <1>3, <2>2
  <2> HIDE DEF size
  <2>4. /\ u \in Transfer /\ u.used = t.used /\ u.ticket = t.ticket /\ u.incoming = t.incoming /\ u.list = t.list
        /\ u.serial = t.serial /\ u.size = size /\ u.offset = t.offset /\ u.taken = taken /\ u.prop = "none"
        /\ u.incremental = t.incremental
    BY <1>1, <2>3 DEF Transfer, Properties
  <2> HIDE DEF u
  <2>5. SlotIsSound(u, transferSequence)
    <3>1. ReceivesInOrder(u)
      BY <1>3, <2>2, <2>3, <2>4 DEF ReceivesInOrder, OnWindow
    <3>2. u.incoming
      BY <2>4
    <3>3. u.ticket \in 1..transferSequence /\ u.size <= MaxBytes /\ u.offset <= u.size
      BY <1>3, <2>3, <2>4 DEF ReceivesInOrder
    <3> QED BY <3>1, <3>2, <3>3 DEF SlotIsSound
  <2>6. transfers[i].used /\ u.used
    BY <1>1, <2>4
  <2> QED BY <1>7, <2>1, <2>4, <2>5, <2>6, SlotChanged
<1> QED BY <1>4, <1>5, <1>6, <1>7 DEF receive

\* sendChunk(): the client has taken the piece before away, and no other work is
\* queued for the slot.
LEMMA Sent ==
    ASSUME TableInv, transferSequence \in Nat, UNCHANGED <<transferSequence, reads>>, NEW i \in Slots, InUse({i}),
           NEW rc \in BOOLEAN, NEW hit \in Hits, sendChunk(i, rc, hit),
           ~transfers[i].incoming, MayHaveWork(transfers[i]),
           WorkIsSound(work', transfers, transferSequence), Workless(work', transfers, i)
    PROVE  TableInv'
<1> DEFINE t == transfers[i]
           length == IF t.size > t.offset THEN 1 ELSE 0
<1>1. t \in Transfer /\ SlotIsSound(t, transferSequence) /\ t.used
  BY DEF TableInv, SlotsInv, InUse
<1>2. t.size \in Nat /\ t.offset \in Nat /\ t.taken \in Nat /\ MaxBytes \in Nat
  BY <1>1, ConstantsAssumption DEF Transfer
<1>3. /\ t.size <= MaxBytes /\ t.offset <= t.size /\ SendsInOrder(t) /\ t.ticket \in 1..transferSequence
      /\ t.prop = "none" /\ t.incremental /\ t.replied
  BY <1>1 DEF SlotIsSound, MayHaveWork, SendsInOrder
<1>4. t.alive => t.offset = t.taken
  BY <1>2, <1>3 DEF SendsInOrder, OnWindow
<1>5. {i} \in SUBSET Slots
  OBVIOUS
<1>6. CASE /\ ~t.alive
           /\ transfers' = Release({i})
           /\ drag' = selectionFinished(t, FALSE, Release({i}), hit)
           /\ UNCHANGED outcomes
  <2>1. TransfersAreWhole'
    BY <1>6 DEF TableInv, TransfersAreWhole
  <2>2. DragIsSound(drag')
    BY <1>6, FinishedIsSound DEF TableInv
  <2> QED BY <1>5, <1>6, <2>1, <2>2, SlotsReleased
<1>7. CASE /\ t.alive /\ rc /\ length = 1
           /\ transfers' = [transfers EXCEPT ![i].offset = @ + 1, ![i].queued = FALSE, ![i].prop = "data"]
           /\ UNCHANGED <<drag, outcomes>>
  <2> DEFINE u == [t EXCEPT !.offset = @ + 1, !.queued = FALSE, !.prop = "data"]
  <2>1. transfers' = [transfers EXCEPT ![i] = u]
    BY <1>7 DEF TableInv, SlotsInv
  <2>2. t.offset + 1 \in Nat /\ t.offset + 1 <= t.size
    BY <1>2, <1>7
  <2>3. /\ u \in Transfer /\ u.used = t.used /\ u.ticket = t.ticket /\ u.incoming = t.incoming /\ u.list = t.list
        /\ u.serial = t.serial /\ u.size = t.size /\ u.offset = t.offset + 1 /\ u.taken = t.taken /\ u.prop = "data"
        /\ u.incremental = t.incremental /\ u.replied = t.replied /\ u.alive = t.alive
    BY <1>1, <2>2 DEF Transfer, Properties
  <2> HIDE DEF u
  <2>4. SlotIsSound(u, transferSequence)
    <3>1. SendsInOrder(u)
      BY <1>2, <1>3, <1>4, <1>7, <2>3 DEF SendsInOrder, OnWindow
    <3>2. ~u.incoming
      BY <2>3
    <3>3. u.ticket \in 1..transferSequence /\ u.size <= MaxBytes /\ u.offset <= u.size
      BY <1>3, <2>2, <2>3
    <3> QED BY <3>1, <3>2, <3>3 DEF SlotIsSound
  <2>5. transfers[i].used /\ u.used
    BY <1>1, <2>3
  <2> QED BY <1>7, <2>1, <2>3, <2>4, <2>5, SlotChanged
<1>8. CASE /\ t.alive /\ (~rc \/ length = 0)
           /\ transfers' = Release({i})
           /\ drag' = selectionFinished(t, rc, Release({i}), hit)
           /\ outcomes' = IF ~rc THEN outcomes
                          ELSE outcomes \cup {IF t.taken = t.size THEN "whole" ELSE "partial"}
  <2>1. rc => t.taken = t.size
    BY <1>2, <1>3, <1>4, <1>8
  <2>2. TransfersAreWhole'
    BY <1>8, <2>1 DEF TableInv, TransfersAreWhole
  <2>3. DragIsSound(drag')
    BY <1>8, FinishedIsSound DEF TableInv
  <2> QED BY <1>5, <1>8, <2>2, <2>3, SlotsReleased
<1> QED BY <1>6, <1>7, <1>8 DEF sendChunk

-----------------------------------------------------------------------------
\* Steps that leave most of the state alone.

\* The flags, the selections and the exported drag are not touched.
LEMMA FrameKept ==
    ASSUME TypesInv, OffersInv, UNCHANGED <<flags, sequence, owner, offers, export>>,
           transferSequence' \in Nat, requestSequence' \in Nat
    PROVE  TypesInv' /\ OffersInv'
  BY DEF TypesInv, OffersInv, flags

\* No slot changes, though a ticket may have been spent, and a READ that cannot be
\* served is answered at once.
LEMMA TableKept ==
    ASSUME TableInv, transferSequence \in Nat, UNCHANGED <<transfers, work, outcomes>>, DragIsSound(drag'),
           transferSequence' = transferSequence \/ transferSequence' = transferSequence + 1,
           reads' = reads \/ reads' = Append(reads, <<"failed">>)
    PROVE  TableInv'
<1>1. transferSequence' \in Nat /\ transferSequence' >= transferSequence /\ transferSequence <= transferSequence'
  OBVIOUS
<1>2. SlotsInv'
  <2>1. \A i \in Slots : SlotIsSound(transfers[i], transferSequence')
    BY <1>1, SoundForLonger DEF TableInv, SlotsInv
  <2> QED BY <2>1 DEF TableInv, SlotsInv
<1>3. WorkInv'
  <2>1. WorkIsSound(work, transfers, transferSequence) /\ \A i \in Slots : transfers[i].ticket \in Nat
    BY DEF TableInv, WorkInv, SlotsInv, Transfer
  <2>2. WorkIsSound(work, transfers, transferSequence')
    BY <1>1, <2>1, WorkKept
  <2> QED BY <2>2 DEF WorkInv
<1>4. ReadsInv'
  <2>1. CASE reads' = reads
    BY <2>1 DEF TableInv, ReadsInv, ReadsAreSound
  <2>2. CASE reads' = Append(reads, <<"failed">>)
    <3> DEFINE x == <<"failed">>
               rs == Append(reads, x)
    <3>1. x \in Answers /\ Len(x) = 1
      BY DEF Answers
    <3>2. reads \in Seq(Answers)
      BY DEF TableInv, ReadsInv, ReadsAreSound
    <3> HIDE DEF x
    <3>3. /\ rs \in Seq(Answers)
          /\ \A k \in DOMAIN rs : \/ k \in DOMAIN reads /\ rs[k] = reads[k]
                                  \/ k = Len(reads) + 1 /\ k \notin DOMAIN reads /\ rs[k] = x
          /\ \A k \in DOMAIN reads : k \in DOMAIN rs
      BY <3>1, <3>2, AppendFacts
    <3> HIDE DEF rs
    <3>4. \A s \in DOMAIN rs : Len(rs[s]) <= 1
      <4>1. \A s \in DOMAIN reads : Len(reads[s]) <= 1
        BY DEF TableInv, ReadsInv, ReadsAreSound
      <4>2. Len(x) <= 1
        BY <3>1
      <4> QED BY <3>3, <4>1, <4>2
    <3>5. \A i \in Slots : Serves(transfers[i]) => transfers[i].serial \in DOMAIN rs /\ rs[transfers[i].serial] = <<>>
      BY <3>3 DEF TableInv, ReadsInv, ReadsAreSound
    <3>6. ReadsAreSound(rs, transfers)
      BY <3>3, <3>4, <3>5 DEF TableInv, ReadsInv, ReadsAreSound
    <3> QED BY <2>2, <3>6 DEF ReadsInv, rs, x
  <2> QED BY <2>1, <2>2
<1>5. DragIsSound(drag)' /\ TransfersAreWhole'
  BY DEF TableInv, TransfersAreWhole, DragIsSound, Open
<1> QED BY <1>2, <1>3, <1>4, <1>5 DEF TableInv

\* Only the drag changes.
LEMMA OnlyDrag ==
    ASSUME ExchangeInv, Unmoved, DragIsSound(drag')
    PROVE  ExchangeInv'
<1>1. UNCHANGED <<flags, sequence, transferSequence, requestSequence, owner, offers, export>>
      /\ UNCHANGED <<transfers, work, outcomes, reads>>
  BY DEF Unmoved, counters
<1>2. transferSequence \in Nat /\ requestSequence \in Nat
  BY DEF ExchangeInv, TypesInv
<1>3. TypesInv' /\ OffersInv'
  BY <1>1, <1>2, FrameKept DEF ExchangeInv
<1>4. TableInv'
  BY <1>1, <1>2, TableKept DEF ExchangeInv
<1> QED BY <1>3, <1>4 DEF ExchangeInv

\* A transfer that cannot have work has none.
LEMMA NoWork ==
    ASSUME WorkInv, NEW i \in Slots, ~MayHaveWork(transfers[i])
    PROVE  Workless(work, transfers, i)
  BY DEF WorkInv, WorkIsSound, Workless

\* A slot in use.
LEMMA UsedFacts ==
    ASSUME TableInv, NEW i \in Slots, transfers[i].used
    PROVE  InUse({i}) /\ {i} \in SUBSET Slots /\ transfers[i] \in Transfer
           /\ SlotIsSound(transfers[i], transferSequence)
  BY DEF InUse, TableInv, SlotsInv

\* Nothing is released.
LEMMA ReleaseNothing ==
    ASSUME TableInv
    PROVE  Release({}) = transfers
  BY DEF Release, TableInv, SlotsInv

-----------------------------------------------------------------------------
\* Transfers to the host.

LEMMA FreshIncoming ==
    ASSUME NEW channel \in Channels, NEW serial \in Nat, NEW generation \in Nat, NEW list \in BOOLEAN
    PROVE  LET t == Incoming(channel, serial, generation, list) IN
           Fresh(t) /\ t.incoming /\ t.list = list /\ t.serial = serial
  BY FreeFacts DEF Incoming, Fresh, Free, Transfer, Properties

LEMMA ReadStep ==
    ASSUME ExchangeInv, NEW channel \in Channels, NEW generation \in 1..sequence, NEW made \in BOOLEAN,
           Read(channel, generation, made)
    PROVE  ExchangeInv'
<1> DEFINE serial == Len(reads) + 1
           asks == Askable(offers[channel], channel, generation, owner[channel]) /\ ~Full(transfers)
           t == Incoming(channel, serial, generation, FALSE)
<1>1. /\ reads' = Append(reads, IF asks /\ made THEN <<>> ELSE <<"failed">>)
      /\ transferSequence' = IF asks THEN transferSequence + 1 ELSE transferSequence
      /\ transfers' = IF asks /\ made THEN allocate(transfers, t) ELSE transfers
      /\ UNCHANGED <<flags, sequence, requestSequence, owner, offers, work, drag, export, outcomes>>
  BY DEF Read
<1>2. TypesInv /\ OffersInv /\ TableInv /\ transferSequence \in Nat /\ requestSequence \in Nat /\ sequence \in Nat
  BY DEF ExchangeInv, TypesInv
<1>3. generation \in Nat /\ serial \in Nat
  <2>1. reads \in Seq(Answers)
    BY <1>2 DEF TableInv, ReadsInv, ReadsAreSound
  <2> QED BY <1>2, <2>1
<1>4. asks => ~Full(transfers)
  OBVIOUS
<1> HIDE DEF asks, serial
<1>5. Fresh(t) /\ t.serial = serial
  BY <1>3, FreshIncoming
<1> HIDE DEF t
<1>6. DragIsSound(drag') /\ TransfersAreWhole'
  BY <1>1, <1>2 DEF TableInv, TransfersAreWhole
<1>7. TypesInv' /\ OffersInv'
  BY <1>1, <1>2, FrameKept
<1>8. TableInv'
  <2>1. CASE asks /\ made
    <3>1. Release({}) = transfers
      BY <1>2, ReleaseNothing
    <3>2. {} \in SUBSET Slots /\ InUse({})
      BY DEF InUse
    <3>3. /\ ~Full(Release({})) /\ transfers' = allocate(Release({}), t) /\ work' = work
          /\ transferSequence' = transferSequence + 1
      BY <1>1, <1>4, <2>1, <3>1
    <3>4. reads' = Append(reads, <<>>) /\ t.serial = Len(reads) + 1
      BY <1>1, <1>5, <2>1 DEF serial
    <3> QED BY <1>2, <1>5, <1>6, <3>2, <3>3, <3>4, SlotAllocated
  <2>2. CASE ~(asks /\ made)
    <3>1. reads' = Append(reads, <<"failed">>) /\ UNCHANGED <<transfers, work, outcomes>>
      BY <1>1, <2>2
    <3> QED BY <1>1, <1>2, <1>6, <3>1, TableKept
  <2> QED BY <2>1, <2>2
<1> QED BY <1>7, <1>8 DEF ExchangeInv

LEMMA SelectionNotifyStep ==
    ASSUME ExchangeInv, NEW i \in Slots, NEW p \in Properties, SelectionNotify(i, p)
    PROVE  ExchangeInv'
<1> DEFINE taken == IF p = "data" THEN 1 ELSE 0
<1>1. /\ transfers[i].used /\ transfers[i].incoming /\ ~transfers[i].incremental
      /\ receive(i, p, TRUE, taken)
      /\ UNCHANGED <<flags, sequence, transferSequence, requestSequence, owner, offers, work, export>>
  BY DEF SelectionNotify, counters
<1>2. TypesInv /\ OffersInv /\ TableInv /\ transferSequence \in Nat /\ requestSequence \in Nat
  BY DEF ExchangeInv, TypesInv
<1>3. TypesInv' /\ OffersInv'
  BY <1>1, <1>2, FrameKept
<1>4. InUse({i}) /\ SlotIsSound(transfers[i], transferSequence)
  BY <1>1, <1>2, UsedFacts
<1>5. taken \in Nat /\ taken = transfers[i].size + (IF p = "data" THEN 1 ELSE 0)
  BY <1>1, <1>4 DEF SlotIsSound, ReceivesInOrder
<1>6. WorkIsSound(work', transfers, transferSequence) /\ Workless(work', transfers, i)
  BY <1>1, <1>2, NoWork DEF TableInv, WorkInv, MayHaveWork
<1> HIDE DEF taken
<1>7. TableInv'
  BY <1>1, <1>2, <1>4, <1>5, <1>6, Received
<1> QED BY <1>3, <1>7 DEF ExchangeInv

LEMMA OwnerWritesStep ==
    ASSUME ExchangeInv, NEW i \in Slots, NEW p \in {"bad", "data", "end"}, OwnerWrites(i, p)
    PROVE  ExchangeInv'
<1> DEFINE t == transfers[i]
           u == [t EXCEPT !.prop = p, !.queued = TRUE, !.taken = IF p = "data" THEN @ + 1 ELSE @]
<1>1. /\ t.used /\ t.incoming /\ t.incremental /\ t.prop = "none"
      /\ transfers' = [transfers EXCEPT ![i].prop = p, ![i].queued = TRUE,
                                        ![i].taken = IF p = "data" THEN @ + 1 ELSE @]
      /\ PropertyWork(i)
      /\ UNCHANGED <<flags, sequence, transferSequence, requestSequence, owner, offers, drag, export, reads, outcomes>>
  BY DEF OwnerWrites, counters
<1>2. TypesInv /\ OffersInv /\ TableInv /\ transferSequence \in Nat /\ requestSequence \in Nat
  BY DEF ExchangeInv, TypesInv
<1>3. TypesInv' /\ OffersInv'
  BY <1>1, <1>2, FrameKept
<1>4. t \in Transfer /\ SlotIsSound(t, transferSequence)
  BY <1>1, <1>2, UsedFacts
<1>5. t.size \in Nat /\ t.taken \in Nat /\ t.taken + 1 \in Nat
  BY <1>4 DEF Transfer
<1>6. transfers' = [transfers EXCEPT ![i] = u]
  BY <1>1, <1>2 DEF TableInv, SlotsInv
<1>7. /\ u \in Transfer /\ u.used = t.used /\ u.ticket = t.ticket /\ u.incoming = t.incoming /\ u.list = t.list
      /\ u.serial = t.serial /\ u.size = t.size /\ u.offset = t.offset /\ u.prop = p /\ u.queued = TRUE
      /\ u.incremental = t.incremental /\ u.taken = IF p = "data" THEN t.taken + 1 ELSE t.taken
  BY <1>4, <1>5 DEF Transfer, Properties
<1> HIDE DEF u
<1>8. SlotIsSound(u, transferSequence)
  <2>1. ReceivesInOrder(t) /\ t.ticket \in 1..transferSequence /\ t.size <= MaxBytes /\ t.offset <= t.size
    BY <1>1, <1>4 DEF SlotIsSound
  <2>2. ReceivesInOrder(u)
    BY <1>1, <1>5, <1>7, <2>1 DEF ReceivesInOrder, OnWindow
  <2>3. u.incoming
    BY <1>1, <1>7
  <2> QED BY <1>7, <2>1, <2>2, <2>3 DEF SlotIsSound
<1>9. u.used /\ MayHaveWork(u)
  BY <1>1, <1>7 DEF MayHaveWork
<1>10. \/ work' = work
       \/ Workless(work, transfers, i) /\ work' = Append(work, [slot |-> i, ticket |-> u.ticket])
  <2>1. CASE t.queued
    BY <1>1, <2>1 DEF PropertyWork
  <2>2. CASE ~t.queued
    <3>1. Workless(work, transfers, i)
      BY <1>2, <2>2, NoWork DEF TableInv, MayHaveWork
    <3> QED BY <1>1, <1>7, <2>2, <3>1 DEF PropertyWork
  <2> QED BY <2>1, <2>2
<1>11. WorkIsSound(work, transfers, transferSequence)
  BY <1>2 DEF TableInv, WorkInv
<1>12. TableInv'
  BY <1>1, <1>2, <1>6, <1>7, <1>8, <1>9, <1>10, <1>11, SlotChanged
<1> QED BY <1>3, <1>12 DEF ExchangeInv

LEMMA PropertyWorkStep ==
    ASSUME ExchangeInv, NEW rc \in BOOLEAN, NEW hit \in Hits, propertyWork(rc, hit)
    PROVE  ExchangeInv'
<1> DEFINE w == Head(work)
           i == w.slot
<1>1. /\ work # <<>> /\ work' = Tail(work)
      /\ UNCHANGED <<flags, sequence, transferSequence, requestSequence, owner, offers, export>>
  BY DEF propertyWork, counters
<1>2. TypesInv /\ OffersInv /\ TableInv /\ transferSequence \in Nat /\ requestSequence \in Nat
  BY DEF ExchangeInv, TypesInv
<1>3. TypesInv' /\ OffersInv'
  BY <1>1, <1>2, FrameKept
<1>4. WorkIsSound(work, transfers, transferSequence)
  BY <1>2 DEF TableInv, WorkInv
<1>5. /\ WorkIsSound(work', transfers, transferSequence)
      /\ w \in Item
      /\ IsFor(w, transfers[i]) => MayHaveWork(transfers[i]) /\ Workless(work', transfers, i)
  BY <1>1, <1>2, <1>4, WorkTaken
<1>6. i \in Slots
  BY <1>5 DEF Item
<1>7. CASE Current(w) /\ transfers[i].incoming /\ receive(i, transfers[i].prop, FALSE, transfers[i].taken)
  <2>1. transfers[i].used /\ MayHaveWork(transfers[i]) /\ Workless(work', transfers, i)
    BY <1>5, <1>7 DEF Current, IsFor
  <2>2. InUse({i}) /\ transfers[i] \in Transfer /\ SlotIsSound(transfers[i], transferSequence)
    BY <1>2, <1>6, <2>1, UsedFacts
  <2>3. transfers[i].prop \in Properties /\ transfers[i].taken \in Nat
    BY <2>2 DEF Transfer
  <2>4. transfers[i].taken = transfers[i].size + (IF transfers[i].prop = "data" THEN 1 ELSE 0)
    BY <1>7, <2>1, <2>2 DEF SlotIsSound, ReceivesInOrder, OnWindow
  <2>5. FALSE <=> ~transfers[i].incremental
    BY <2>1 DEF MayHaveWork
  <2> HIDE DEF i
  <2>6. TableInv'
    BY <1>1, <1>2, <1>5, <1>6, <1>7, <2>1, <2>2, <2>3, <2>4, <2>5, Received
  <2> QED BY <1>3, <2>6 DEF ExchangeInv
<1>8. CASE Current(w) /\ ~transfers[i].incoming /\ sendChunk(i, rc, hit) /\ UNCHANGED reads
  <2>1. transfers[i].used /\ MayHaveWork(transfers[i]) /\ Workless(work', transfers, i)
    BY <1>5, <1>8 DEF Current, IsFor
  <2>2. InUse({i})
    BY <1>2, <1>6, <2>1, UsedFacts
  <2> HIDE DEF i
  <2>3. TableInv'
    BY <1>1, <1>2, <1>5, <1>6, <1>8, <2>1, <2>2, Sent
  <2> QED BY <1>3, <2>3 DEF ExchangeInv
<1>9. CASE UNCHANGED <<transfers, reads, drag, outcomes>>
  <2>1. TableInv'
    BY <1>1, <1>2, <1>5, <1>9 DEF TableInv, SlotsInv, WorkInv, ReadsInv, TransfersAreWhole
  <2> QED BY <1>3, <2>1 DEF ExchangeInv
<1> QED BY <1>7, <1>8, <1>9 DEF propertyWork

LEMMA ExpiredStep ==
    ASSUME ExchangeInv, NEW i \in Slots, expired(i)
    PROVE  ExchangeInv'
<1>1. /\ transfers[i].used /\ fail({i})
      /\ UNCHANGED <<flags, sequence, transferSequence, requestSequence, owner, offers, work, export>>
  BY DEF expired, counters
<1>2. TypesInv /\ OffersInv /\ TableInv /\ transferSequence \in Nat /\ requestSequence \in Nat
  BY DEF ExchangeInv, TypesInv
<1>3. TypesInv' /\ OffersInv'
  BY <1>1, <1>2, FrameKept
<1>4. InUse({i}) /\ WorkIsSound(work', transfers, transferSequence)
  BY <1>1, <1>2, UsedFacts DEF TableInv, WorkInv
<1>5. TableInv'
  BY <1>1, <1>2, <1>4, Failed
<1> QED BY <1>3, <1>5 DEF ExchangeInv

-----------------------------------------------------------------------------
\* Transfers to clients.

LEMMA ConvertStep ==
    ASSUME ExchangeInv, NEW channel \in Channels, NEW kind, convert(channel, kind)
    PROVE  ExchangeInv'
<1> DEFINE t == [Free EXCEPT !.channel = channel, !.serial = requestSequence + 1,
                             !.generation = offers[channel].generation, !.alive = TRUE]
<1>1. /\ requestSequence' = requestSequence + 1
      /\ transferSequence' = IF Full(transfers) THEN transferSequence ELSE transferSequence + 1
      /\ transfers' = IF kind = "offered" /\ ~Full(transfers) THEN allocate(transfers, t) ELSE transfers
      /\ drag' = IF kind = "unknown" /\ ~Full(transfers)
                 THEN selectionFinished(t, FALSE, transfers, None) ELSE drag
      /\ UNCHANGED <<flags, sequence, owner, offers, work, export, reads, outcomes>>
  BY DEF convert
<1>2. TypesInv /\ OffersInv /\ TableInv /\ transferSequence \in Nat /\ requestSequence \in Nat
  BY DEF ExchangeInv, TypesInv
<1>3. requestSequence + 1 \in Nat /\ offers[channel].generation \in Nat
  BY <1>2 DEF OffersInv
<1>4. Fresh(t) /\ ~t.incoming
  <2>1. \A n \in Nat, g \in Nat : LET f == [Free EXCEPT !.channel = channel, !.serial = n, !.generation = g, !.alive = TRUE]
                                  IN  Fresh(f) /\ ~f.incoming
    BY FreeFacts DEF Fresh, Free, Transfer, Properties
  <2> QED BY <1>3, <2>1
<1> HIDE DEF t
<1>5. TypesInv' /\ OffersInv'
  BY <1>1, <1>2, <1>3, FrameKept
<1>6. DragIsSound(drag')
  <2>1. None \in Hits
    BY DEF Hits
  <2>2. DragIsSound(selectionFinished(t, FALSE, transfers, None))
    BY <1>2, <2>1, FinishedIsSound DEF TableInv
  <2> QED BY <1>1, <1>2, <2>2 DEF TableInv
<1>7. CASE kind = "offered" /\ ~Full(transfers)
  <2>1. Release({}) = transfers
    BY <1>2, ReleaseNothing
  <2>2. {} \in SUBSET Slots /\ InUse({})
    BY DEF InUse
  <2>3. /\ ~Full(Release({})) /\ transfers' = allocate(Release({}), t) /\ work' = work
        /\ transferSequence' = transferSequence + 1 /\ reads' = reads
    BY <1>1, <1>7, <2>1
  <2>4. TransfersAreWhole'
    BY <1>1, <1>2 DEF TableInv, TransfersAreWhole
  <2>5. TableInv'
    BY <1>2, <1>4, <1>6, <2>2, <2>3, <2>4, SlotAllocated
  <2> QED BY <1>5, <2>5 DEF ExchangeInv
<1>8. CASE ~(kind = "offered" /\ ~Full(transfers))
  <2>1. UNCHANGED <<transfers, work, outcomes>>
    BY <1>1, <1>8
  <2>2. TableInv'
    BY <1>1, <1>2, <1>6, <2>1, TableKept
  <2> QED BY <1>5, <2>2 DEF ExchangeInv
<1> QED BY <1>7, <1>8

\* The requestor's transfer is released, whatever the drag is told.
LEMMA ReplyReleases ==
    ASSUME TableInv, transferSequence \in Nat, UNCHANGED <<transferSequence, work, reads>>, NEW i \in Slots,
           transfers[i].used, transfers' = Release({i}), DragIsSound(drag'), TransfersAreWhole'
    PROVE  TableInv'
<1>1. InUse({i}) /\ {i} \in SUBSET Slots
  BY UsedFacts
<1>2. WorkIsSound(work', transfers, transferSequence)
  BY DEF TableInv, WorkInv
<1> QED BY <1>1, <1>2, SlotsReleased

LEMMA ReplyStep ==
    ASSUME ExchangeInv, NEW i \in Slots, NEW size \in Int, NEW rc \in BOOLEAN, NEW hit \in Hits,
           Reply(i, size, rc, hit)
    PROVE  ExchangeInv'
<1> DEFINE s == transfers[i]
           t == [s EXCEPT !.size = size]
<1>1. /\ t.used /\ ~t.incoming /\ ~t.replied
      /\ UNCHANGED <<flags, sequence, transferSequence, requestSequence, owner, offers, work, export, reads>>
  BY DEF Reply, counters
<1>2. TypesInv /\ OffersInv /\ TableInv /\ transferSequence \in Nat /\ requestSequence \in Nat
  BY DEF ExchangeInv, TypesInv
<1>3. TypesInv' /\ OffersInv'
  BY <1>1, <1>2, FrameKept
<1>4. s \in Transfer
  BY <1>2 DEF TableInv, SlotsInv
<1>5. t.used = s.used /\ t.incoming = s.incoming /\ t.replied = s.replied /\ t.alive = s.alive
  BY <1>4 DEF Transfer
<1>6. s.used /\ ~s.incoming /\ ~s.replied
  BY <1>1, <1>5
<1>7. SlotIsSound(s, transferSequence) /\ InUse({i})
  BY <1>2, <1>6, UsedFacts
<1>8. CASE fail({i})
  <2>1. WorkIsSound(work', transfers, transferSequence)
    BY <1>1, <1>2 DEF TableInv, WorkInv
  <2>2. TableInv'
    BY <1>1, <1>2, <1>7, <1>8, <2>1, Failed
  <2> QED BY <1>3, <2>2 DEF ExchangeInv
<1>9. CASE /\ transfers' = Release({i})
           /\ drag' = [drag EXCEPT !.lost = @ \/ (drag.dropPending /\ Concerns(t))]
           /\ UNCHANGED outcomes
  <2>1. (drag.dropPending /\ Concerns(t)) \in BOOLEAN
    OBVIOUS
  <2> HIDE DEF t
  <2>2. DragIsSound(drag')
    BY <1>2, <1>9, <2>1, LostIsSound DEF TableInv
  <2>3. TransfersAreWhole'
    BY <1>2, <1>9 DEF TableInv, TransfersAreWhole
  <2>4. TableInv'
    BY <1>1, <1>2, <1>6, <1>9, <2>2, <2>3, ReplyReleases
  <2> QED BY <1>3, <2>4 DEF ExchangeInv
<1>10. CASE /\ transfers' = Release({i})
            /\ drag' = selectionFinished(t, rc, Release({i}), hit)
            /\ outcomes' = outcomes \cup (IF rc THEN {"whole"} ELSE {})
  <2> HIDE DEF t
  <2>1. DragIsSound(drag')
    BY <1>2, <1>10, FinishedIsSound DEF TableInv
  <2>2. TransfersAreWhole'
    BY <1>2, <1>10 DEF TableInv, TransfersAreWhole
  <2>3. TableInv'
    BY <1>1, <1>2, <1>6, <1>10, <2>1, <2>2, ReplyReleases
  <2> QED BY <1>3, <2>3 DEF ExchangeInv
<1>11. CASE /\ size \in 2..MaxBytes
            /\ transfers' = [transfers EXCEPT ![i] = [t EXCEPT !.incremental = TRUE, !.prop = "incr", !.replied = TRUE]]
            /\ UNCHANGED <<drag, outcomes>>
  <2> DEFINE u == [t EXCEPT !.incremental = TRUE, !.prop = "incr", !.replied = TRUE]
  <2>1. size \in Nat /\ size <= MaxBytes
    BY <1>11, ConstantsAssumption
  <2>2. /\ u \in Transfer /\ u.used = s.used /\ u.ticket = s.ticket /\ u.incoming = s.incoming /\ u.list = s.list
        /\ u.serial = s.serial /\ u.size = size /\ u.offset = s.offset /\ u.prop = "incr" /\ u.replied = TRUE
        /\ u.taken = s.taken /\ u.alive = s.alive
    BY <1>4, <2>1 DEF Transfer, Properties
  <2> HIDE DEF u
  <2>3. /\ SendsInOrder(s) /\ s.ticket \in 1..transferSequence
        /\ s.offset <= s.size /\ s.size = 0 /\ ~s.incremental /\ s.prop = "none"
    BY <1>6, <1>7 DEF SlotIsSound, SendsInOrder
  <2>4. s.offset \in Nat
    BY <1>4 DEF Transfer
  <2>5. SlotIsSound(u, transferSequence)
    <3>1. SendsInOrder(u)
      BY <2>2, <2>3 DEF SendsInOrder, OnWindow
    <3>2. ~u.incoming
      BY <1>6, <2>2
    <3>3. u.ticket \in 1..transferSequence /\ u.size <= MaxBytes /\ u.offset <= u.size
      BY <2>1, <2>2, <2>3, <2>4
    <3> QED BY <3>1, <3>2, <3>3 DEF SlotIsSound
  <2>6. Workless(work', transfers, i) /\ WorkIsSound(work', transfers, transferSequence)
    BY <1>1, <1>2, <2>3, NoWork DEF TableInv, WorkInv, MayHaveWork
  <2>7. u.used /\ transfers' = [transfers EXCEPT ![i] = u]
    BY <1>6, <1>11, <2>2 DEF u
  <2>8. TableInv'
    BY <1>1, <1>2, <1>6, <1>11, <2>2, <2>5, <2>6, <2>7, SlotChanged
  <2> QED BY <1>3, <2>8 DEF ExchangeInv
<1> HIDE DEF t, s
<1>12. \/ fail({i})
       \/ /\ transfers' = Release({i})
          /\ drag' = [drag EXCEPT !.lost = @ \/ (drag.dropPending /\ Concerns(t))]
          /\ UNCHANGED outcomes
       \/ /\ transfers' = Release({i})
          /\ drag' = selectionFinished(t, rc, Release({i}), hit)
          /\ outcomes' = outcomes \cup (IF rc THEN {"whole"} ELSE {})
       \/ /\ size \in 2..MaxBytes
          /\ transfers' = [transfers EXCEPT ![i] = [t EXCEPT !.incremental = TRUE, !.prop = "incr", !.replied = TRUE]]
          /\ UNCHANGED <<drag, outcomes>>
  BY Zenon DEF Reply, t, s
<1> QED BY <1>8, <1>9, <1>10, <1>11, <1>12

LEMMA ClientDeletesStep ==
    ASSUME ExchangeInv, NEW i \in Slots, ClientDeletes(i)
    PROVE  ExchangeInv'
<1> DEFINE t == transfers[i]
           u == [t EXCEPT !.prop = "none", !.queued = TRUE, !.taken = IF t.prop = "data" THEN @ + 1 ELSE @]
<1>1. /\ t.used /\ ~t.incoming /\ t.incremental /\ t.alive /\ t.prop # "none"
      /\ transfers' = [transfers EXCEPT ![i].prop = "none", ![i].queued = TRUE,
                                        ![i].taken = IF t.prop = "data" THEN @ + 1 ELSE @]
      /\ PropertyWork(i)
      /\ UNCHANGED <<flags, sequence, transferSequence, requestSequence, owner, offers, drag, export, reads, outcomes>>
  BY DEF ClientDeletes, counters
<1>2. TypesInv /\ OffersInv /\ TableInv /\ transferSequence \in Nat /\ requestSequence \in Nat
  BY DEF ExchangeInv, TypesInv
<1>3. TypesInv' /\ OffersInv'
  BY <1>1, <1>2, FrameKept
<1>4. t \in Transfer /\ SlotIsSound(t, transferSequence)
  BY <1>1, <1>2, UsedFacts
<1>5. t.size \in Nat /\ t.offset \in Nat /\ t.taken \in Nat /\ t.taken + 1 \in Nat
  BY <1>4 DEF Transfer
<1>6. transfers' = [transfers EXCEPT ![i] = u]
  BY <1>1, <1>2 DEF TableInv, SlotsInv
<1>7. /\ u \in Transfer /\ u.used = t.used /\ u.ticket = t.ticket /\ u.incoming = t.incoming /\ u.list = t.list
      /\ u.serial = t.serial /\ u.size = t.size /\ u.offset = t.offset /\ u.prop = "none" /\ u.queued = TRUE
      /\ u.incremental = t.incremental /\ u.taken = IF t.prop = "data" THEN t.taken + 1 ELSE t.taken
      /\ u.alive = t.alive /\ u.replied = t.replied
  BY <1>4, <1>5 DEF Transfer, Properties
<1> HIDE DEF u
<1>8. SlotIsSound(u, transferSequence)
  <2>1. SendsInOrder(t) /\ t.ticket \in 1..transferSequence /\ t.size <= MaxBytes /\ t.offset <= t.size
    BY <1>1, <1>4 DEF SlotIsSound
  <2>2. SendsInOrder(u)
    BY <1>1, <1>5, <1>7, <2>1 DEF SendsInOrder, OnWindow
  <2>3. ~u.incoming
    BY <1>1, <1>7
  <2> QED BY <1>7, <2>1, <2>2, <2>3 DEF SlotIsSound
<1>9. u.used /\ MayHaveWork(u)
  BY <1>1, <1>7 DEF MayHaveWork
<1>10. Workless(work, transfers, i)
  BY <1>1, <1>2, NoWork DEF TableInv, MayHaveWork
<1>11. work' = work \/ work' = Append(work, [slot |-> i, ticket |-> u.ticket])
  BY <1>1, <1>7 DEF PropertyWork
<1>12. WorkIsSound(work, transfers, transferSequence)
  BY <1>2 DEF TableInv, WorkInv
<1>13. TableInv'
  BY <1>1, <1>2, <1>6, <1>7, <1>8, <1>9, <1>10, <1>11, <1>12, SlotChanged
<1> QED BY <1>3, <1>13 DEF ExchangeInv

LEMMA ClientDestroysStep ==
    ASSUME ExchangeInv, NEW i \in Slots, ClientDestroys(i)
    PROVE  ExchangeInv'
<1> DEFINE t == transfers[i]
           u == [t EXCEPT !.alive = FALSE, !.prop = "none", !.queued = @ \/ (t.incremental /\ t.prop # "none")]
<1>1. /\ t.used /\ ~t.incoming /\ t.alive
      /\ transfers' = [transfers EXCEPT ![i].alive = FALSE, ![i].prop = "none",
                                        ![i].queued = @ \/ (t.incremental /\ t.prop # "none")]
      /\ IF t.prop # "none" THEN PropertyWork(i) ELSE UNCHANGED work
      /\ UNCHANGED <<flags, sequence, transferSequence, requestSequence, owner, offers, drag, export, reads, outcomes>>
  BY DEF ClientDestroys, counters
<1>2. TypesInv /\ OffersInv /\ TableInv /\ transferSequence \in Nat /\ requestSequence \in Nat
  BY DEF ExchangeInv, TypesInv
<1>3. TypesInv' /\ OffersInv'
  BY <1>1, <1>2, FrameKept
<1>4. t \in Transfer /\ SlotIsSound(t, transferSequence)
  BY <1>1, <1>2, UsedFacts
<1>5. transfers' = [transfers EXCEPT ![i] = u]
  BY <1>1, <1>2 DEF TableInv, SlotsInv
<1>6. /\ u \in Transfer /\ u.used = t.used /\ u.ticket = t.ticket /\ u.incoming = t.incoming /\ u.list = t.list
      /\ u.serial = t.serial /\ u.size = t.size /\ u.offset = t.offset /\ u.prop = "none"
      /\ u.incremental = t.incremental /\ u.alive = FALSE /\ u.replied = t.replied
      /\ u.queued <=> (t.queued \/ (t.incremental /\ t.prop # "none"))
  BY <1>4 DEF Transfer, Properties
<1> HIDE DEF u
<1>7. SlotIsSound(u, transferSequence)
  <2>1. SendsInOrder(t) /\ t.ticket \in 1..transferSequence /\ t.size <= MaxBytes /\ t.offset <= t.size
    BY <1>1, <1>4 DEF SlotIsSound
  <2>2. SendsInOrder(u)
    BY <1>6, <2>1 DEF SendsInOrder
  <2>3. ~u.incoming
    BY <1>1, <1>6
  <2> QED BY <1>6, <2>1, <2>2, <2>3 DEF SlotIsSound
<1>8. u.used
  BY <1>1, <1>6
<1>9. WorkIsSound(work, transfers, transferSequence) /\ WorkInv
  BY <1>2 DEF TableInv, WorkInv
<1>10. \/ MayHaveWork(u) /\ WorkIsSound(work', transfers, transferSequence)
       \/ Workless(work', transfers, i) /\ WorkIsSound(work', transfers, transferSequence)
       \/ /\ MayHaveWork(u) /\ Workless(work, transfers, i)
          /\ work' = Append(work, [slot |-> i, ticket |-> u.ticket])
  <2>1. CASE t.incremental /\ t.prop # "none"
    <3>1. MayHaveWork(u)
      BY <1>6, <2>1 DEF MayHaveWork
    <3>2. Workless(work, transfers, i)
      BY <1>1, <1>9, <2>1, NoWork DEF MayHaveWork
    <3>3. work' = work \/ work' = Append(work, [slot |-> i, ticket |-> u.ticket])
      BY <1>1, <1>6, <2>1 DEF PropertyWork
    <3> QED BY <1>9, <3>1, <3>2, <3>3
  <2>2. CASE ~t.incremental
    <3>1. Workless(work, transfers, i)
      BY <1>9, <2>2, NoWork DEF MayHaveWork
    <3>2. work' = work
      BY <1>1, <2>2 DEF PropertyWork
    <3> QED BY <1>9, <3>1, <3>2
  <2>3. CASE t.incremental /\ t.prop = "none"
    <3>1. work' = work
      BY <1>1, <2>3
    <3>2. MayHaveWork(u) \/ ~MayHaveWork(t)
      BY <1>6, <2>3 DEF MayHaveWork
    <3> QED BY <1>9, <3>1, <3>2, NoWork
  <2> QED BY <2>1, <2>2, <2>3
<1>11. TableInv'
  BY <1>1, <1>2, <1>5, <1>6, <1>7, <1>8, <1>10, SlotChanged
<1> QED BY <1>3, <1>11 DEF ExchangeInv

-----------------------------------------------------------------------------
\* Selections.

\* selectionChanged(): the transfers of the channel fail, and the targets of the
\* new offer may be asked for.
LEMMA SelectionChanged ==
    ASSUME ExchangeInv, NEW channel \in Channels, NEW w \in Owners \cup {None}, NEW lists \in BOOLEAN,
           selectionChanged(channel, w, lists), owner' \in [Channels -> Holders]
    PROVE  ExchangeInv'
<1> DEFINE failed == {i \in Slots : transfers[i].used /\ transfers[i].channel = channel}
           wanted == lists /\ w # None /\ IF channel = 1 THEN pointerDown' ELSE clipboardActive
           t == Incoming(channel, 0, sequence + 1, TRUE)
<1>1. /\ IF EndsExport(channel, w) THEN endExport ELSE UNCHANGED <<export, pointerDown>>
      /\ reads' = Answer(failed, "failed")
      /\ drag' = FailedDrag(failed)
      /\ sequence' = sequence + 1
      /\ offers' = [offers EXCEPT ![channel] = NewOffer(channel, w)]
      /\ transfers' = IF wanted /\ ~Full(Release(failed)) THEN allocate(Release(failed), t) ELSE Release(failed)
      /\ transferSequence' = IF wanted /\ ~Full(Release(failed)) THEN transferSequence + 1 ELSE transferSequence
      /\ UNCHANGED <<enabled, clipboardActive, pointerOutput, requestSequence, work, outcomes>>
  BY Zenon DEF selectionChanged
<1>2. /\ TypesInv /\ OffersInv /\ TableInv /\ transferSequence \in Nat /\ sequence \in Nat /\ sequence + 1 \in Nat
      /\ transferSequence + 1 \in Nat
  BY DEF ExchangeInv, TypesInv
<1>3. failed \in SUBSET Slots /\ InUse(failed)
  BY DEF InUse
<1> HIDE DEF failed, wanted
<1>4. Fresh(t) /\ t.incoming /\ t.list = TRUE
  BY <1>2, FreshIncoming
<1> HIDE DEF t
<1>5. TypesInv'
  <2>1. pointerDown' \in BOOLEAN
    BY <1>1, <1>2 DEF TypesInv, endExport, PointerAfterExport
  <2> QED BY <1>1, <1>2, <2>1 DEF TypesInv
<1>6. OffersInv'
  <2>1. NewOffer(channel, w) \in [generation : Nat, owner : Holders, local : BOOLEAN]
        /\ NewOffer(channel, w).owner \in Owners \cup {None}
    BY <1>2 DEF NewOffer, Holders
  <2>2. /\ offers' \in [Channels -> [generation : Nat, owner : Holders, local : BOOLEAN]]
        /\ \A c \in Channels : ~offers'[c].local => offers'[c].owner \in Owners \cup {None}
    BY <1>1, <1>2, <2>1 DEF OffersInv
  <2>3. export' \in [source : Owners \cup {None}, dropped : BOOLEAN, completed : BOOLEAN, output : Nat]
    <3>1. NoExport \in [source : Owners \cup {None}, dropped : BOOLEAN, completed : BOOLEAN, output : Nat]
      BY DEF NoExport
    <3>2. export' = export \/ export' = NoExport
      BY <1>1 DEF endExport
    <3>3. export \in [source : Owners \cup {None}, dropped : BOOLEAN, completed : BOOLEAN, output : Nat]
      BY <1>2 DEF OffersInv
    <3> QED BY <3>1, <3>2, <3>3
  <2> QED BY <1>1, <1>2, <2>2, <2>3 DEF OffersInv
<1>7. DragIsSound(drag') /\ TransfersAreWhole'
  BY <1>1, <1>2, FailedIsSound DEF TableInv, TransfersAreWhole
<1>8. TableInv'
  <2>1. CASE wanted /\ ~Full(Release(failed))
    <3>1. /\ transfers' = allocate(Release(failed), t) /\ transferSequence' = transferSequence + 1
          /\ work' = work /\ ~Full(Release(failed)) /\ reads' = Answer(failed, "failed")
      BY <1>1, <2>1
    <3>2. ~(t.incoming /\ ~t.list)
      BY <1>4
    <3> QED BY <1>2, <1>3, <1>4, <1>7, <3>1, <3>2, SlotAllocated
  <2>2. CASE ~(wanted /\ ~Full(Release(failed)))
    <3>1. /\ transfers' = Release(failed) /\ UNCHANGED transferSequence /\ reads' = Answer(failed, "failed")
      BY <1>1, <2>2
    <3>2. WorkIsSound(work', transfers, transferSequence)
      BY <1>1, <1>2 DEF TableInv, WorkInv
    <3> QED BY <1>2, <1>3, <1>7, <3>1, <3>2, SlotsReleased
  <2> QED BY <2>1, <2>2
<1> QED BY <1>5, <1>6, <1>8 DEF ExchangeInv

\* A selection changes hands while nobody listens.
LEMMA UnnoticedStep ==
    ASSUME ExchangeInv, Unnoticed, owner' \in [Channels -> Holders]
    PROVE  ExchangeInv'
<1>1. UNCHANGED <<flags, sequence, transferSequence, requestSequence, offers, export>>
      /\ UNCHANGED <<transfers, work, outcomes, reads, drag>>
  BY DEF Unnoticed, counters
<1>2. TypesInv /\ OffersInv /\ TableInv /\ transferSequence \in Nat
  BY DEF ExchangeInv, TypesInv
<1>3. TypesInv' /\ OffersInv'
  BY <1>1, <1>2 DEF TypesInv, OffersInv, flags
<1>4. DragIsSound(drag')
  BY <1>1, <1>2 DEF TableInv
<1>5. TableInv'
  BY <1>1, <1>2, <1>4, TableKept
<1> QED BY <1>3, <1>5 DEF ExchangeInv

LEMMA SetSelectionOwnerStep ==
    ASSUME ExchangeInv, NEW channel \in Channels, NEW w \in Owners \cup {None}, SetSelectionOwner(channel, w)
    PROVE  ExchangeInv'
<1>1. owner' \in [Channels -> Holders]
  BY DEF ExchangeInv, OffersInv, SetSelectionOwner, Holders
<1> QED BY <1>1, SelectionChanged, UnnoticedStep DEF SetSelectionOwner

LEMMA OwnerGoneStep ==
    ASSUME ExchangeInv, NEW channel \in Channels, OwnerGone(channel)
    PROVE  ExchangeInv'
<1>1. owner' \in [Channels -> Holders]
  BY DEF ExchangeInv, OffersInv, OwnerGone, Holders
<1>2. owner[channel] \in Owners \cup {None}
  BY DEF OwnerGone
<1> QED BY <1>1, <1>2, SelectionChanged, UnnoticedStep DEF OwnerGone

LEMMA HostOfferStep ==
    ASSUME ExchangeInv, NEW channel \in Channels, NEW generation \in HostGenerations, HostOffer(channel, generation)
    PROVE  ExchangeInv'
<1> DEFINE o == [generation |-> generation, owner |-> Bridge, local |-> TRUE]
           b == channel = 1 /\ drag.dropPending /\ ~drag.positionPending
<1>1. /\ offers' = [offers EXCEPT ![channel] = o]
      /\ owner' = [owner EXCEPT ![channel] = Bridge]
      /\ drag' = [drag EXCEPT !.lost = @ \/ b]
      /\ UNCHANGED <<flags, sequence, transferSequence, requestSequence, transfers, work, export, reads, outcomes>>
  BY DEF HostOffer, counters
<1>2. TypesInv /\ OffersInv /\ TableInv /\ transferSequence \in Nat /\ generation \in Nat
  BY ConstantsAssumption DEF ExchangeInv, TypesInv
<1>3. o \in [generation : Nat, owner : Holders, local : BOOLEAN] /\ o.local = TRUE
  BY <1>2 DEF Holders
<1>4. b \in BOOLEAN
  OBVIOUS
<1> HIDE DEF o, b
<1>5. /\ owner' \in [Channels -> Holders]
      /\ offers' \in [Channels -> [generation : Nat, owner : Holders, local : BOOLEAN]]
      /\ \A c \in Channels : ~offers'[c].local => offers'[c].owner \in Owners \cup {None}
  BY <1>1, <1>2, <1>3 DEF OffersInv, Holders
<1>6. TypesInv' /\ OffersInv'
  BY <1>1, <1>2, <1>5 DEF TypesInv, OffersInv, flags
<1>7. DragIsSound(drag')
  BY <1>1, <1>2, <1>4, LostIsSound DEF TableInv
<1>8. TableInv'
  BY <1>1, <1>2, <1>7, TableKept
<1> QED BY <1>6, <1>8 DEF ExchangeInv

-----------------------------------------------------------------------------
\* Drags.

LEMMA EnterStep ==
    ASSUME ExchangeInv, NEW x \in BOOLEAN, NEW generation, Enter(x, generation)
    PROVE  ExchangeInv'
<1> DEFINE q == Quiet(drag)
           d == [q EXCEPT !.source = TRUE, !.revision = 0, !.positionRevision = 0]
           e == [drag EXCEPT !.source = TRUE]
<1>1. DragIsSound(drag) /\ DragIsSound(q)
  BY QuietIsSound DEF ExchangeInv, TableInv
<1>2. drag' = d \/ drag' = e
  BY Zenon DEF Enter
<1> HIDE DEF q
<1>3. drag \in Drag /\ q \in Drag
  BY <1>1 DEF DragIsSound
<1>4. /\ d \in Drag /\ d.due = q.due /\ d.drops = q.drops /\ d.finishes = q.finishes /\ d.dropPending = q.dropPending
      /\ e \in Drag /\ e.due = drag.due /\ e.drops = drag.drops /\ e.finishes = drag.finishes
      /\ e.dropPending = drag.dropPending
  BY <1>3 DEF Drag
<1> HIDE DEF d, e
<1>5. DragIsSound(drag')
  BY <1>1, <1>2, <1>4, SameCounts
<1> QED BY <1>5, OnlyDrag DEF Enter

LEMMA MoveStep ==
    ASSUME ExchangeInv, NEW hit \in Hits, Move(hit)
    PROVE  ExchangeInv'
<1>1. DragIsSound(drag) /\ drag \in Drag
  BY DEF ExchangeInv, TableInv, DragIsSound
<1>2. DragIsSound(moveDrag(drag, hit))
  BY <1>1, DragShape, SameCounts
<1> QED BY <1>2, OnlyDrag DEF Move

LEMMA LeaveStep ==
    ASSUME ExchangeInv, Leave
    PROVE  ExchangeInv'
<1>1. DragIsSound(Quiet(drag))
  BY QuietIsSound DEF ExchangeInv, TableInv
<1> QED BY <1>1, OnlyDrag DEF Leave

LEMMA DropStep ==
    ASSUME ExchangeInv, NEW hit \in Hits, Drop(hit)
    PROVE  ExchangeInv'
<1> DEFINE d == [drag EXCEPT !.drops = @ + 1]
<1>1. DragIsSound(drag) /\ drag \in Drag /\ drag.drops \in Nat /\ drag.finishes \in Nat /\ Cardinality(drag.due) \in Nat
  BY DueIsCounted DEF ExchangeInv, TableInv, DragIsSound, Drag
<1>2. drag.drops + 1 \in Nat
  BY <1>1
<1>3. d \in Drag /\ d.due = drag.due /\ d.finishes = drag.finishes /\ d.drops = drag.drops + 1
  <2>1. \A n \in Nat : [drag EXCEPT !.drops = n] \in Drag
    BY <1>1 DEF Drag
  <2>2. d \in Drag
    BY <1>2, <2>1
  <2> QED BY <1>1, <2>2 DEF Drag
<1> HIDE DEF d
<1>4. drag.finishes + Cardinality(drag.due) <= drag.drops
  BY <1>1 DEF DragIsSound, Open
<1>5. HasDrop(d)
  BY <1>1, <1>3, <1>4 DEF HasDrop, DragIsSound
<1>6. DragIsSound(dropDrag(d, transfers, hit))
  BY <1>5, DropIsSound
<1>7. drag' = dropDrag(d, transfers, hit) /\ Unmoved
  BY DEF Drop, d
<1> QED BY <1>6, <1>7, OnlyDrag

LEMMA StatusStep ==
    ASSUME ExchangeInv, NEW d \in DragTargets, NEW accepts \in BOOLEAN, NEW hit \in Hits, Status(d, accepts, hit)
    PROVE  ExchangeInv'
<1> DEFINE owed == [drag.owes EXCEPT ![d] = @ - 1]
           quiet == [drag EXCEPT !.owes[d] = @ - 1]
           heard == [drag EXCEPT !.positionPending = FALSE, !.accepted = accepts, !.moveQueued = FALSE,
                                 !.owes[d] = @ - 1]
           moved == IF drag.moveQueued THEN moveDrag(heard, hit) ELSE heard
<1>1. DragIsSound(drag) /\ drag \in Drag
  BY DEF ExchangeInv, TableInv, DragIsSound
<1>2. drag.owes \in [DragTargets -> Nat] /\ drag.owes[d] > 0
  BY <1>1 DEF Drag, Status
<1>3. owed \in [DragTargets -> Nat]
  BY <1>2
<1>4. quiet = [drag EXCEPT !.owes = owed]
      /\ heard = [drag EXCEPT !.positionPending = FALSE, !.accepted = accepts, !.moveQueued = FALSE, !.owes = owed]
  BY <1>1 DEF Drag
<1> HIDE DEF owed
<1>5. /\ quiet \in Drag /\ quiet.due = drag.due /\ quiet.drops = drag.drops /\ quiet.finishes = drag.finishes
      /\ quiet.dropPending = drag.dropPending
  BY <1>1, <1>3, <1>4 DEF Drag
<1>6. /\ heard \in Drag /\ heard.due = drag.due /\ heard.drops = drag.drops /\ heard.finishes = drag.finishes
      /\ heard.dropPending = drag.dropPending
  BY <1>1, <1>3, <1>4 DEF Drag
<1>7. /\ drag' = CASE ~(enabled /\ drag.source /\ drag.target = d) -> quiet
                   [] enabled /\ drag.source /\ drag.target = d ->
                          IF moved.dropPending THEN dropDrag(moved, transfers, hit) ELSE moved
      /\ Unmoved
  BY Zenon DEF Status
<1> HIDE DEF quiet, heard
<1>8. DragIsSound(quiet)
  BY <1>1, <1>5, SameCounts
<1>9. DragIsSound(moved)
  <2>1. DragIsSound(heard)
    BY <1>1, <1>6, SameCounts
  <2>2. DragIsSound(moveDrag(heard, hit))
    BY <1>6, <2>1, DragShape, SameCounts
  <2> QED BY <2>1, <2>2
<1> HIDE DEF moved
<1>10. DragIsSound(drag')
  <2>1. CASE ~(enabled /\ drag.source /\ drag.target = d)
    <3>1. drag' = quiet
      BY <1>7, <2>1
    <3> QED BY <1>8, <3>1
  <2>2. CASE enabled /\ drag.source /\ drag.target = d
    <3>1. drag' = IF moved.dropPending THEN dropDrag(moved, transfers, hit) ELSE moved
      BY <1>7, <2>2
    <3>2. CASE moved.dropPending
      <4>1. HasDrop(moved)
        BY <1>9, <3>2, PendingHasDrop
      <4> QED BY <3>1, <3>2, <4>1, DropIsSound
    <3>3. CASE ~moved.dropPending
      BY <1>9, <3>1, <3>3
    <3> QED BY <3>2, <3>3
  <2> QED BY <2>1, <2>2
<1> QED BY <1>7, <1>10, OnlyDrag

LEMMA FinishedStep ==
    ASSUME ExchangeInv, NEW d \in DragTargets, Finished(d)
    PROVE  ExchangeInv'
<1> DEFINE e == [drag EXCEPT !.due = @ \ {d}]
           f == [drag EXCEPT !.target = None, !.finishes = @ + 1, !.due = @ \ {d}]
<1>1. DragIsSound(drag) /\ drag \in Drag /\ drag.drops \in Nat /\ drag.finishes \in Nat /\ Cardinality(drag.due) \in Nat
  BY DueIsCounted DEF ExchangeInv, TableInv, DragIsSound, Drag
<1>2. d \in drag.due /\ (drag' = e \/ drag' = f) /\ Unmoved
  BY DEF Finished
<1>3. IsFiniteSet(drag.due \ {d}) /\ Cardinality(drag.due \ {d}) = Cardinality(drag.due) - 1
  BY <1>1, <1>2, FS_RemoveElement DEF DragIsSound
<1>4. drag.finishes + 1 \in Nat /\ drag.due \ {d} \in SUBSET DragTargets
  BY <1>1 DEF Drag
<1>5. /\ e \in Drag /\ e.due = drag.due \ {d} /\ e.drops = drag.drops /\ e.finishes = drag.finishes
      /\ e.dropPending = drag.dropPending
  BY <1>1, <1>4 DEF Drag
<1>6. /\ f \in Drag /\ f.due = drag.due \ {d} /\ f.drops = drag.drops /\ f.finishes = drag.finishes + 1
      /\ f.dropPending = drag.dropPending
  BY <1>1, <1>4 DEF Drag
<1> HIDE DEF e, f
<1>7. drag.finishes + Open(drag) <= drag.drops
  BY <1>1 DEF DragIsSound
<1>8. DragIsSound(e)
  BY <1>1, <1>3, <1>5, <1>7 DEF DragIsSound, Open
<1>9. DragIsSound(f)
  BY <1>1, <1>3, <1>6, <1>7 DEF DragIsSound, Open
<1>10. DragIsSound(drag')
  BY <1>2, <1>8, <1>9
<1> QED BY <1>2, <1>10, OnlyDrag

-----------------------------------------------------------------------------
\* Exported drags and the connection.

\* The table is not touched.
LEMMA TableAlone ==
    ASSUME TableInv, transferSequence \in Nat,
           UNCHANGED <<transferSequence, transfers, work, drag, reads, outcomes>>
    PROVE  TableInv'
<1>1. DragIsSound(drag')
  BY DEF TableInv
<1> QED BY <1>1, TableKept

LEMMA ExportStep ==
    ASSUME ExchangeInv,
           \/ \E o \in Outputs, down \in BOOLEAN : Pointer(o, down)
           \/ beginExport \/ DropOnCatcher \/ exportExpired
    PROVE  ExchangeInv'
<1>1. TypesInv /\ OffersInv /\ TableInv /\ transferSequence \in Nat
  BY DEF ExchangeInv, TypesInv
<1> DEFINE Exports == [source : Owners \cup {None}, dropped : BOOLEAN, completed : BOOLEAN, output : Nat]
<1>2. export \in Exports /\ pointerOutput \in Nat /\ pointerDown \in BOOLEAN
  BY <1>1 DEF OffersInv, TypesInv
<1>3. NoExport \in Exports /\ PointerAfterExport \in BOOLEAN
  BY DEF NoExport, PointerAfterExport
<1>4. UNCHANGED <<sequence, transferSequence, requestSequence, enabled, clipboardActive, owner, offers>>
      /\ UNCHANGED <<transfers, work, drag, reads, outcomes>>
  BY DEF Pointer, beginExport, DropOnCatcher, exportExpired, counters, flags
<1>5. export' \in Exports /\ pointerOutput' \in Nat /\ pointerDown' \in BOOLEAN
  <2>1. ASSUME NEW o \in Outputs, NEW down \in BOOLEAN, Pointer(o, down)
        PROVE  export' \in Exports /\ pointerOutput' \in Nat /\ pointerDown' \in BOOLEAN
    BY <1>2, <2>1, ConstantsAssumption DEF Pointer
  <2>2. CASE beginExport
    <3>1. offers[1].owner \in Owners \cup {None}
      BY <1>1, <2>2 DEF OffersInv, beginExport, Channels
    <3> QED BY <1>2, <2>2, <3>1 DEF beginExport, NoExport, flags
  <2>3. CASE DropOnCatcher
    BY <1>2, <1>3, <2>3 DEF DropOnCatcher, endExport
  <2>4. CASE exportExpired
    BY <1>2, <1>3, <2>4 DEF exportExpired, endExport
  <2> QED BY <2>1, <2>2, <2>3, <2>4
<1>6. TypesInv' /\ OffersInv'
  BY <1>1, <1>4, <1>5 DEF TypesInv, OffersInv
<1>7. TableInv'
  BY <1>1, <1>4, TableAlone
<1> QED BY <1>6, <1>7 DEF ExchangeInv

LEMMA HostEndsStep ==
    ASSUME ExchangeInv, HostEnds
    PROVE  ExchangeInv'
<1>1. TypesInv /\ OffersInv /\ TableInv /\ transferSequence \in Nat
  BY DEF ExchangeInv, TypesInv
<1> DEFINE Exports == [source : Owners \cup {None}, dropped : BOOLEAN, completed : BOOLEAN, output : Nat]
<1>2. export \in Exports /\ pointerOutput \in Nat /\ pointerDown \in BOOLEAN
  BY <1>1 DEF OffersInv, TypesInv
<1>3. NoExport \in Exports /\ PointerAfterExport \in BOOLEAN
  BY DEF NoExport, PointerAfterExport
<1>4. /\ UNCHANGED <<sequence, transferSequence, requestSequence, enabled, clipboardActive, owner, offers, pointerOutput>>
      /\ UNCHANGED <<transfers, work, reads, outcomes>>
      /\ drag' = Quiet(drag)
  BY DEF HostEnds, counters
<1>5. export' \in Exports /\ pointerDown' \in BOOLEAN
  <2> DEFINE e == [export EXCEPT !.completed = TRUE, !.output = 0]
  <2>1. e \in Exports
    BY <1>2
  <2>2. /\ export' = export \/ export' = NoExport \/ export' = e
        /\ pointerDown' = pointerDown \/ pointerDown' = PointerAfterExport
    BY DEF HostEnds, endExport
  <2> HIDE DEF e, Exports
  <2> QED BY <1>2, <1>3, <2>1, <2>2
<1>6. TypesInv' /\ OffersInv'
  BY <1>1, <1>4, <1>5 DEF TypesInv, OffersInv
<1>7. DragIsSound(drag')
  BY <1>1, <1>4, QuietIsSound DEF TableInv
<1>8. TableInv'
  BY <1>1, <1>4, <1>7, TableKept
<1> QED BY <1>6, <1>8 DEF ExchangeInv

LEMMA EnableStep ==
    ASSUME ExchangeInv, NEW active \in BOOLEAN, Enable(active)
    PROVE  ExchangeInv'
<1>1. TypesInv /\ OffersInv /\ TableInv /\ transferSequence \in Nat
  BY DEF ExchangeInv, TypesInv
<1>2. TypesInv' /\ OffersInv'
  BY <1>1 DEF TypesInv, OffersInv, Enable, counters
<1>3. UNCHANGED <<transferSequence, transfers, work, drag, reads, outcomes>>
  BY DEF Enable, counters
<1>4. TableInv'
  BY <1>1, <1>3, TableAlone
<1> QED BY <1>2, <1>4 DEF ExchangeInv

\* A reset releases every slot and leaves no READ without an answer.
LEMMA ResetStep ==
    ASSUME ExchangeInv, Reset
    PROVE  ExchangeInv'
<1>1. /\ export' = NoExport
      /\ enabled' = FALSE /\ clipboardActive' = FALSE /\ pointerDown' = FALSE
      /\ transfers' = Release(Slots)
      /\ owner' = [c \in Channels |-> IF owner[c] = Bridge THEN None ELSE owner[c]]
      /\ drag' = [Quiet(drag) EXCEPT !.source = FALSE, !.accepted = drag.accepted]
      /\ offers' = [c \in Channels |-> NoOffer]
      /\ reads' = [s \in DOMAIN reads |-> IF reads[s] = <<>> THEN <<"reset">> ELSE reads[s]]
      /\ UNCHANGED <<pointerOutput, sequence, transferSequence, requestSequence, work, outcomes>>
  BY DEF Reset, counters
<1>2. TypesInv /\ OffersInv /\ TableInv /\ transferSequence \in Nat
  BY DEF ExchangeInv, TypesInv
<1>3. TypesInv'
  BY <1>1, <1>2 DEF TypesInv
<1>4. OffersInv'
  <2>1. owner' \in [Channels -> Holders]
    BY <1>1, <1>2 DEF OffersInv, Holders
  <2>2. NoOffer \in [generation : Nat, owner : Holders, local : BOOLEAN] /\ NoOffer.owner = None
    BY DEF NoOffer, Holders
  <2>3. /\ offers' \in [Channels -> [generation : Nat, owner : Holders, local : BOOLEAN]]
        /\ \A c \in Channels : ~offers'[c].local => offers'[c].owner \in Owners \cup {None}
    BY <1>1, <2>2
  <2>4. export' \in [source : Owners \cup {None}, dropped : BOOLEAN, completed : BOOLEAN, output : Nat]
    BY <1>1 DEF NoExport
  <2> QED BY <1>1, <1>2, <2>1, <2>3, <2>4 DEF OffersInv
<1>5. /\ transfers' \in [Slots -> Transfer]
      /\ \A i \in Slots : transfers'[i] = Free
      /\ \A i \in Slots : SlotIsSound(transfers'[i], transferSequence)
  BY <1>1, <1>2, ReleaseFacts DEF TableInv
<1>6. SlotsInv'
  BY <1>1, <1>5 DEF SlotsInv
<1>7. WorkInv'
  <2>1. \A i \in Slots : ~transfers'[i].used /\ transfers'[i].ticket \in Nat
    BY <1>5, FreeFacts DEF Transfer
  <2>2. WorkIsSound(work, transfers, transferSequence) /\ transferSequence >= transferSequence
    BY <1>2 DEF TableInv, WorkInv
  <2>3. WorkIsSound(work, transfers', transferSequence)
    BY <1>2, <2>1, <2>2, WorkKept
  <2> QED BY <1>1, <2>3 DEF WorkInv
<1>8. ReadsInv'
  <2>1. \A i \in Slots : ~Serves(transfers'[i])
    BY <1>5, FreeFacts
  <2>2. reads \in Seq(Answers) /\ \A s \in DOMAIN reads : Len(reads[s]) <= 1
    BY <1>2 DEF TableInv, ReadsInv, ReadsAreSound
  <2> DEFINE x == <<"reset">>
  <2>3. x \in Answers /\ Len(x) <= 1
    BY DEF Answers
  <2>4. reads' = [s \in DOMAIN reads |-> IF reads[s] = <<>> THEN x ELSE reads[s]]
    BY <1>1
  <2> HIDE DEF x
  <2>5. DOMAIN reads = 1..Len(reads) /\ Len(reads) \in Nat /\ \A s \in DOMAIN reads : reads[s] \in Answers
    BY <2>2
  <2>6. reads' \in [1..Len(reads) -> Answers]
    BY <2>3, <2>4, <2>5
  <2>7. reads' \in Seq(Answers)
    BY <2>5, <2>6
  <2>8. \A s \in DOMAIN reads' : Len(reads'[s]) <= 1
    BY <2>2, <2>3, <2>4
  <2>9. ReadsAreSound(reads', transfers')
    BY <2>1, <2>7, <2>8 DEF ReadsAreSound
  <2> QED BY <2>9 DEF ReadsInv
<1>9. DragIsSound(drag')
  <2> DEFINE q == Quiet(drag)
             e == [q EXCEPT !.source = FALSE, !.accepted = drag.accepted]
  <2>1. DragIsSound(drag) /\ DragIsSound(q) /\ drag.accepted \in BOOLEAN
    BY <1>2, QuietIsSound DEF TableInv, DragIsSound, Drag
  <2>2. drag' = e
    BY <1>1
  <2> HIDE DEF q
  <2>3. q \in Drag
    BY <2>1 DEF DragIsSound
  <2>4. e \in Drag /\ e.due = q.due /\ e.drops = q.drops /\ e.finishes = q.finishes /\ e.dropPending = q.dropPending
    BY <2>1, <2>3 DEF Drag
  <2> HIDE DEF e
  <2> QED BY <2>1, <2>2, <2>4, SameCounts
<1>10. DragIsSound(drag)' /\ TransfersAreWhole'
  BY <1>1, <1>2, <1>9 DEF TableInv, TransfersAreWhole, DragIsSound, Open
<1> QED BY <1>3, <1>4, <1>6, <1>7, <1>8, <1>10 DEF ExchangeInv, TableInv

-----------------------------------------------------------------------------
\* The theorems.

LEMMA InitExchange ==
    ASSUME Init
    PROVE  ExchangeInv
<1>1. TypesInv
  BY DEF Init, TypesInv
<1>2. OffersInv
  <2>1. NoOffer \in [generation : Nat, owner : Holders, local : BOOLEAN] /\ NoOffer.owner = None
    BY DEF NoOffer, Holders
  <2>2. NoExport \in [source : Owners \cup {None}, dropped : BOOLEAN, completed : BOOLEAN, output : Nat]
    BY DEF NoExport
  <2>3. None \in Holders
    BY DEF Holders
  <2> QED BY <2>1, <2>2, <2>3 DEF Init, OffersInv
<1>3. SlotsInv
  BY FreeFacts DEF Init, SlotsInv
<1>4. WorkInv
  BY DEF Init, WorkInv, WorkIsSound
<1>5. ReadsInv
  <2>1. \A i \in Slots : ~Serves(transfers[i])
    BY FreeFacts DEF Init
  <2> QED BY <2>1 DEF Init, ReadsInv, ReadsAreSound
<1>6. DragIsSound(drag)
  <2>1. NoDrag.due = {} /\ NoDrag.dropPending = FALSE /\ NoDrag.drops = 0 /\ NoDrag.finishes = 0
    BY DEF NoDrag
  <2>2. NoDrag \in Drag
    BY DEF NoDrag, Drag
  <2>3. IsFiniteSet({}) /\ Cardinality({}) = 0
    BY FS_EmptySet
  <2>4. drag = NoDrag
    BY DEF Init
  <2> QED BY <2>1, <2>2, <2>3, <2>4 DEF DragIsSound, Open
<1>7. TransfersAreWhole
  BY DEF Init, TransfersAreWhole
<1> QED BY <1>1, <1>2, <1>3, <1>4, <1>5, <1>6, <1>7 DEF ExchangeInv, TableInv

LEMMA NextExchange ==
    ASSUME ExchangeInv, [Next]_vars
    PROVE  ExchangeInv'
<1>1. CASE UNCHANGED vars
  <2>1. UNCHANGED <<flags, sequence, transferSequence, requestSequence, owner, offers, export>>
        /\ UNCHANGED <<transferSequence, transfers, work, drag, reads, outcomes>>
    BY <1>1 DEF vars, counters
  <2>2. TypesInv /\ OffersInv /\ TableInv /\ transferSequence \in Nat /\ requestSequence \in Nat
    BY DEF ExchangeInv, TypesInv
  <2>3. TypesInv' /\ OffersInv'
    BY <2>1, <2>2, FrameKept
  <2>4. TableInv'
    BY <2>1, <2>2, TableAlone
  <2> QED BY <2>3, <2>4 DEF ExchangeInv
<1>2. CASE \E active \in BOOLEAN : Enable(active)
  BY <1>2, EnableStep
<1>3. CASE Reset
  BY <1>3, ResetStep
<1>4. CASE \E c \in Channels, w \in Owners \cup {None} : SetSelectionOwner(c, w)
  BY <1>4, SetSelectionOwnerStep
<1>5. CASE \E c \in Channels : OwnerGone(c)
  BY <1>5, OwnerGoneStep
<1>6. CASE \E c \in Channels, g \in HostGenerations : HostOffer(c, g)
  BY <1>6, HostOfferStep
<1>7. CASE \E c \in Channels, g \in 1..sequence, made \in BOOLEAN : Read(c, g, made)
  BY <1>7, ReadStep
<1>8. CASE \E i \in Slots, p \in {"none", "bad", "incr", "data", "end"} : SelectionNotify(i, p)
  BY <1>8, SelectionNotifyStep DEF Properties
<1>9. CASE \E i \in Slots, p \in {"bad", "data", "end"} : OwnerWrites(i, p)
  BY <1>9, OwnerWritesStep
<1>10. CASE \E rc \in BOOLEAN, hit \in Hits : propertyWork(rc, hit)
  BY <1>10, PropertyWorkStep
<1>11. CASE \E i \in Slots : expired(i)
  BY <1>11, ExpiredStep
<1>12. CASE \E c \in Channels, kind \in {"list", "unknown", "offered"} : convert(c, kind)
  BY <1>12, ConvertStep
<1>13. CASE \E i \in Slots, size \in -1..(MaxBytes + 1), rc \in BOOLEAN, hit \in Hits : Reply(i, size, rc, hit)
  <2>1. \A size \in -1..(MaxBytes + 1) : size \in Int
    BY ConstantsAssumption
  <2> QED BY <1>13, <2>1, ReplyStep
<1>14. CASE \E i \in Slots : ClientDeletes(i) \/ ClientDestroys(i)
  BY <1>14, ClientDeletesStep, ClientDestroysStep
<1>15. CASE \E x \in BOOLEAN, g \in 0..sequence : Enter(x, g)
  BY <1>15, EnterStep
<1>16. CASE \E hit \in Hits : Move(hit) \/ Drop(hit)
  BY <1>16, MoveStep, DropStep
<1>17. CASE Leave
  BY <1>17, LeaveStep
<1>18. CASE \E d \in DragTargets, accepts \in BOOLEAN, hit \in Hits : Status(d, accepts, hit)
  BY <1>18, StatusStep
<1>19. CASE \E d \in DragTargets : Finished(d)
  BY <1>19, FinishedStep
<1>20. CASE \/ \E o \in Outputs, down \in BOOLEAN : Pointer(o, down)
            \/ beginExport \/ DropOnCatcher \/ exportExpired
  BY <1>20, ExportStep
<1>21. CASE HostEnds
  BY <1>21, HostEndsStep
<1> QED BY <1>1, <1>2, <1>3, <1>4, <1>5, <1>6, <1>7, <1>8, <1>9, <1>10, <1>11, <1>12, <1>13, <1>14, <1>15, <1>16,
           <1>17, <1>18, <1>19, <1>20, <1>21 DEF Next

\* The invariant gives what the runs check.
LEMMA ExchangeImplies ==
    ASSUME ExchangeInv
    PROVE  TypeOK /\ AnsweredOnce /\ TransfersAreWhole
<1>1. TypesInv /\ OffersInv /\ TableInv
  BY DEF ExchangeInv
<1>2. drag \in Drag /\ drag.finishes \in Nat /\ drag.drops \in Nat /\ Cardinality(drag.due) \in Nat
      /\ drag.finishes + Open(drag) <= drag.drops
  BY <1>1, DueIsCounted DEF TableInv, DragIsSound, Drag
<1>3. AnsweredOnce
  <2>1. drag.finishes <= drag.drops
    BY <1>2 DEF Open
  <2> QED BY <1>1, <2>1 DEF AnsweredOnce, TableInv, ReadsInv, ReadsAreSound
<1>4. TypeOK
  <2>1. {enabled, clipboardActive, pointerDown} \subseteq BOOLEAN
    BY <1>1 DEF TypesInv
  <2>2. owner \in [Channels -> Owners \cup {Bridge, None}] /\ export.source \in Owners \cup {None}
    BY <1>1 DEF OffersInv, Holders
  <2>3. drag.target \in DragTargets \cup {None}
    BY <1>2 DEF Drag
  <2>4. ASSUME NEW i \in Slots, transfers[i].used
        PROVE  /\ transfers[i].ticket \in 1..transferSequence
               /\ transfers[i].size \in 0..MaxBytes /\ transfers[i].offset <= transfers[i].size
               /\ transfers[i].prop \in {"none", "incr", "data", "end", "bad"}
    <3>1. transfers[i] \in Transfer /\ SlotIsSound(transfers[i], transferSequence)
      BY <1>1, <2>4, UsedFacts
    <3>2. transfers[i].size \in Nat /\ transfers[i].prop \in Properties
      BY <3>1 DEF Transfer
    <3> QED BY <2>4, <3>1, <3>2, ConstantsAssumption DEF SlotIsSound, Properties
  <2> QED BY <2>1, <2>2, <2>3, <2>4 DEF TypeOK
<1> QED BY <1>1, <1>3, <1>4 DEF TableInv

\* What the slots, the selections and the drag can hold, in every state.
THEOREM TypesCorrect == Spec => []TypeOK
<1>1. Init => ExchangeInv
  BY InitExchange
<1>2. ExchangeInv /\ [Next]_vars => ExchangeInv'
  BY NextExchange
<1>3. ExchangeInv => TypeOK
  BY ExchangeImplies
<1> QED BY <1>1, <1>2, <1>3, PTL DEF Spec

\* No READ is answered twice, whatever fails, expires or is replaced while its data
\* is on the way, and no FINISH reaches the host without a DROP of its own (fail(),
\* receive(), rejectDrag()).
THEOREM AnswersCorrect == Spec => []AnsweredOnce
<1>1. Init => ExchangeInv
  BY InitExchange
<1>2. ExchangeInv /\ [Next]_vars => ExchangeInv'
  BY NextExchange
<1>3. ExchangeInv => AnsweredOnce
  BY ExchangeImplies
<1> QED BY <1>1, <1>2, <1>3, PTL DEF Spec

\* A transfer that succeeds carried every piece, though its work is deferred and
\* its slot and its window are used again (propertyChanged(), propertyWork()).
THEOREM TransfersCorrect == Spec => []TransfersAreWhole
<1>1. Init => ExchangeInv
  BY InitExchange
<1>2. ExchangeInv /\ [Next]_vars => ExchangeInv'
  BY NextExchange
<1>3. ExchangeInv => TransfersAreWhole
  BY ExchangeImplies
<1> QED BY <1>1, <1>2, <1>3, PTL DEF Spec
=============================================================================
