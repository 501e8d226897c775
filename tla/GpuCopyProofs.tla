--------------------------- MODULE GpuCopyProofs ---------------------------
(***************************************************************************)
(* Proofs about the queue of GPU copies, for any buffers, any capacity and *)
(* any index range that the capacity divides:                              *)
(*                                                                         *)
(*   RingCorrect        the ring holds the newest copies, across the wrap; *)
(*   CompletionCorrect  a completed serial was applied, with all before it;*)
(*   BuffersCorrect     pins match operations, copied buffers are held;    *)
(*   AccessCorrect      CPU access races only with abandoned copies.       *)
(*                                                                         *)
(* The inductive invariant CopyInv adds to them what the indices and the   *)
(* mutex mean: the copies before the unread ones are applied, an unread    *)
(* copy that is not abandoned still has its operation, a worker in its     *)
(* locked section owns the mutex, and an access without the lock is to a   *)
(* buffer without pins.                                                    *)
(***************************************************************************)
EXTENDS GpuCopy, Integers, FiniteSetTheorems, TLAPS

-----------------------------------------------------------------------------
\* Arithmetic of the indices.

\* A number is its quotient times the divisor and its remainder.
LEMMA Division ==
    ASSUME NEW C \in Nat \ {0}, NEW x \in Nat
    PROVE  /\ x = C * (x \div C) + (x % C)
           /\ x % C \in 0..(C - 1)
           /\ x \div C \in Nat
  OBVIOUS

\* Zero is the only multiple of C that is nearer to zero than C.
LEMMA SmallMultiple ==
    ASSUME NEW C \in Nat \ {0}, NEW q \in Int, NEW r \in Int, C * q = r, -C < r, r < C
    PROVE  q = 0
  <1>1. CASE q >= 1
    <2>1. C * q >= C * 1  BY <1>1
    <2> QED  BY <2>1
  <1>2. CASE q <= -1
    <2>1. C * (-q) >= C * 1  BY <1>2
    <2>2. C * (-q) = -(C * q)  OBVIOUS
    <2> QED  BY <2>1, <2>2
  <1> QED  BY <1>1, <1>2

\* Two positions less than a whole ring apart have different slots.
LEMMA SlotsDiffer ==
    ASSUME NEW C \in Nat \ {0}, NEW x \in Nat, NEW y \in Nat, x < y, y < x + C
    PROVE  x % C # y % C
  <1> SUFFICES ASSUME x % C = y % C PROVE FALSE
    OBVIOUS
  <1> DEFINE p == x \div C
             q == y \div C
  <1>1. x = C * p + (x % C) /\ p \in Nat /\ x % C \in 0..(C - 1)
    BY Division
  <1>2. y = C * q + (y % C) /\ q \in Nat
    BY Division
  <1> HIDE DEF p, q
  <1>3. C * (q - p) = C * q - C * p
    BY <1>1, <1>2
  <1>4. C * (q - p) = y - x
    BY <1>1, <1>2, <1>3
  <1>5. q - p = 0
    BY <1>1, <1>2, <1>4, SmallMultiple
  <1> QED  BY <1>1, <1>2, <1>4, <1>5

\* Taking off a multiple of the capacity leaves the slot.
LEMMA SlotSurvivesWrap ==
    ASSUME NEW C \in Nat \ {0}, NEW M \in Nat, M % C = 0, NEW x \in Nat, x >= M
    PROVE  (x - M) % C = x % C
  <1> DEFINE d == M \div C
             p == (x - M) \div C
             q == x \div C
             s == (x - M) % C
             t == x % C
  <1>1. M = C * d /\ d \in Nat
    BY Division
  <1>2. x - M \in Nat
    OBVIOUS
  <1>3. x - M = C * p + s /\ p \in Nat /\ s \in 0..(C - 1)
    BY <1>2, Division
  <1>4. x = C * q + t /\ q \in Nat /\ t \in 0..(C - 1)
    BY Division
  <1> HIDE DEF d, p, q, s, t
  <1>5. C * (q - p - d) = C * q - C * p - C * d
    BY <1>1, <1>3, <1>4
  <1>6. C * (q - p - d) = s - t
    BY <1>1, <1>3, <1>4, <1>5
  <1>7. q - p - d = 0
    BY <1>1, <1>3, <1>4, <1>6, SmallMultiple
  <1>8. s = t
    BY <1>1, <1>3, <1>4, <1>6, <1>7
  <1> QED  BY <1>8 DEF s, t

\* An index that wrapped at most once.
LEMMA Wrapped ==
    ASSUME NEW M \in Nat \ {0}, NEW x \in Nat, x < 2 * M
    PROVE  x % M = IF x < M THEN x ELSE x - M
  <1>1. CASE x < M
    <2>1. x % M = x  BY <1>1
    <2> QED  BY <1>1, <2>1
  <1>2. CASE x >= M
    <2>1. x % M = x - M  BY <1>2
    <2> QED  BY <1>2, <2>1
  <1> QED  BY <1>1, <1>2

\* The slot of a position is found before or after the wrap of the index.
LEMMA SlotOfPosition ==
    ASSUME NEW x \in Nat, x < 2 * IndexModulus
    PROVE  /\ (x % IndexModulus) % Capacity = x % Capacity
           /\ x % Capacity \in 0..(Capacity - 1)
  <1>1. /\ Capacity \in Nat \ {0} /\ IndexModulus \in Nat \ {0} /\ IndexModulus % Capacity = 0
    BY GpuCopyAssumption
  <1>2. x % IndexModulus = IF x < IndexModulus THEN x ELSE x - IndexModulus
    BY <1>1, Wrapped
  <1>3. x >= IndexModulus => (x - IndexModulus) % Capacity = x % Capacity
    BY <1>1, SlotSurvivesWrap
  <1>4. x % Capacity \in 0..(Capacity - 1)
    BY <1>1, Division
  <1> QED  BY <1>1, <1>2, <1>3, <1>4

-----------------------------------------------------------------------------
\* The inductive invariant.

Entry(k) == entries[((readIndex + k - 1) % IndexModulus) % Capacity]

CopyTypes ==
    /\ pending \in [Buffers -> Nat]
    /\ vblanks \in SUBSET Copy
    /\ scheduling \in [src : Buffers, dst : Buffers] \cup {None}
    /\ access \in Access \cup {None}
    /\ serial \in Nat
    /\ writeIndex \in 0..(IndexModulus - 1)
    /\ readIndex \in 0..(IndexModulus - 1)
    /\ entries \in [0..(Capacity - 1) -> Copy \cup {None}]
    /\ completedSerial \in Nat
    /\ completed \in Nat

\* The unread entries are the newest copies, and there is room for the one
\* that is being scheduled.
RingHolds ==
    /\ Queued <= Capacity
    /\ scheduling # None => Queued < Capacity
    /\ Queued <= serial
    /\ \A k \in 1..Queued : Entry(k) \in Copy /\ Entry(k).serial = serial - Queued + k

\* What was read was applied, and nothing else is called completed.
ReadIsApplied ==
    /\ 1..(serial - Queued) \subseteq applied
    /\ completed <= serial - Queued
    /\ completedSerial <= serial - Queued

\* Every waiting operation pins its buffers.
OperationsPin ==
    /\ IsFiniteSet(vblanks)
    /\ \A c \in vblanks : c.serial <= serial
    /\ PinsMatchOperations

\* An unread copy has its operation, unless that was given up.
UnreadAreAwaited ==
    \A k \in 1..Queued : Entry(k) \in vblanks \/ Entry(k).serial \in abandoned

LockedSteps == {"copy", "gpu", "finish", "drawing"}

\* Who is in a locked section owns the mutex; an access without it is to a
\* buffer without pins, and nothing is scheduled during an access.
LockIsOwned ==
    /\ worker \in LockedSteps => lock = "worker"
    /\ access # None => /\ scheduling = None
                        /\ access.locked => lock = "server"
                        /\ ~access.locked => pending[access.buffer] = 0

\* The copy on the GPU is the front entry, and its buffers are kept.
GpuHolds ==
    worker = "gpu" => /\ readIndex # writeIndex
                      /\ Front.src \in buffers \cup removed
                      /\ Front.dst \in buffers \cup removed

CopyInv ==
    /\ CopyTypes
    /\ RingHolds
    /\ ReadIsApplied
    /\ OperationsPin
    /\ UnreadAreAwaited
    /\ LockIsOwned
    /\ GpuHolds

-----------------------------------------------------------------------------
\* The ring.

\* The distance of the indices, without the modulus.
LEMMA QueuedValue ==
    ASSUME NEW w \in 0..(IndexModulus - 1), NEW r \in 0..(IndexModulus - 1)
    PROVE  /\ (w + IndexModulus - r) % IndexModulus = IF w >= r THEN w - r ELSE w + IndexModulus - r
           /\ (w + IndexModulus - r) % IndexModulus \in 0..(IndexModulus - 1)
  <1> DEFINE x == w + IndexModulus - r
  <1>1. IndexModulus \in Nat \ {0} /\ x \in Nat /\ x < 2 * IndexModulus
    BY GpuCopyAssumption
  <1>2. x < IndexModulus <=> w < r
    BY <1>1
  <1>3. x % IndexModulus = IF x < IndexModulus THEN x ELSE x - IndexModulus
    BY <1>1, Wrapped
  <1> QED  BY <1>1, <1>2, <1>3

\* The next index, over the wrap.
LEMMA NextIndex ==
    ASSUME NEW w \in 0..(IndexModulus - 1)
    PROVE  /\ (w + 1) % IndexModulus = IF w + 1 = IndexModulus THEN 0 ELSE w + 1
           /\ (w + 1) % IndexModulus \in 0..(IndexModulus - 1)
  <1>1. IndexModulus \in Nat \ {0} /\ IndexModulus > 1 /\ w + 1 \in Nat /\ w + 1 < 2 * IndexModulus
    BY GpuCopyAssumption
  <1> DEFINE x == w + 1
  <1> HIDE DEF x
  <1>2. x % IndexModulus = IF x < IndexModulus THEN x ELSE x - IndexModulus
    <2>1. IndexModulus \in Nat \ {0} /\ x \in Nat /\ x < 2 * IndexModulus
      BY <1>1 DEF x
    <2> QED  BY ONLY <2>1, Wrapped
  <1> QED  BY <1>1, <1>2 DEF x

\* The length of the queue, and when it is empty.
LEMMA QueuedFacts ==
    ASSUME CopyTypes
    PROVE  /\ Queued = IF writeIndex >= readIndex THEN writeIndex - readIndex
                       ELSE writeIndex + IndexModulus - readIndex
           /\ Queued \in Nat
           /\ Queued = 0 <=> readIndex = writeIndex
  <1>1. /\ Queued = IF writeIndex >= readIndex THEN writeIndex - readIndex
                    ELSE writeIndex + IndexModulus - readIndex
        /\ Queued \in Nat
    BY QueuedValue DEF CopyTypes, Queued
  <1>2. IndexModulus \in Nat /\ readIndex \in 0..(IndexModulus - 1) /\ writeIndex \in 0..(IndexModulus - 1)
    BY GpuCopyAssumption DEF CopyTypes
  <1> QED  BY <1>1, <1>2

\* A published entry goes to the slot after the unread ones, and the front
\* entry is the first of them.
LEMMA SlotFacts ==
    ASSUME CopyTypes, Queued <= Capacity
    PROVE  /\ \A k \in 1..(Queued + 1) :
                 /\ ((readIndex + k - 1) % IndexModulus) % Capacity = (readIndex + k - 1) % Capacity
                 /\ (readIndex + k - 1) % Capacity \in 0..(Capacity - 1)
           /\ writeIndex % Capacity = (readIndex + Queued) % Capacity
           /\ readIndex % Capacity = (readIndex + 1 - 1) % Capacity
  <1>1. /\ Capacity \in Nat \ {0} /\ IndexModulus \in Nat \ {0} /\ IndexModulus > Capacity
    BY GpuCopyAssumption
  <1>2. /\ readIndex \in 0..(IndexModulus - 1) /\ writeIndex \in 0..(IndexModulus - 1)
        /\ Queued \in Nat
    BY QueuedFacts DEF CopyTypes
  <1>3. ASSUME NEW k \in 1..(Queued + 1)
        PROVE  /\ ((readIndex + k - 1) % IndexModulus) % Capacity = (readIndex + k - 1) % Capacity
               /\ (readIndex + k - 1) % Capacity \in 0..(Capacity - 1)
    <2>1. readIndex + k - 1 \in Nat /\ readIndex + k - 1 < 2 * IndexModulus
      BY <1>1, <1>2
    <2> QED  BY <2>1, SlotOfPosition
  <1>4. writeIndex % Capacity = (readIndex + Queued) % Capacity
    <2>1. readIndex + Queued \in Nat /\ readIndex + Queued < 2 * IndexModulus
      BY <1>1, <1>2
    <2>2. readIndex + Queued = writeIndex \/ readIndex + Queued = writeIndex + IndexModulus
      BY <1>1, <1>2, QueuedFacts
    <2>3. (readIndex + Queued) % IndexModulus = writeIndex
      BY <1>1, <1>2, <2>1, <2>2, Wrapped
    <2> QED  BY <2>1, <2>3, SlotOfPosition
  <1>5. readIndex + 1 - 1 = readIndex
    BY <1>2
  <1> QED  BY <1>3, <1>4, <1>5

\* The front entry of a queue that is not empty is the first unread one.
LEMMA FrontFacts ==
    ASSUME CopyInv, readIndex # writeIndex
    PROVE  /\ Queued >= 1 /\ 1 \in 1..Queued
           /\ Front = Entry(1)
           /\ Front \in Copy
           /\ Front.serial = serial - Queued + 1
  <1>1. Queued \in Nat /\ Queued >= 1
    BY QueuedFacts DEF CopyInv
  <1>2. ((readIndex + 1 - 1) % IndexModulus) % Capacity = readIndex % Capacity
    BY <1>1, SlotFacts DEF CopyInv, RingHolds
  <1>3. Front = Entry(1)
    BY <1>2 DEF Front, Entry
  <1> QED  BY <1>1, <1>3 DEF CopyInv, RingHolds

\* What no action but five touches.
LEMMA RingFrame ==
    ASSUME Next
    PROVE  \/ \E src \in Presented, dst \in Buffers \ Presented : TrySchedule(src, dst)
           \/ PublishCopy \/ EndCopy \/ FinishCopies \/ LockCopies
           \/ UNCHANGED <<writeIndex, readIndex, entries, completedSerial, completed, serial,
                          scheduling, applied>>
  BY DEF Next, Worker, Recheck, lorieRedraw, Scrap, DestroyPixmap, PrepareAccess, LockFails,
    FinishAccess, Connect, Disconnect, Detach, Crash, ReceiveState, ReceiveBuffer,
    setOutputSurface, setSharedState, DecideToWait, CondWait, TakeOver, SkipCopies,
    LockCopiesFails, BeginCopy, MissBuffer, DrainedCopies, FailCopy, SkipDraw, LockDraw, EndDraw,
    FailDraw, ReleaseRemoved, serverVars, ringVars, linkVars, hostVars, importVars, rendererVars

\* The types of what PublishCopy writes.
LEMMA PublishTypes ==
    ASSUME CopyInv, PublishCopy
    PROVE  /\ entries' \in [0..(Capacity - 1) -> Copy \cup {None}]
           /\ serial' \in Nat /\ scheduling' = None
           /\ writeIndex' \in 0..(IndexModulus - 1)
  <1> DEFINE c == [serial |-> serial + 1, src |-> scheduling.src, dst |-> scheduling.dst]
  <1>1. c \in Copy
    BY DEF CopyInv, CopyTypes, PublishCopy, Copy
  <1>2. entries' = [entries EXCEPT ![writeIndex % Capacity] = c] /\ serial' = serial + 1
    BY DEF PublishCopy
  <1>3. writeIndex' \in 0..(IndexModulus - 1)
    BY NextIndex DEF PublishCopy, CopyInv, CopyTypes
  <1> HIDE DEF c
  <1>4. entries' \in [0..(Capacity - 1) -> Copy \cup {None}] /\ serial' \in Nat
    <2>1. writeIndex % Capacity \in 0..(Capacity - 1)
      <3>1. writeIndex \in Nat /\ Capacity \in Nat \ {0}
        BY GpuCopyAssumption DEF CopyInv, CopyTypes
      <3> QED  BY ONLY <3>1, Division
    <2>2. /\ entries \in [0..(Capacity - 1) -> Copy \cup {None}]
          /\ serial \in Nat
      BY DEF CopyInv, CopyTypes
    <2> QED  BY ONLY <1>1, <1>2, <2>1, <2>2
  <1>5. scheduling' = None
    BY DEF PublishCopy
  <1> QED  BY <1>3, <1>4, <1>5

\* PublishCopy appends to the unread entries and overwrites none of them.
LEMMA PublishAppends ==
    ASSUME CopyInv, PublishCopy
    PROVE  /\ Queued' = Queued + 1 /\ Queued < Capacity
           /\ \A k \in 1..Queued : Entry(k)' = Entry(k)
           /\ \A k : k = Queued + 1 =>
                 /\ Entry(k)' = [serial |-> serial + 1, src |-> scheduling.src, dst |-> scheduling.dst]
                 /\ Entry(k)' \in Copy
           /\ serial' = serial + 1 /\ readIndex' = readIndex
  <1> DEFINE c == [serial |-> serial + 1, src |-> scheduling.src, dst |-> scheduling.dst]
  <1>1. c \in Copy
    BY DEF CopyInv, CopyTypes, PublishCopy, Copy
  <1>2. /\ entries' = [entries EXCEPT ![writeIndex % Capacity] = c] /\ serial' = serial + 1
        /\ readIndex' = readIndex /\ writeIndex' = (writeIndex + 1) % IndexModulus
        /\ scheduling # None
    BY DEF PublishCopy
  <1> HIDE DEF c
  <1>3. /\ Capacity \in Nat \ {0} /\ IndexModulus \in Nat \ {0} /\ IndexModulus > Capacity
        /\ readIndex \in 0..(IndexModulus - 1) /\ writeIndex \in 0..(IndexModulus - 1)
        /\ Queued \in Nat /\ Queued < Capacity
        /\ entries \in [0..(Capacity - 1) -> Copy \cup {None}]
    BY <1>2, GpuCopyAssumption, QueuedFacts DEF CopyInv, CopyTypes, RingHolds
  <1>4. Queued' = Queued + 1
    <2>1. Queued = IF writeIndex >= readIndex THEN writeIndex - readIndex
                   ELSE writeIndex + IndexModulus - readIndex
      BY QueuedFacts DEF CopyInv
    <2>2. writeIndex' = IF writeIndex + 1 = IndexModulus THEN 0 ELSE writeIndex + 1
      BY <1>2, <1>3, NextIndex
    <2>3. writeIndex' \in 0..(IndexModulus - 1)
      BY <1>3, <2>2
    <2>4. Queued' = IF writeIndex' >= readIndex THEN writeIndex' - readIndex
                    ELSE writeIndex' + IndexModulus - readIndex
      BY <1>2, <1>3, <2>3, QueuedValue DEF Queued
    <2> QED  BY <1>3, <2>1, <2>2, <2>4
  <1> DEFINE slot(k) == (readIndex + k - 1) % Capacity
  <1>5. /\ \A k \in 1..(Queued + 1) : /\ Entry(k) = entries[slot(k)] /\ Entry(k)' = entries'[slot(k)]
                                      /\ slot(k) \in 0..(Capacity - 1)
        /\ writeIndex % Capacity = slot(Queued + 1)
    <2>1. /\ \A k \in 1..(Queued + 1) :
                 /\ ((readIndex + k - 1) % IndexModulus) % Capacity = (readIndex + k - 1) % Capacity
                 /\ (readIndex + k - 1) % Capacity \in 0..(Capacity - 1)
          /\ writeIndex % Capacity = (readIndex + Queued) % Capacity
      BY <1>3, SlotFacts DEF CopyInv
    <2>2. readIndex + (Queued + 1) - 1 = readIndex + Queued
      BY <1>3
    <2> QED  BY <1>2, <2>1, <2>2 DEF Entry
  <1>6. \A k \in 1..Queued : slot(k) # slot(Queued + 1)
    <2> SUFFICES ASSUME NEW k \in 1..Queued PROVE slot(k) # slot(Queued + 1)
      OBVIOUS
    <2> DEFINE x == readIndex + k - 1
               y == readIndex + (Queued + 1) - 1
    <2>1. x \in Nat /\ y \in Nat /\ x < y /\ y < x + Capacity
      BY <1>3
    <2> HIDE DEF x, y
    <2>2. x % Capacity # y % Capacity
      BY <1>3, <2>1, SlotsDiffer
    <2> QED  BY <2>2 DEF x, y
  <1> HIDE DEF slot
  <1>7. \A k \in 1..Queued : k \in 1..(Queued + 1)
    BY <1>3
  <1>8. Queued + 1 \in 1..(Queued + 1)
    BY <1>3
  <1>9. \A k \in 1..Queued : Entry(k)' = Entry(k)
    BY <1>2, <1>3, <1>5, <1>6, <1>7
  <1>10. ASSUME NEW k, k = Queued + 1 PROVE Entry(k)' = c
    <2>1. entries'[writeIndex % Capacity] = c
      BY <1>2, <1>3, <1>5, <1>8
    <2> QED  BY <1>5, <1>8, <1>10, <2>1
  <1> QED  BY <1>1, <1>2, <1>3, <1>4, <1>9, <1>10 DEF c

\* EndCopy takes the front entry off and leaves the others.
LEMMA EndCopyShifts ==
    ASSUME CopyInv, EndCopy
    PROVE  /\ readIndex # writeIndex
           /\ readIndex' \in 0..(IndexModulus - 1)
           /\ Queued' = Queued - 1 /\ Queued >= 1 /\ Queued \in Nat
           /\ \A k \in 1..Queued' : Entry(k)' = Entry(k + 1)
  <1>1. /\ readIndex # writeIndex
        /\ readIndex' = (readIndex + 1) % IndexModulus
        /\ writeIndex' = writeIndex /\ entries' = entries
    BY DEF EndCopy, CopyInv, GpuHolds
  <1>2. /\ Capacity \in Nat \ {0} /\ IndexModulus \in Nat \ {0} /\ IndexModulus > Capacity
        /\ readIndex \in 0..(IndexModulus - 1) /\ writeIndex \in 0..(IndexModulus - 1)
        /\ Queued \in Nat /\ Queued <= Capacity /\ Queued >= 1
    BY <1>1, GpuCopyAssumption, QueuedFacts DEF CopyInv, CopyTypes, RingHolds
  <1>3. readIndex' = IF readIndex + 1 = IndexModulus THEN 0 ELSE readIndex + 1
    BY <1>1, <1>2, NextIndex
  <1>4. readIndex' \in 0..(IndexModulus - 1)
    BY <1>2, <1>3
  <1>5. Queued' = Queued - 1
    <2>1. Queued = IF writeIndex >= readIndex THEN writeIndex - readIndex
                   ELSE writeIndex + IndexModulus - readIndex
      BY QueuedFacts DEF CopyInv
    <2>2. Queued' = IF writeIndex >= readIndex' THEN writeIndex - readIndex'
                    ELSE writeIndex + IndexModulus - readIndex'
      BY <1>1, <1>2, <1>4, QueuedValue DEF Queued
    <2> QED  BY <1>1, <1>2, <1>3, <2>1, <2>2
  <1>6. ASSUME NEW k \in 1..Queued' PROVE Entry(k)' = Entry(k + 1)
    <2> DEFINE x == readIndex + (k + 1) - 1
               y == readIndex' + k - 1
    <2>1. /\ x \in Nat /\ x < 2 * IndexModulus /\ y \in Nat /\ y < 2 * IndexModulus
          /\ y = x \/ (x >= IndexModulus /\ y = x - IndexModulus)
      BY <1>2, <1>3, <1>5
    <2> HIDE DEF x, y
    <2>2. /\ (x % IndexModulus) % Capacity = x % Capacity
          /\ (y % IndexModulus) % Capacity = y % Capacity
      BY <2>1, SlotOfPosition
    <2>3. x >= IndexModulus => (x - IndexModulus) % Capacity = x % Capacity
      BY <1>2, <2>1, GpuCopyAssumption, SlotSurvivesWrap
    <2>4. (y % IndexModulus) % Capacity = (x % IndexModulus) % Capacity
      BY <2>1, <2>2, <2>3
    <2> QED  BY <1>1, <2>4 DEF Entry, x, y
  <1> QED  BY <1>1, <1>2, <1>4, <1>5, <1>6


-----------------------------------------------------------------------------
\* The operations that wait for a copy.

\* The operations and their pins change when a copy is published and when
\* copies are acknowledged.
LEMMA VblankFrame ==
    ASSUME Next
    PROVE  \/ PublishCopy
           \/ \E S \in SUBSET vblanks :
                 /\ Free /\ lorieGpuCopyAck(S)
                 /\ UNCHANGED <<writeIndex, readIndex, entries, completedSerial, completed, serial,
                                scheduling, applied, access, lock>>
           \/ UNCHANGED <<vblanks, pending, abandoned>>
  <1>1. CASE Recheck \/ lorieRedraw
    <2>1. Settled \in SUBSET vblanks
      BY DEF Settled
    <2> HIDE DEF Settled, lorieGpuCopyAck
    <2> QED  BY <1>1, <2>1 DEF Recheck, lorieRedraw, ringVars, rendererVars
  <1>2. ASSUME NEW c \in vblanks, Scrap(c)
        PROVE  \E S \in SUBSET vblanks :
                 /\ Free /\ lorieGpuCopyAck(S)
                 /\ UNCHANGED <<writeIndex, readIndex, entries, completedSerial, completed, serial,
                                scheduling, applied, access, lock>>
    <2>1. {c} \in SUBSET vblanks
      OBVIOUS
    <2>2. Free /\ lorieGpuCopyAck({c})
      BY <1>2 DEF Scrap
    <2>3. UNCHANGED <<writeIndex, readIndex, entries, completedSerial, completed, serial,
                      scheduling, applied, access, lock>>
      BY <1>2 DEF Scrap, ringVars, rendererVars
    <2> QED  BY <2>1, <2>2, <2>3
  <1>3. \/ PublishCopy \/ Recheck \/ lorieRedraw
        \/ \E c \in vblanks : Scrap(c)
        \/ UNCHANGED <<vblanks, pending, abandoned>>
    BY DEF Next, Worker, TrySchedule, DestroyPixmap, PrepareAccess, LockFails, FinishAccess,
      Connect, Disconnect, Detach, Crash, ReceiveState, ReceiveBuffer, setOutputSurface,
      DecideToWait, CondWait, TakeOver, SkipCopies, LockCopies, LockCopiesFails, BeginCopy,
      MissBuffer, DrainedCopies, EndCopy, FailCopy, FinishCopies, SkipDraw, LockDraw, EndDraw,
      FailDraw, ReleaseRemoved, serverVars
  <1> QED  BY <1>1, <1>2, <1>3

\* An acknowledgement takes as many pins off a buffer as operations end.
LEMMA AckPins ==
    ASSUME CopyInv, NEW S \in SUBSET vblanks, lorieGpuCopyAck(S)
    PROVE  /\ pending' \in [Buffers -> Nat]
           /\ vblanks' \subseteq vblanks
           /\ IsFiniteSet(vblanks')
           /\ PinsMatchOperations'
  <1>1. /\ vblanks' = vblanks \ S
        /\ pending' = [b \in Buffers |-> pending[b] - Cardinality({c \in S : Uses(c, b)})]
    BY DEF lorieGpuCopyAck
  <1>2. IsFiniteSet(vblanks) /\ \A b \in Buffers : pending[b] = Cardinality({c \in vblanks : Uses(c, b)})
    BY DEF CopyInv, OperationsPin, PinsMatchOperations
  <1>3. IsFiniteSet(vblanks')
    BY <1>1, <1>2, FS_Difference
  <1>4. ASSUME NEW b \in Buffers
        PROVE  /\ pending'[b] = Cardinality({c \in vblanks' : Uses(c, b)})
               /\ pending'[b] \in Nat
    <2> DEFINE U == {c \in vblanks : Uses(c, b)}
               W == {c \in S : Uses(c, b)}
               V == {c \in vblanks' : Uses(c, b)}
    <2>1. U \subseteq vblanks /\ V = U \ W /\ W = U \cap W
      BY <1>1 DEF Uses
    <2>2. pending'[b] = Cardinality(U) - Cardinality(W)
      BY <1>1, <1>2
    <2> HIDE DEF U, V, W
    <2>3. IsFiniteSet(U)
      BY <1>2, <2>1, FS_Subset
    <2>4. /\ IsFiniteSet(U \ W)
          /\ Cardinality(U \ W) = Cardinality(U) - Cardinality(U \cap W)
      BY <2>3, FS_Difference
    <2>5. Cardinality(V) \in Nat
      BY <2>1, <2>4, FS_CardinalityType
    <2>6. pending'[b] = Cardinality(V)
      BY <2>1, <2>2, <2>4
    <2> QED  BY <2>5, <2>6 DEF V
  <1>5. pending' \in [Buffers -> Nat]
    <2>1. pending' = [b \in Buffers |-> pending'[b]]
      BY <1>1
    <2> QED  BY <1>4, <2>1
  <1> QED  BY <1>1, <1>3, <1>4, <1>5 DEF PinsMatchOperations

\* A published copy pins its two buffers, or none if it is given up at once.
LEMMA PublishPins ==
    ASSUME CopyInv, PublishCopy
    PROVE  /\ pending' \in [Buffers -> Nat]
           /\ vblanks' \subseteq Copy
           /\ OperationsPin'
  <1> DEFINE c == [serial |-> serial + 1, src |-> scheduling.src, dst |-> scheduling.dst]
  <1>1. c \in Copy /\ c.serial = serial + 1 /\ serial' = serial + 1
    BY DEF CopyInv, CopyTypes, PublishCopy, Copy
  <1>2. \/ /\ pending' = [b \in Buffers |-> IF Uses(c, b) THEN pending[b] + 1 ELSE pending[b]]
           /\ vblanks' = vblanks \cup {c}
        \/ UNCHANGED <<pending, vblanks>>
    BY DEF PublishCopy, Uses
  <1>3. /\ IsFiniteSet(vblanks) /\ vblanks \subseteq Copy /\ serial \in Nat
        /\ pending \in [Buffers -> Nat]
        /\ \A d \in vblanks : d.serial <= serial
        /\ \A b \in Buffers : pending[b] = Cardinality({d \in vblanks : Uses(d, b)})
    BY DEF CopyInv, CopyTypes, OperationsPin, PinsMatchOperations
  <1> HIDE DEF c
  <1>4. c \notin vblanks
    BY <1>1, <1>3
  <1>5. CASE UNCHANGED <<pending, vblanks>>
    <2>1. \A d \in vblanks' : d.serial \in Nat /\ d.serial <= serial'
      BY <1>1, <1>3, <1>5 DEF Copy
    <2> QED  BY <1>3, <1>5, <2>1 DEF OperationsPin, PinsMatchOperations
  <1>6. CASE /\ pending' = [b \in Buffers |-> IF Uses(c, b) THEN pending[b] + 1 ELSE pending[b]]
             /\ vblanks' = vblanks \cup {c}
    <2>1. IsFiniteSet(vblanks')
      BY <1>3, <1>6, FS_AddElement
    <2>2. \A d \in vblanks' : d.serial <= serial'
      <3>1. \A d \in vblanks : d.serial \in Nat
        BY <1>3 DEF Copy
      <3> QED  BY <1>1, <1>3, <1>6, <3>1
    <2>3. ASSUME NEW b \in Buffers
          PROVE  pending'[b] = Cardinality({d \in vblanks' : Uses(d, b)})
      <3> DEFINE U == {d \in vblanks : Uses(d, b)}
                 V == {d \in vblanks' : Uses(d, b)}
      <3>1. U \subseteq vblanks /\ V = IF Uses(c, b) THEN U \cup {c} ELSE U
        BY <1>6
      <3>2. pending[b] = Cardinality(U)
        BY <1>3
      <3>3. c \notin U
        BY <1>4
      <3> HIDE DEF U, V
      <3>4. IsFiniteSet(U)
        BY <1>3, <3>1, FS_Subset
      <3>5. Cardinality(U \cup {c}) = Cardinality(U) + 1
        BY <3>3, <3>4, FS_AddElement
      <3>6. pending'[b] = IF Uses(c, b) THEN pending[b] + 1 ELSE pending[b]
        BY <1>6
      <3>7. pending'[b] = Cardinality(V)
        BY <3>1, <3>2, <3>5, <3>6
      <3> QED  BY <3>7 DEF V
    <2>4. pending' \in [Buffers -> Nat]
      BY <1>3, <1>6
    <2> QED  BY <1>1, <1>3, <1>6, <2>1, <2>2, <2>3, <2>4 DEF OperationsPin, PinsMatchOperations
  <1> QED  BY <1>2, <1>5, <1>6

\* No action leaves the types.
LEMMA TypesStep ==
    ASSUME CopyInv, Next
    PROVE  CopyTypes'
  <1>1. /\ writeIndex' \in 0..(IndexModulus - 1) /\ readIndex' \in 0..(IndexModulus - 1)
        /\ entries' \in [0..(Capacity - 1) -> Copy \cup {None}]
        /\ serial' \in Nat /\ completed' \in Nat /\ completedSerial' \in Nat
        /\ scheduling' \in [src : Buffers, dst : Buffers] \cup {None}
    <2>1. CASE \E src \in Presented, dst \in Buffers \ Presented : TrySchedule(src, dst)
      BY <2>1, GpuCopyAssumption DEF TrySchedule, ringVars, rendererVars, CopyInv, CopyTypes
    <2>2. CASE PublishCopy
      BY <2>2, PublishTypes DEF PublishCopy, CopyInv, CopyTypes
    <2>3. CASE EndCopy
      <3>1. completed' \in Nat
        BY <2>3, FrontFacts, EndCopyShifts DEF EndCopy, Copy
      <3> QED  BY <2>3, <3>1, EndCopyShifts DEF EndCopy, serverVars, CopyInv, CopyTypes
    <2>4. CASE FinishCopies \/ LockCopies
      BY <2>4 DEF FinishCopies, LockCopies, serverVars, ringVars, CopyInv, CopyTypes
    <2>5. CASE UNCHANGED <<writeIndex, readIndex, entries, completedSerial, completed, serial,
                           scheduling, applied>>
      BY <2>5 DEF CopyInv, CopyTypes
    <2> QED  BY <2>1, <2>2, <2>3, <2>4, <2>5, RingFrame
  <1>2. pending' \in [Buffers -> Nat] /\ vblanks' \in SUBSET Copy
    BY VblankFrame, PublishPins, AckPins DEF CopyInv, CopyTypes
  <1>3. access' \in Access \cup {None}
    <2>1. \/ \E b \in Buffers, dest \in BOOLEAN : PrepareAccess(b, dest)
          \/ FinishAccess
          \/ access' = access
      BY DEF Next, Worker, TrySchedule, PublishCopy, Recheck, lorieRedraw, Scrap, DestroyPixmap,
        LockFails, Connect, Disconnect, Detach, Crash, ReceiveState, ReceiveBuffer,
        setOutputSurface, DecideToWait, CondWait, TakeOver, SkipCopies, LockCopies,
        LockCopiesFails, BeginCopy, MissBuffer, DrainedCopies, EndCopy, FailCopy, FinishCopies,
        SkipDraw, LockDraw, EndDraw, FailDraw, ReleaseRemoved, serverVars
    <2>2. ASSUME NEW b \in Buffers, NEW dest \in BOOLEAN, PrepareAccess(b, dest)
          PROVE  access' \in Access
      <3>1. lorieNeedsGpuLock(b, dest) \in BOOLEAN
        BY DEF lorieNeedsGpuLock
      <3> QED  BY <2>2, <3>1 DEF PrepareAccess, Access
    <2> QED  BY <2>1, <2>2 DEF FinishAccess, CopyInv, CopyTypes
  <1> QED  BY <1>1, <1>2, <1>3 DEF CopyTypes

-----------------------------------------------------------------------------
\* Each part of the invariant, step by step.

\* The unread entries stay the newest copies, and what was read is applied.
LEMMA RingStep ==
    ASSUME CopyInv, Next
    PROVE  RingHolds' /\ ReadIsApplied'
  <1>0. /\ Queued \in Nat /\ serial \in Nat /\ completed \in Nat /\ completedSerial \in Nat
        /\ Queued <= Capacity /\ Queued <= serial /\ Capacity \in Nat
        /\ \A k \in 1..Queued : Entry(k) \in Copy /\ Entry(k).serial = serial - Queued + k
        /\ 1..(serial - Queued) \subseteq applied
        /\ completed <= serial - Queued /\ completedSerial <= serial - Queued
    BY QueuedFacts, GpuCopyAssumption DEF CopyInv, CopyTypes, RingHolds, ReadIsApplied
  <1>1. CASE \E src \in Presented, dst \in Buffers \ Presented : TrySchedule(src, dst)
    <2>1. UNCHANGED <<writeIndex, readIndex, entries, completedSerial, completed, serial, applied>>
      BY <1>1 DEF TrySchedule, ringVars, rendererVars
    <2>2. Queued < Capacity
      BY <1>0, <1>1 DEF TrySchedule, QueueFull
    <2>3. Queued' = Queued /\ \A k : Entry(k)' = Entry(k)
      BY <2>1 DEF Queued, Entry
    <2> QED  BY <1>0, <2>1, <2>2, <2>3 DEF RingHolds, ReadIsApplied
  <1>2. CASE PublishCopy
    <2>1. /\ Queued' = Queued + 1 /\ Queued < Capacity
          /\ \A k \in 1..Queued : Entry(k)' = Entry(k)
          /\ serial' = serial + 1
      BY <1>2, PublishAppends
    <2>2. ASSUME NEW k, k = Queued + 1
          PROVE  Entry(k)' \in Copy /\ Entry(k).serial' = serial + 1
      BY <1>2, <2>2, PublishAppends
    <2>3. scheduling' = None /\ UNCHANGED <<completedSerial, completed, applied>>
      BY <1>2 DEF PublishCopy
    <2>4. ASSUME NEW k \in 1..Queued'
          PROVE  Entry(k)' \in Copy /\ Entry(k).serial' = serial' - Queued' + k
      <3>1. CASE k = Queued + 1
        BY <1>0, <2>1, <2>2, <3>1
      <3>2. CASE k \in 1..Queued
        BY <1>0, <2>1, <3>2
      <3> QED  BY <1>0, <2>1, <3>1, <3>2
    <2>5. serial' - Queued' = serial - Queued
      BY <1>0, <2>1
    <2> QED  BY <1>0, <2>1, <2>3, <2>4, <2>5 DEF RingHolds, ReadIsApplied
  <1>3. CASE EndCopy
    <2>1. /\ Queued' = Queued - 1 /\ Queued >= 1
          /\ \A k \in 1..Queued' : Entry(k)' = Entry(k + 1)
          /\ readIndex # writeIndex
      BY <1>3, EndCopyShifts
    <2>2. Front.serial = serial - Queued + 1
      BY <2>1, FrontFacts
    <2>3. /\ completed' = Front.serial /\ applied' = applied \cup {Front.serial}
          /\ UNCHANGED <<serial, scheduling, completedSerial>>
      BY <1>3 DEF EndCopy, serverVars
    <2>4. ASSUME NEW k \in 1..Queued'
          PROVE  Entry(k)' \in Copy /\ Entry(k).serial' = serial' - Queued' + k
      <3>1. k + 1 \in 1..Queued /\ serial - Queued + (k + 1) = serial - (Queued - 1) + k
        BY <1>0, <2>1
      <3> QED  BY <1>0, <2>1, <2>3, <3>1
    <2>5. 1..(serial' - Queued') \subseteq applied'
      BY <1>0, <2>1, <2>2, <2>3
    <2>6. /\ completed' <= serial' - Queued' /\ completedSerial' <= serial' - Queued'
          /\ Queued' < Capacity /\ Queued' <= Capacity /\ Queued' <= serial'
      BY <1>0, <2>1, <2>2, <2>3
    <2> QED  BY <1>0, <2>4, <2>5, <2>6 DEF RingHolds, ReadIsApplied
  <1>4. CASE FinishCopies \/ LockCopies
    <2>1. /\ UNCHANGED <<writeIndex, readIndex, entries, serial, scheduling, applied>>
          /\ completed' = completed \/ completed' = 0
          /\ completedSerial' = completed \/ completedSerial' = completedSerial
      BY <1>4 DEF FinishCopies, LockCopies, ringVars, serverVars
    <2>2. Queued' = Queued /\ \A k : Entry(k)' = Entry(k)
      BY <2>1 DEF Queued, Entry
    <2> QED  BY <1>0, <2>1, <2>2 DEF CopyInv, RingHolds, ReadIsApplied
  <1>5. CASE UNCHANGED <<writeIndex, readIndex, entries, completedSerial, completed, serial,
                         scheduling, applied>>
    <2>1. Queued' = Queued /\ \A k : Entry(k)' = Entry(k)
      BY <1>5 DEF Queued, Entry
    <2> QED  BY <1>5, <2>1 DEF CopyInv, RingHolds, ReadIsApplied
  <1> QED  BY <1>1, <1>2, <1>3, <1>4, <1>5, RingFrame

\* Pins and operations stay together.
LEMMA PinsStep ==
    ASSUME CopyInv, Next
    PROVE  OperationsPin'
  <1>1. CASE PublishCopy
    BY <1>1, PublishPins
  <1>2. ASSUME NEW S \in SUBSET vblanks, lorieGpuCopyAck(S), serial' = serial
        PROVE  OperationsPin'
    BY <1>2, AckPins DEF CopyInv, OperationsPin
  <1>3. CASE UNCHANGED <<vblanks, pending, abandoned>>
    <2>1. serial' \in Nat /\ serial \in Nat /\ serial' >= serial
      <3>1. CASE PublishCopy
        BY <3>1 DEF PublishCopy, CopyInv, CopyTypes
      <3>2. CASE serial' = serial
        BY <3>2 DEF CopyInv, CopyTypes
      <3> QED
        BY <3>1, <3>2, RingFrame DEF TrySchedule, EndCopy, FinishCopies, LockCopies, serverVars
    <2>2. \A c \in vblanks : c.serial \in Nat /\ c.serial <= serial'
      BY <2>1 DEF CopyInv, CopyTypes, OperationsPin, Copy
    <2> QED  BY <1>3, <2>2 DEF CopyInv, OperationsPin, PinsMatchOperations
  <1> QED  BY <1>1, <1>2, <1>3, VblankFrame

\* An unread copy keeps its operation until that is given up.
LEMMA UnreadStep ==
    ASSUME CopyInv, Next
    PROVE  UnreadAreAwaited'
  <1>0. /\ Queued \in Nat /\ serial \in Nat /\ completedSerial \in Nat
        /\ \A k \in 1..Queued : /\ Entry(k) \in Copy /\ Entry(k).serial = serial - Queued + k
                                /\ Entry(k) \in vblanks \/ Entry(k).serial \in abandoned
        /\ completedSerial <= serial - Queued
    BY QueuedFacts DEF CopyInv, CopyTypes, RingHolds, ReadIsApplied, UnreadAreAwaited
  <1>1. CASE PublishCopy
    <2> DEFINE c == [serial |-> serial + 1, src |-> scheduling.src, dst |-> scheduling.dst]
    <2>1. /\ vblanks' = vblanks \cup {c} /\ abandoned' = abandoned
          \/ /\ vblanks' = vblanks /\ abandoned' = abandoned \cup {c.serial}
      BY <1>1 DEF PublishCopy
    <2>2. \A k : k = Queued + 1 => Entry(k)' = c
      BY <1>1, PublishAppends
    <2>3. Queued' = Queued + 1 /\ \A k \in 1..Queued : Entry(k)' = Entry(k)
      BY <1>1, PublishAppends
    <2> HIDE DEF c
    <2> SUFFICES ASSUME NEW k \in 1..Queued'
                 PROVE  Entry(k)' \in vblanks' \/ Entry(k)'.serial \in abandoned'
      BY DEF UnreadAreAwaited
    <2>4. k = Queued + 1 \/ k \in 1..Queued
      BY <1>0, <2>3
    <2>5. CASE k = Queued + 1
      BY <2>1, <2>2, <2>5
    <2>6. CASE k \in 1..Queued
      BY <1>0, <2>1, <2>3, <2>6
    <2> QED  BY <2>4, <2>5, <2>6
  <1>2. CASE EndCopy
    <2>1. /\ Queued' = Queued - 1 /\ Queued >= 1
          /\ \A k \in 1..Queued' : Entry(k)' = Entry(k + 1)
      BY <1>2, EndCopyShifts
    <2>2. UNCHANGED <<vblanks, abandoned>>
      BY <1>2 DEF EndCopy, serverVars
    <2>3. \A k \in 1..Queued' : k + 1 \in 1..Queued
      BY <1>0, <2>1
    <2> QED  BY <1>0, <2>1, <2>2, <2>3 DEF UnreadAreAwaited
  <1>3. ASSUME NEW S \in SUBSET vblanks, lorieGpuCopyAck(S),
               UNCHANGED <<writeIndex, readIndex, entries>>
        PROVE  UnreadAreAwaited'
    <2>1. /\ vblanks' = vblanks \ S
          /\ abandoned' = abandoned \cup {c.serial : c \in {d \in S : d.serial > completedSerial}}
      BY <1>3 DEF lorieGpuCopyAck
    <2>2. Queued' = Queued /\ \A k : Entry(k)' = Entry(k)
      BY <1>3 DEF Queued, Entry
    <2> SUFFICES ASSUME NEW k \in 1..Queued
                 PROVE  Entry(k) \in vblanks' \/ Entry(k).serial \in abandoned'
      BY <2>2 DEF UnreadAreAwaited
    <2>3. Entry(k).serial > completedSerial
      BY <1>0
    <2>4. CASE Entry(k) \in S
      BY <2>1, <2>3, <2>4
    <2>5. CASE Entry(k) \notin S
      BY <1>0, <2>1, <2>5
    <2> QED  BY <2>4, <2>5
  <1>4. CASE UNCHANGED <<writeIndex, readIndex, entries, vblanks, abandoned>>
    <2>1. Queued' = Queued /\ \A k : Entry(k)' = Entry(k)
      BY <1>4 DEF Queued, Entry
    <2> QED  BY <1>4, <2>1 DEF CopyInv, UnreadAreAwaited
  <1>5. \/ PublishCopy \/ EndCopy \/ UNCHANGED <<writeIndex, readIndex, entries>>
    BY RingFrame DEF TrySchedule, FinishCopies, LockCopies, ringVars
  <1> QED  BY <1>1, <1>2, <1>3, <1>4, <1>5, VblankFrame

\* What the mutex and an access depend on.
LEMMA LockFrame ==
    ASSUME Next
    PROVE  \/ \E b \in Buffers, dest \in BOOLEAN : PrepareAccess(b, dest)
           \/ FinishAccess
           \/ /\ access' = access
              /\ \/ lock' = lock /\ (worker' \in LockedSteps => worker \in LockedSteps)
                 \/ lock = "free" /\ lock' = "worker"
                 \/ worker \in LockedSteps /\ lock' = "free" /\ worker' \notin LockedSteps
  BY DEF Next, Worker, TrySchedule, PublishCopy, Recheck, lorieRedraw, Scrap, DestroyPixmap,
    LockFails, Connect, Disconnect, Detach, Crash, ReceiveState, ReceiveBuffer, setOutputSurface,
    DecideToWait, CondWait, TakeOver, SkipCopies, LockCopies, LockCopiesFails, BeginCopy,
    MissBuffer, DrainedCopies, EndCopy, FailCopy, FinishCopies, SkipDraw, LockDraw, EndDraw,
    FailDraw, ReleaseRemoved, LockedSteps, Woken, setSharedState, serverVars, rendererVars

\* The mutex keeps its owner, and an access keeps what it relied on.
LEMMA LockStep ==
    ASSUME CopyInv, Next
    PROVE  LockIsOwned'
  <1>0. /\ worker \in LockedSteps => lock = "worker"
        /\ access # None => /\ scheduling = None
                            /\ access.locked => lock = "server"
                            /\ ~access.locked => pending[access.buffer] = 0
    BY DEF CopyInv, LockIsOwned
  <1>1. ASSUME NEW b \in Buffers, NEW dest \in BOOLEAN, PrepareAccess(b, dest)
        PROVE  LockIsOwned'
    <2> DEFINE locked == lorieNeedsGpuLock(b, dest)
    <2>1. /\ locked => lock = "free"
          /\ lock' = IF locked THEN "server" ELSE lock
          /\ access' = [buffer |-> b, locked |-> locked]
          /\ scheduling = None
          /\ UNCHANGED <<worker, scheduling, pending>>
      BY <1>1 DEF PrepareAccess, Free, rendererVars
    <2>2. locked \in BOOLEAN /\ (~locked => pending[b] = 0)
      BY DEF lorieNeedsGpuLock, CopyInv, CopyTypes
    <2> HIDE DEF locked
    <2> QED  BY <1>0, <2>1, <2>2 DEF LockIsOwned
  <1>2. CASE FinishAccess
    <2>1. /\ access # None /\ access' = None /\ worker' = worker
          /\ lock' = IF access.locked THEN "free" ELSE lock
      BY <1>2 DEF FinishAccess, rendererVars
    <2> QED  BY <1>0, <2>1 DEF LockIsOwned
  <1>3. CASE /\ access' = access
             /\ \/ lock' = lock /\ (worker' \in LockedSteps => worker \in LockedSteps)
                \/ lock = "free" /\ lock' = "worker"
                \/ worker \in LockedSteps /\ lock' = "free" /\ worker' \notin LockedSteps
    <2>1. worker' \in LockedSteps => lock' = "worker"
      BY <1>0, <1>3
    <2>2. ASSUME access # None PROVE scheduling' = scheduling /\ pending' = pending
      <3>1. ~Free /\ scheduling = None
        BY <1>0, <2>2 DEF Free
      <3>2. scheduling' = scheduling
        BY <3>1, RingFrame
          DEF TrySchedule, PublishCopy, EndCopy, FinishCopies, LockCopies, serverVars
      <3>3. pending' = pending
        BY <3>1, VblankFrame DEF PublishCopy
      <3> QED  BY <3>2, <3>3
    <2>3. access # None /\ access.locked => lock' = "server"
      BY <1>0, <1>3
    <2> QED  BY <1>0, <1>3, <2>1, <2>2, <2>3 DEF LockIsOwned
  <1> QED  BY <1>1, <1>2, <1>3, LockFrame

\* Only BeginCopy gives the GPU a copy; until the worker is back, nobody
\* frees a buffer.
LEMMA GpuFrame ==
    ASSUME Next, worker' = "gpu"
    PROVE  \/ BeginCopy
           \/ worker = "gpu" /\ buffers \cup removed \subseteq buffers' \cup removed'
  BY DEF Next, Worker, TrySchedule, PublishCopy, Recheck, lorieRedraw, Scrap, DestroyPixmap,
    PrepareAccess, FinishAccess, LockFails, Connect, Disconnect, Detach, Crash, ReceiveState,
    ReceiveBuffer, setOutputSurface, addBuffer, removeBuffer,
    DecideToWait, CondWait, TakeOver, SkipCopies, LockCopies, LockCopiesFails,
    MissBuffer, DrainedCopies, EndCopy, FailCopy, FinishCopies, SkipDraw, LockDraw, EndDraw,
    FailDraw, ReleaseRemoved, Woken, setSharedState, serverVars, importVars, rendererVars

\* The buffers of the copy on the GPU are kept.
LEMMA GpuStep ==
    ASSUME CopyInv, Next
    PROVE  GpuHolds'
  <1> SUFFICES ASSUME worker' = "gpu"
               PROVE  /\ readIndex' # writeIndex'
                      /\ Front'.src \in buffers' \cup removed'
                      /\ Front'.dst \in buffers' \cup removed'
    BY DEF GpuHolds
  <1>1. CASE BeginCopy
    <2>1. Front' = Front /\ readIndex' # writeIndex'
      BY <1>1 DEF BeginCopy, ringVars, Front
    <2>2. /\ Front.src \in buffers' /\ Front.dst \in buffers'
      BY <1>1 DEF BeginCopy, Imported, FindBuffers
    <2> QED  BY <2>1, <2>2
  <1>2. CASE worker = "gpu" /\ buffers \cup removed \subseteq buffers' \cup removed'
    <2>1. /\ readIndex # writeIndex
          /\ Front.src \in buffers' \cup removed'
          /\ Front.dst \in buffers' \cup removed'
      BY <1>2 DEF CopyInv, GpuHolds
    <2>2. CASE PublishCopy
      <3>1. Queued \in Nat /\ Queued >= 1 /\ Front = Entry(1) /\ 1 \in 1..Queued
        BY <2>1, FrontFacts, QueuedFacts DEF CopyInv
      <3>2. /\ Queued' = Queued + 1 /\ Entry(1)' = Entry(1)
        BY <2>2, <3>1, PublishAppends
      <3>3. readIndex' # writeIndex'
        <4>1. \A w, r \in 0..(IndexModulus - 1) :
                 r = w => (w + IndexModulus - r) % IndexModulus = 0
          BY QueuedValue, GpuCopyAssumption
        <4>2. writeIndex' \in 0..(IndexModulus - 1) /\ readIndex' \in 0..(IndexModulus - 1)
          BY TypesStep DEF CopyTypes
        <4>3. readIndex' = writeIndex' => Queued' = 0
          BY <4>1, <4>2 DEF Queued
        <4>4. Queued' # 0
          BY <3>1, <3>2
        <4> QED  BY <4>3, <4>4
      <3>4. Front' = Front
        <4>1. readIndex' = readIndex
          BY <2>2, PublishAppends
        <4>2. ((readIndex + 1 - 1) % IndexModulus) % Capacity = readIndex % Capacity
          BY <3>1, SlotFacts DEF CopyInv, RingHolds
        <4>3. entries'[readIndex % Capacity] = entries[readIndex % Capacity]
          BY <3>2, <4>1, <4>2 DEF Entry
        <4> QED  BY <4>1, <4>3 DEF Front
      <3> QED  BY <2>1, <3>3, <3>4
    <2>3. CASE UNCHANGED <<writeIndex, readIndex, entries>>
      BY <2>1, <2>3 DEF Front
    <2>4. ~EndCopy
      BY DEF EndCopy
    <2> QED  BY <2>2, <2>3, <2>4, RingFrame DEF TrySchedule, FinishCopies, LockCopies, ringVars
  <1> QED  BY <1>1, <1>2, GpuFrame

-----------------------------------------------------------------------------
\* The theorems.

\* The invariant holds at the start.
LEMMA CopyInit ==
    ASSUME Init
    PROVE  CopyInv
  <1>1. Queued = 0
    <2>1. StartIndex \in 0..(IndexModulus - 1) /\ IndexModulus \in Nat
      BY GpuCopyAssumption
    <2> QED  BY <2>1, QueuedValue DEF Init, Queued
  <1>2. CopyTypes
    BY GpuCopyAssumption DEF Init, CopyTypes
  <1>3. RingHolds /\ ReadIsApplied /\ UnreadAreAwaited
    BY <1>1, GpuCopyAssumption DEF Init, RingHolds, ReadIsApplied, UnreadAreAwaited
  <1>4. OperationsPin
    <2>1. IsFiniteSet({}) /\ Cardinality({}) = 0
      BY FS_EmptySet
    <2>2. \A b \in Buffers : {c \in vblanks : Uses(c, b)} = {}
      BY DEF Init
    <2> QED  BY <2>1, <2>2 DEF Init, OperationsPin, PinsMatchOperations
  <1>5. LockIsOwned /\ GpuHolds
    BY DEF Init, LockIsOwned, LockedSteps, GpuHolds
  <1> QED  BY <1>2, <1>3, <1>4, <1>5 DEF CopyInv

\* Every step keeps the invariant.
LEMMA CopyStep ==
    ASSUME CopyInv, [Next]_vars
    PROVE  CopyInv'
  <1>1. CASE Next
    BY <1>1, TypesStep, RingStep, PinsStep, UnreadStep, LockStep, GpuStep DEF CopyInv
  <1>2. CASE UNCHANGED vars
    <2>1. UNCHANGED <<pending, vblanks, scheduling, access, serial, abandoned, lock, writeIndex,
                      readIndex, entries, completedSerial, worker, buffers, removed, completed,
                      applied>>
      BY <1>2 DEF vars, serverVars, ringVars, rendererVars, importVars
    <2>2. Queued' = Queued /\ Front' = Front /\ \A k : Entry(k)' = Entry(k)
      BY <2>1 DEF Queued, Front, Entry
    <2> QED
      BY <2>1, <2>2 DEF CopyInv, CopyTypes, RingHolds, ReadIsApplied, OperationsPin,
        PinsMatchOperations, UnreadAreAwaited, LockIsOwned, GpuHolds
  <1> QED  BY <1>1, <1>2

\* CopyInv is an invariant of the queue of copies.
THEOREM CopyInvariant == Spec => []CopyInv
  <1>1. Init => CopyInv
    BY CopyInit
  <1>2. CopyInv /\ [Next]_vars => CopyInv'
    BY CopyStep
  <1> QED  BY <1>1, <1>2, PTL DEF Spec

\* The unread entries are the newest scheduled copies, in order, and none is
\* overwritten, whatever the capacity and wherever the indices wrap
\* (lorieTryScheduleGpuCopy, applyPendingGpuCopiesLocked).
THEOREM RingCorrect == Spec => []RingIsIntact
  <1>1. CopyInv => RingIsIntact
    <2> SUFFICES ASSUME CopyInv PROVE RingIsIntact
      OBVIOUS
    <2>1. \A k \in 1..Queued : Unread[k] = Entry(k)
      BY DEF Unread, Entry
    <2> QED  BY <2>1, NoneAssumption DEF CopyInv, RingHolds, RingIsIntact
  <1> QED  BY <1>1, CopyInvariant, PTL

\* A serial counts as completed only when the GPU has finished it and every
\* one before it, through failures, new sessions and crashes of the renderer
\* (applyPendingGpuCopies, lorieGpuCopyIsDone).
THEOREM CompletionCorrect == Spec => []CompletedMeansApplied
  <1>1. CopyInv => CompletedMeansApplied
    <2> SUFFICES ASSUME CopyInv, NEW k \in 1..completedSerial PROVE k \in applied
      BY DEF CompletedMeansApplied
    <2>1. /\ Queued \in Nat /\ serial \in Nat /\ completedSerial \in Nat
          /\ 1..(serial - Queued) \subseteq applied
          /\ completedSerial <= serial - Queued
      BY QueuedFacts DEF CopyInv, CopyTypes, ReadIsApplied
    <2> QED  BY <2>1
  <1> QED  BY <1>1, CopyInvariant, PTL

\* A buffer is pinned once for each operation that waits for a copy from or to
\* it, and the buffers of the copy on the GPU are not freed
\* (lorieTryScheduleGpuCopy, lorieGpuCopyAck, Renderer::removeBuffer).
THEOREM BuffersCorrect == Spec => []BuffersAreHeld
  <1>1. CopyInv => BuffersAreHeld
    BY DEF CopyInv, OperationsPin, GpuHolds, BuffersAreHeld, CopiedBuffersAreHeld
  <1> QED  BY <1>1, CopyInvariant, PTL

\* While the GPU executes a copy, the server accesses its buffers only if the
\* copy was acknowledged before it completed (lorieNeedsGpuLock,
\* loriePrepareAccess, applyPendingGpuCopiesLocked).
THEOREM AccessCorrect == Spec => []AccessRacesOnlyAbandonedCopies
  <1>1. CopyInv => AccessRacesOnlyAbandonedCopies
    <2> SUFFICES ASSUME CopyInv, worker = "gpu", access # None, Uses(Front, access.buffer),
                        Front.serial \notin abandoned
                 PROVE  FALSE
      BY DEF AccessRacesOnlyAbandonedCopies
    <2>1. readIndex # writeIndex /\ lock = "worker"
      BY DEF CopyInv, GpuHolds, LockIsOwned, LockedSteps
    <2>2. Front \in vblanks
      BY <2>1, FrontFacts DEF CopyInv, UnreadAreAwaited
    <2>3. access.buffer \in Buffers /\ access.locked \in BOOLEAN
      BY DEF CopyInv, CopyTypes, Access
    <2>4. pending[access.buffer] = 0
      BY <2>1, <2>3 DEF CopyInv, LockIsOwned
    <2> DEFINE U == {c \in vblanks : Uses(c, access.buffer)}
    <2>5. Front \in U /\ U \subseteq vblanks
      BY <2>2
    <2>6. Cardinality(U) = 0
      BY <2>3, <2>4 DEF CopyInv, OperationsPin, PinsMatchOperations
    <2> HIDE DEF U
    <2>7. IsFiniteSet(U)
      BY <2>5, FS_Subset DEF CopyInv, OperationsPin
    <2> QED  BY <2>5, <2>6, <2>7, FS_EmptySet
  <1> QED  BY <1>1, CopyInvariant, PTL
=============================================================================
