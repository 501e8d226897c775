--------------------------- MODULE DmaCopyProofs ---------------------------
(***************************************************************************)
(* Proofs about the storage of pixmaps and the copies by Vulkan, for any   *)
(* pixmaps, image, files, paddings and number of contexts:                 *)
(*                                                                         *)
(*   AccessCorrect     what the CPU uses is mapped, current and announced  *)
(*                     to the kernel;                                      *)
(*   CopiesCorrect     a copy delivers the pixels asked for from inside    *)
(*                     what it imported, and the CPU stays away meanwhile; *)
(*   OwnershipCorrect  every resource has one owner, whatever failed.      *)
(***************************************************************************)
EXTENDS DmaCopy, FiniteSetTheorems, TLAPS

-----------------------------------------------------------------------------
\* The inductive invariant.

\* A buffer and its mapping.  What is locked has a pointer; a pointer that was
\* not lost is into the storage of now, and a DMA-BUF is synchronised while it
\* is locked.
Sound(b) ==
    /\ b \in Buffers
    /\ b.held => b.ptr # "none"
    /\ b.type = "none" => b.ptr = "none"
    /\ b.mem => b.type = "none"
    /\ b.dma => b.type = "fd"
    /\ b.pitch = b.stride
    /\ ~b.lost => /\ b.ptr # "none" => b.held /\ b.ptr = b.type
                  /\ b.sync <=> b.held /\ b.dma
                  /\ b.access => b.held \/ b.mem

BuffersAreSound ==
    /\ pix \in [Pixmaps -> Buffers \cup {NoPixmap}]
    /\ \A p \in Pixmaps : Exists(p) => Sound(pix[p])

\* The screen's and the root window's pixmaps exist together; the screen's is
\* the server's own.
ScreenExists ==
    \/ screen = NoPixmap /\ root = NoPixmap
    \/ /\ screen \in Pixmaps /\ root \in Pixmaps /\ Exists(screen) /\ Exists(root)
       /\ ~pix[screen].imported
       /\ destinations[screen].context \in {0, dmaCopy}

\* Every import is into a context, of a pixmap that exists and keeps its type.
Imports == [state : {"untried", "refused", "imported"}, context : 0..MaxContexts,
            rows : Nat, fits : BOOLEAN]

ImportsAreSound ==
    /\ sources \in [Pixmaps -> Imports] /\ destinations \in [Pixmaps -> Imports]
    /\ \A p \in Pixmaps :
          /\ sources[p].fits
          /\ sources[p].state = "imported" <=> sources[p].context # 0
          /\ destinations[p].state = "imported" <=> destinations[p].context # 0
          /\ sources[p].state = "imported" => /\ Exists(p) /\ pix[p].type = "fd" /\ pix[p].imported
                                              /\ sources[p].rows \in 1..Height
          /\ destinations[p].state = "imported" => Exists(p) /\ pix[p].type = "hw"

\* The copy under way: its pixmaps, what is imported by now, and nobody else at work.
CopySteps == {"none", "context", "source", "destination", "map", "copy"}

CopyIsPrepared ==
    /\ copying \in [step : CopySteps, src : Pixmaps \cup {NoPixmap},
                    dst : Pixmaps \cup {NoPixmap}, wasLocked : BOOLEAN]
    /\ copying.step = "none" => copying = NoCopy
    /\ copying.step # "none" =>
          /\ copying.src \in Pixmaps /\ copying.dst \in Pixmaps /\ copying.src # copying.dst
          /\ Exists(copying.src) /\ pix[copying.src].type = "fd" /\ pix[copying.src].imported
          /\ Exists(copying.dst) /\ pix[copying.dst].type = "hw"
          /\ \A p \in Pixmaps : Exists(p) => ~pix[p].access
    /\ copying.step \in {"source", "destination", "map", "copy"} => dmaCopy # 0
    /\ copying.step \in {"destination", "map", "copy"} => sources[copying.src].state = "imported"
    /\ copying.step \in {"map", "copy"} => destinations[copying.dst].state = "imported"

Resources == BufferResources \cup ContextResources \cup SourceOwns(0) \cup DestinationOwns

StorageTypes ==
    /\ legacy \in BOOLEAN /\ dead \in BOOLEAN /\ attempted \in BOOLEAN /\ inFlight \in BOOLEAN
    /\ peer \in {"none", "fd", "hw"}
    /\ contexts \in [Contexts -> [refs : Nat, failed : BOOLEAN]]
    /\ dmaCopy \in 0..MaxContexts
    /\ dmaCopy # 0 => attempted
    /\ live \in [Resources -> Int]

DmaInv ==
    /\ StorageTypes
    /\ BuffersAreSound
    /\ ScreenExists
    /\ ImportsAreSound
    /\ CopyIsPrepared
    /\ CpuStaysAway
    /\ misplaced = {}
    /\ ResourcesAreOwned

-----------------------------------------------------------------------------
\* One buffer: what the operations of buffer.c make of it.

\* The fields that locking leaves alone.
Kept(b, c) ==
    /\ c.type = b.type /\ c.dma = b.dma /\ c.stride = b.stride /\ c.pitch = b.pitch
    /\ c.mem = b.mem /\ c.imported = b.imported /\ c.access = b.access /\ c.wasLocked = b.wasLocked

\* The outcomes of LorieBuffer_lock().
LEMMA LockFacts ==
    ASSUME NEW b \in Buffers, NEW c \in Lock(b)
    PROVE  /\ c \in Buffers /\ Kept(b, c) /\ c.lost = b.lost
           /\ \/ c.held /\ c.ptr = b.type /\ c.sync = IF b.held THEN b.sync ELSE b.dma
              \/ ~b.held /\ ~c.held /\ c.ptr = "none" /\ c.sync = b.sync
  <1>1. CASE b.held
    <2>1. c = [b EXCEPT !.ptr = b.type]
      BY <1>1 DEF Lock
    <2> QED  BY <1>1, <2>1 DEF Buffers, Kept
  <1>2. CASE ~b.held /\ c = [b EXCEPT !.held = TRUE, !.sync = b.dma, !.ptr = b.type]
    BY <1>2 DEF Buffers, Kept
  <1>3. CASE ~b.held /\ c = [b EXCEPT !.ptr = "none"]
    BY <1>3 DEF Buffers, Kept, Types
  <1>4. b.held \in BOOLEAN
    BY DEF Buffers
  <1> QED  BY <1>1, <1>2, <1>3, <1>4 DEF Lock

\* The outcomes of LorieBuffer_unlock().
LEMMA UnlockFacts ==
    ASSUME NEW b \in Buffers, NEW c \in Unlock(b)
    PROVE  /\ c \in Buffers /\ Kept(b, c) /\ c.ptr = b.ptr /\ ~c.held
           /\ \/ ~b.held /\ c.sync = b.sync /\ c.lost = b.lost
              \/ b.held /\ ~c.sync /\ c.lost = b.lost
              \/ b.held /\ c.lost
  <1>1. CASE ~b.held
    <2>1. c = b
      BY <1>1 DEF Unlock
    <2> QED  BY <1>1, <2>1 DEF Kept
  <1>2. CASE b.held /\ c = [b EXCEPT !.held = FALSE, !.sync = FALSE]
    BY <1>2 DEF Buffers, Kept
  <1>3. CASE b.held /\ c = [b EXCEPT !.held = FALSE, !.lost = TRUE]
    BY <1>3 DEF Buffers, Kept
  <1> QED  BY <1>1, <1>2, <1>3 DEF Unlock

\* A pixmap forgets its pointer.
LEMMA ForgetFacts ==
    ASSUME NEW b \in Buffers
    PROVE  LET c == [b EXCEPT !.ptr = "none"]
           IN  /\ c \in Buffers /\ Kept(b, c) /\ c.ptr = "none"
               /\ c.held = b.held /\ c.sync = b.sync /\ c.lost = b.lost
  BY DEF Buffers, Kept, Types

\* A buffer that follows another in the same pixmap: an exported or imported
\* one keeps its type.
Follows(b, c) ==
    /\ Sound(c)
    /\ c.imported = b.imported
    /\ b.type \in {"none", "fd", "hw"} => c.type = b.type

\* Locking keeps a buffer sound.
LEMMA LockIsSound ==
    ASSUME NEW b, Sound(b), b.type # "none", NEW c \in Lock(b)
    PROVE  Follows(b, c) /\ Kept(b, c)
  BY LockFacts DEF Sound, Follows, Kept, Buffers

\* Unlocking and forgetting the pointer keeps a buffer sound.
LEMMA LetGoIsSound ==
    ASSUME NEW b, Sound(b), ~b.access, NEW u \in Unlock(b)
    PROVE  LET c == [u EXCEPT !.ptr = "none"]
           IN  Follows(b, c) /\ Kept(b, c) /\ c.ptr = "none" /\ ~c.held
  <1> DEFINE c == [u EXCEPT !.ptr = "none"]
  <1>1. b \in Buffers
    BY DEF Sound
  <1>2. u \in Buffers
    BY <1>1, UnlockFacts
  <1>3. /\ c \in Buffers /\ Kept(u, c) /\ c.ptr = "none"
        /\ c.held = u.held /\ c.sync = u.sync /\ c.lost = u.lost
    BY <1>2, ForgetFacts
  <1> HIDE DEF c
  <1>4. Follows(b, c) /\ Kept(b, c) /\ c.ptr = "none" /\ ~c.held
    BY <1>1, <1>3, UnlockFacts DEF Sound, Follows, Kept, Buffers
  <1> QED  BY <1>4 DEF c

\* Unlocking and locking again keeps a buffer sound.
LEMMA RemapIsSound ==
    ASSUME NEW b, Sound(b), b.type # "none", ~b.access, NEW u \in Unlock(b), NEW c \in Lock(u)
    PROVE  Follows(b, c) /\ Kept(b, c)
  <1>1. b \in Buffers
    BY DEF Sound
  <1>2. u \in Buffers
    BY <1>1, UnlockFacts
  <1> QED  BY <1>1, <1>2, UnlockFacts, LockFacts DEF Sound, Follows, Kept, Buffers

\* A new buffer.
LEMMA NewIsSound ==
    ASSUME NEW type \in {"regular", "fd", "hw"}
    PROVE  Sound(New(type)) /\ New(type).type = type /\ ~New(type).imported
           /\ New(type).ptr = "none" /\ ~New(type).access
  BY DEF New, Empty, Sound, Buffers, Types

\* Only a regular buffer is converted, whole or not at all.
LEMMA SampleableIsSound ==
    ASSUME NEW b, Sound(b), b.type # "none", ~b.access, NEW type \in {"fd", "hw"},
           NEW c \in Sampleable(b, type)
    PROVE  /\ Follows(b, c.buffer) /\ ~c.buffer.access /\ ~c.buffer.mem
           /\ \/ c.buffer = b /\ c.gain = {} /\ c.lose = {}
              \/ b.type = "regular" /\ c.buffer.type = type
                    /\ c.gain = Owned(type) /\ c.lose = Owned("regular")
  <1>0. b \in Buffers /\ ~b.mem
    BY DEF Sound
  <1>1. CASE c = [buffer |-> b, gain |-> {}, lose |-> {}]
    BY <1>0, <1>1 DEF Follows
  <1> DEFINE t == [b EXCEPT !.type = type, !.held = FALSE,
                            !.stride = IF type = "hw" THEN "aligned" ELSE b.stride]
             d == [buffer |-> t, gain |-> Owned(type), lose |-> Owned("regular")]
  <1>2. ASSUME b.type = "regular", NEW l \in Lock(t), c = [d EXCEPT !.buffer = [l EXCEPT !.pitch = l.stride]]
        PROVE  /\ Follows(b, c.buffer) /\ ~c.buffer.access /\ ~c.buffer.mem /\ c.buffer.type = type
               /\ c.gain = Owned(type) /\ c.lose = Owned("regular")
    <2>1. /\ t \in Buffers /\ t.type = type /\ ~t.held /\ t.dma = b.dma /\ t.sync = b.sync
          /\ t.lost = b.lost /\ t.mem = b.mem /\ t.access = b.access /\ t.imported = b.imported
      BY <1>0, <1>2 DEF Buffers, Types
    <2> HIDE DEF t
    <2>2. /\ l \in Buffers /\ Kept(t, l) /\ l.lost = t.lost
          /\ \/ l.held /\ l.ptr = t.type /\ l.sync = IF t.held THEN t.sync ELSE t.dma
             \/ ~t.held /\ ~l.held /\ l.ptr = "none" /\ l.sync = t.sync
      BY <1>2, <2>1, LockFacts
    <2> DEFINE e == [l EXCEPT !.pitch = l.stride]
    <2>3. /\ e \in Buffers /\ e.pitch = e.stride /\ e.type = l.type /\ e.dma = l.dma /\ e.held = l.held
          /\ e.sync = l.sync /\ e.ptr = l.ptr /\ e.lost = l.lost /\ e.mem = l.mem
          /\ e.imported = l.imported /\ e.access = l.access
      BY <2>2 DEF Buffers
    <2>4. c.buffer = e /\ c.gain = Owned(type) /\ c.lose = Owned("regular")
      BY <1>2
    <2> HIDE DEF e
    <2>5. Sound(e)
      BY <1>0, <1>2, <2>1, <2>2, <2>3 DEF Sound, Kept
    <2> QED  BY <1>0, <1>2, <2>1, <2>2, <2>3, <2>4, <2>5 DEF Kept, Follows
  <1>3. \/ c = [buffer |-> b, gain |-> {}, lose |-> {}]
        \/ /\ b.type = "regular"
           /\ \E l \in Lock(t) : c = [d EXCEPT !.buffer = [l EXCEPT !.pitch = l.stride]]
    <2>1. PICK e \in convert(b, type) :
             c \in IF e.buffer.type = "regular" \/ b.type # "regular" THEN {e}
                   ELSE {[e EXCEPT !.buffer = [l EXCEPT !.pitch = l.stride]] : l \in Lock(e.buffer)}
      BY DEF Sampleable
    <2>2. e = [buffer |-> b, gain |-> {}, lose |-> {}] \/ (b.type = "regular" /\ e = d)
      BY <2>1 DEF convert
    <2>3. CASE e = [buffer |-> b, gain |-> {}, lose |-> {}]
      <3>1. e.buffer = b
        BY <2>3
      <3> QED  BY <2>1, <2>3, <3>1
    <2>4. CASE b.type = "regular" /\ e = d
      <3>1. e.buffer = t /\ t.type = type
        BY <1>0, <2>4 DEF Buffers
      <3> HIDE DEF t
      <3> QED  BY <2>1, <2>4, <3>1
    <2> QED  BY <2>2, <2>3, <2>4
  <1> HIDE DEF t, d
  <1> QED  BY <1>1, <1>2, <1>3

-----------------------------------------------------------------------------
\* The pixmaps: what a call of the X server does to them and to the resources.

Bit(r, S) == IF r \in S THEN 1 ELSE 0

\* What the buffer of a pixmap owns.
Storage(p) == IF Exists(p) THEN Owned(pix[p].type) ELSE {}

\* Every pixmap stays sound, and none goes away.
PixmapsFollow ==
    /\ pix' \in [Pixmaps -> Buffers \cup {NoPixmap}]
    /\ \A p \in Pixmaps : /\ Exists(p) => Exists(p)' /\ Follows(pix[p], pix'[p])
                          /\ Exists(p)' => Sound(pix'[p])

\* The resources follow the storage of one pixmap.
LiveFollows(p) ==
    /\ \A q \in Pixmaps : q # p => Storage(q)' = Storage(q)
    /\ live' \in [Resources -> Int]
    /\ \A r \in Resources : live'[r] = live[r] + Bit(r, Storage(p)') - Bit(r, Storage(p))

StorageFollows == PixmapsFollow /\ \E p \in Pixmaps : LiveFollows(p)

\* What Trade() does.
LEMMA TradeFacts ==
    ASSUME DmaInv, NEW gain, NEW lose, Trade(gain, lose)
    PROVE  /\ live' \in [Resources -> Int]
           /\ \A r \in Resources : live'[r] = live[r] + Bit(r, gain) - Bit(r, lose)
  <1>1. live \in [Resources -> Int] /\ DOMAIN live = Resources
    BY DEF DmaInv, StorageTypes
  <1>2. \A r \in Resources : live[r] + Bit(r, gain) - Bit(r, lose) \in Int
    BY <1>1 DEF Bit
  <1>3. live' = [r \in Resources |-> live[r] + Bit(r, gain) - Bit(r, lose)]
    BY <1>1 DEF Trade, Bit
  <1> QED  BY <1>2, <1>3

\* Nothing is acquired or given back.
LEMMA KeepFacts ==
    ASSUME DmaInv, UNCHANGED live
    PROVE  /\ live' \in [Resources -> Int]
           /\ \A r \in Resources : live'[r] = live[r]
  BY DEF DmaInv, StorageTypes

\* A sound buffer follows itself.
LEMMA StaysSound ==
    ASSUME NEW b, Sound(b)
    PROVE  Follows(b, b) /\ b # NoPixmap /\ b \in Buffers
  BY BuffersAssumption DEF Follows, Sound

\* A pixmap gets another buffer.
LEMMA PutFollows ==
    ASSUME DmaInv, NEW p \in Pixmaps, NEW b, Put(p, b), Sound(b), Exists(p) => Follows(pix[p], b),
           live' \in [Resources -> Int],
           \A r \in Resources : live'[r] = live[r] + Bit(r, Owned(b.type)) - Bit(r, Storage(p))
    PROVE  StorageFollows
  <1>1. pix \in [Pixmaps -> Buffers \cup {NoPixmap}] /\ \A q \in Pixmaps : Exists(q) => Sound(pix[q])
    BY DEF DmaInv, BuffersAreSound
  <1>2. b \in Buffers /\ b # NoPixmap
    BY StaysSound
  <1>3. /\ pix' \in [Pixmaps -> Buffers \cup {NoPixmap}]
        /\ \A q \in Pixmaps : pix'[q] = IF q = p THEN b ELSE pix[q]
    BY <1>1, <1>2 DEF Put
  <1>4. PixmapsFollow
    BY <1>1, <1>2, <1>3, StaysSound DEF PixmapsFollow, Exists
  <1>5. Storage(p)' = Owned(b.type) /\ \A q \in Pixmaps : q # p => Storage(q)' = Storage(q)
    BY <1>2, <1>3 DEF Storage, Exists
  <1> QED  BY <1>4, <1>5 DEF StorageFollows, LiveFollows

\* No pixmap changes.
LEMMA StayFollows ==
    ASSUME DmaInv, UNCHANGED pix, UNCHANGED live \/ (\E g : Trade(g, g)), NEW p \in Pixmaps
    PROVE  StorageFollows
  <1>1. pix \in [Pixmaps -> Buffers \cup {NoPixmap}] /\ \A q \in Pixmaps : Exists(q) => Sound(pix[q])
    BY DEF DmaInv, BuffersAreSound
  <1>2. PixmapsFollow
    BY <1>1, StaysSound DEF PixmapsFollow, Exists
  <1>3. \A q \in Pixmaps : Storage(q)' = Storage(q)
    BY DEF Storage, Exists
  <1>4. live \in [Resources -> Int]
    BY DEF DmaInv, StorageTypes
  <1>5. live' \in [Resources -> Int] /\ \A r \in Resources : live'[r] = live[r]
    <2>1. ASSUME NEW g, Trade(g, g)
          PROVE  live' \in [Resources -> Int] /\ \A r \in Resources : live'[r] = live[r]
      BY <1>4, <2>1, TradeFacts DEF Bit
    <2> QED  BY <2>1, KeepFacts
  <1>6. \A r \in Resources : live'[r] = live[r] + Bit(r, Storage(p)') - Bit(r, Storage(p))
    BY <1>3, <1>4, <1>5 DEF Bit
  <1> QED  BY <1>2, <1>3, <1>5, <1>6 DEF StorageFollows, LiveFollows

\* A pixmap whose buffer keeps its type trades nothing.
LEMMA SameTypeFollows ==
    ASSUME DmaInv, NEW p \in Pixmaps, Exists(p), NEW b, Put(p, b), Follows(pix[p], b),
           b.type = pix[p].type, UNCHANGED live \/ Trade({}, {})
    PROVE  StorageFollows
  <1>1. live \in [Resources -> Int]
    BY DEF DmaInv, StorageTypes
  <1>2. live' \in [Resources -> Int] /\ \A r \in Resources : live'[r] = live[r]
    <2>1. CASE Trade({}, {})
      BY <1>1, <2>1, TradeFacts DEF Bit
    <2> QED  BY <2>1, KeepFacts
  <1>3. Storage(p) = Owned(b.type)
    BY DEF Storage
  <1>4. \A r \in Resources : live'[r] = live[r] + Bit(r, Owned(b.type)) - Bit(r, Storage(p))
    BY <1>1, <1>2, <1>3 DEF Bit
  <1> QED  BY <1>2, <1>4, PutFollows DEF Follows

\* An existing pixmap of a quiet server.
LEMMA QuietFacts ==
    ASSUME DmaInv, NEW p \in Pixmaps, Exists(p)
    PROVE  /\ Sound(pix[p]) /\ pix[p] \in Buffers
           /\ Quiet => ~pix[p].access
  BY DEF DmaInv, BuffersAreSound, Sound, Quiet

\* An allocation that fails leaves nothing held, wherever it fails.
LEMMA AllocateFacts ==
    ASSUME NEW type \in {"regular", "fd", "hw"}, NEW handed,
           type = "regular" \/ handed \in {{}, {type}}, NEW a \in allocate(type, handed)
    PROVE  a.left = IF a.ok THEN Owned(type) ELSE {}
  <1>1. CASE a = [ok |-> TRUE, left |-> Owned(type)]
    BY <1>1
  <1>2. ASSUME NEW holds \in FailurePoints(type, handed), a = [ok |-> FALSE, left |-> holds \ Undo(type, holds)]
        PROVE  a.ok = FALSE /\ a.left = {}
    <2>1. holds \ Undo(type, holds) = {}
      <3>1. holds \in {{}, {"heap"}, {"fd"}, {"hw"}, {"fd", "map"}} /\ (holds = {"heap"} => type = "regular")
        BY <1>2 DEF FailurePoints
      <3> QED  BY <3>1 DEF Undo
    <2> QED  BY <1>2, <2>1
  <1> QED  BY <1>1, <1>2 DEF allocate

\* The same of LorieBuffer_allocate(), which makes what it hands over.
LEMMA LorieAllocateFacts ==
    ASSUME NEW type \in {"regular", "fd", "hw"}, NEW a \in LorieBuffer_allocate(type)
    PROVE  a.left = IF a.ok THEN Owned(type) ELSE {}
  <1>1. a = Failed \/ \E handed : /\ type = "regular" \/ handed \in {{}, {type}}
                                  /\ a \in allocate(type, handed)
    <2>1. CASE type = "regular"
      BY <2>1 DEF LorieBuffer_allocate
    <2>2. CASE type = "fd"
      <3>1. PICK region \in createRegion : a \in IF region = {} THEN {Failed} ELSE allocate(type, region)
        BY <2>2 DEF LorieBuffer_allocate
      <3> QED  BY <2>2, <3>1 DEF createRegion
    <2>3. CASE type = "hw"
      BY <2>3 DEF LorieBuffer_allocate
    <2> QED  BY <2>1, <2>2, <2>3
  <1>2. Failed.ok = FALSE /\ Failed.left = {}
    BY DEF Failed
  <1> QED  BY <1>1, <1>2, AllocateFacts

-----------------------------------------------------------------------------
\* The calls of the X server, one by one.

\* lorieCreatePixmap(), lorieCreateScreenResources() and the imports: a buffer
\* that was allocated is the new pixmap's.
LEMMA CreateFollows ==
    ASSUME DmaInv, NEW p \in Pixmaps, ~Exists(p), NEW type \in {"none", "regular", "fd", "hw"},
           NEW b, Put(p, b), Sound(b), b.type = type, Trade(Owned(type), {})
    PROVE  StorageFollows
  <1>1. live \in [Resources -> Int]
    BY DEF DmaInv, StorageTypes
  <1>2. Storage(p) = {}
    BY DEF Storage
  <1> QED  BY <1>1, <1>2, TradeFacts, PutFollows DEF Bit

\* A new pixmap owns its buffer and nothing else.
LEMMA CreatePixmap ==
    ASSUME DmaInv, NEW p \in Pixmaps, NEW type \in {"regular", SharedType}, lorieCreatePixmap(p, type)
    PROVE  StorageFollows
  <1>1. type \in {"regular", "fd", "hw"}
    BY DEF SharedType
  <1>2. ~Exists(p)
    BY DEF lorieCreatePixmap
  <1>3. CASE Put(p, Empty) /\ UNCHANGED live
    <2>1. Sound(Empty) /\ Empty.type = "none"
      BY DEF Sound, Empty, Buffers, Types
    <2>2. live \in [Resources -> Int] /\ live' = live
      BY <1>3 DEF DmaInv, StorageTypes
    <2>3. Storage(p) = {} /\ Owned("none") = {}
      BY <1>2 DEF Storage, Owned
    <2>4. \A r \in Resources : live'[r] = live[r] + Bit(r, Owned(Empty.type)) - Bit(r, Storage(p))
      BY <2>1, <2>2, <2>3 DEF Bit
    <2> QED  BY <1>2, <1>3, <2>1, <2>2, <2>4, PutFollows
  <1>4. ASSUME NEW a \in LorieBuffer_allocate(type), Trade(a.left, {}),
               IF a.ok THEN \E b \in Lock(New(type)) : Put(p, b) ELSE UNCHANGED pix
        PROVE  StorageFollows
    <2>1. a.left = IF a.ok THEN Owned(type) ELSE {}
      BY <1>1, <1>4, LorieAllocateFacts
    <2>2. CASE a.ok
      <3>1. PICK b \in Lock(New(type)) : Put(p, b)
        BY <1>4, <2>2
      <3>2. Sound(b) /\ b.type = type
        BY <1>1, NewIsSound, LockIsSound DEF Follows, Kept
      <3> QED  BY <1>1, <1>2, <1>4, <2>1, <2>2, <3>1, <3>2, CreateFollows
    <2>3. CASE ~a.ok
      BY <1>4, <2>1, <2>3, StayFollows
    <2> QED  BY <2>2, <2>3
  <1> QED  BY <1>3, <1>4 DEF lorieCreatePixmap

\* A header without storage gets plain memory.
LEMMA ModifyHeader ==
    ASSUME DmaInv, NEW p \in Pixmaps, lorieModifyPixmapHeader(p)
    PROVE  StorageFollows
  <1> DEFINE b == [pix[p] EXCEPT !.mem = TRUE]
  <1>1. Exists(p) /\ pix[p].type = "none" /\ Put(p, b) /\ UNCHANGED live
    BY DEF lorieModifyPixmapHeader
  <1>2. Sound(pix[p]) /\ pix[p] \in Buffers
    BY <1>1, QuietFacts
  <1>3. Follows(pix[p], b) /\ b.type = pix[p].type
    BY <1>1, <1>2 DEF Follows, Sound, Buffers
  <1> HIDE DEF b
  <1> QED  BY <1>1, <1>3, SameTypeFollows

\* CPU access locks the buffer of the pixmap, or maps none.
LEMMA PrepareAccess ==
    ASSUME DmaInv, NEW p \in Pixmaps, loriePrepareAccess(p)
    PROVE  StorageFollows
  <1>1. Quiet /\ Exists(p) /\ UNCHANGED live
    BY DEF loriePrepareAccess
  <1>2. Sound(pix[p]) /\ pix[p] \in Buffers /\ ~pix[p].access
    BY <1>1, QuietFacts
  <1> DEFINE b == pix[p]
  <1>3. ASSUME b.ptr = "none", ~b.mem, b.type # "none", NEW c \in Lock(b),
               Put(p, IF b.held \/ ~c.held THEN c ELSE [c EXCEPT !.access = TRUE, !.wasLocked = FALSE])
        PROVE  StorageFollows
    <2>1. Follows(b, c) /\ Kept(b, c) /\ c \in Buffers
      BY <1>2, <1>3, LockIsSound DEF Follows, Sound
    <2>2. CASE b.held \/ ~c.held
      <3>1. Put(p, c)
        BY <1>3, <2>2
      <3> QED  BY <1>1, <2>1, <3>1, SameTypeFollows DEF Kept
    <2>3. CASE ~(b.held \/ ~c.held)
      <3> DEFINE e == [c EXCEPT !.access = TRUE, !.wasLocked = FALSE]
      <3>1. Put(p, e)
        BY <1>3, <2>3
      <3>2. Follows(b, e) /\ e.type = b.type
        BY <2>1, <2>3 DEF Follows, Sound, Buffers, Kept
      <3> HIDE DEF e
      <3> QED  BY <1>1, <3>1, <3>2, SameTypeFollows
    <2> QED  BY <2>2, <2>3
  <1>4. ASSUME ~(b.ptr = "none" /\ ~b.mem), Put(p, [b EXCEPT !.access = TRUE, !.wasLocked = TRUE])
        PROVE  StorageFollows
    <2> DEFINE e == [b EXCEPT !.access = TRUE, !.wasLocked = TRUE]
    <2>1. Follows(b, e) /\ e.type = b.type
      BY <1>2, <1>4 DEF Follows, Sound, Buffers
    <2>2. Put(p, e)
      BY <1>4
    <2> HIDE DEF e
    <2> QED  BY <1>1, <2>1, <2>2, SameTypeFollows
  <1> QED  BY <1>3, <1>4 DEF loriePrepareAccess

\* The end of CPU access gives the lock back.
LEMMA FinishAccess ==
    ASSUME DmaInv, NEW p \in Pixmaps, lorieFinishAccess(p)
    PROVE  StorageFollows
  <1>1. Exists(p) /\ UNCHANGED live
    BY DEF lorieFinishAccess
  <1>2. Sound(pix[p]) /\ pix[p] \in Buffers
    BY <1>1, QuietFacts
  <1>3. ASSUME Put(p, [pix[p] EXCEPT !.access = FALSE, !.wasLocked = FALSE]) PROVE StorageFollows
    <2> DEFINE e == [pix[p] EXCEPT !.access = FALSE, !.wasLocked = FALSE]
    <2>1. Follows(pix[p], e) /\ e.type = pix[p].type
      BY <1>2 DEF Follows, Sound, Buffers
    <2>2. Put(p, e)
      BY <1>3
    <2> HIDE DEF e
    <2> QED  BY <1>1, <2>1, <2>2, SameTypeFollows
  <1>4. ASSUME NEW b \in Unlock(pix[p]), Put(p, [b EXCEPT !.ptr = "none", !.access = FALSE])
        PROVE  StorageFollows
    <2> DEFINE e == [b EXCEPT !.ptr = "none", !.access = FALSE]
    <2>1. /\ b \in Buffers /\ Kept(pix[p], b) /\ b.ptr = pix[p].ptr /\ ~b.held
          /\ \/ ~pix[p].held /\ b.sync = pix[p].sync /\ b.lost = pix[p].lost
             \/ pix[p].held /\ ~b.sync /\ b.lost = pix[p].lost
             \/ pix[p].held /\ b.lost
      BY <1>2, UnlockFacts
    <2>2. /\ e \in Buffers /\ e.type = b.type /\ e.dma = b.dma /\ e.stride = b.stride /\ e.pitch = b.pitch
          /\ e.held = b.held /\ e.sync = b.sync /\ e.ptr = "none" /\ e.lost = b.lost /\ e.mem = b.mem
          /\ e.imported = b.imported /\ ~e.access
      BY <2>1 DEF Buffers, Types
    <2>3. Put(p, e)
      BY <1>4
    <2> HIDE DEF e
    <2>4. Follows(pix[p], e) /\ e.type = pix[p].type
      BY <1>2, <2>1, <2>2 DEF Follows, Sound, Kept, Buffers
    <2> QED  BY <1>1, <2>3, <2>4, SameTypeFollows
  <1> QED  BY <1>3, <1>4 DEF lorieFinishAccess

\* A conversion trades the regular storage for the shared one.
LEMMA ConvertFollows ==
    ASSUME DmaInv, NEW p \in Pixmaps, Exists(p), pix[p].type = "regular", NEW type \in {"fd", "hw"},
           NEW b, Put(p, b), Follows(pix[p], b), b.type = type, Trade(Owned(type), Owned("regular"))
    PROVE  StorageFollows
  <1>1. Storage(p) = Owned("regular")
    BY DEF Storage
  <1> QED  BY <1>1, TradeFacts, PutFollows DEF Follows

\* A pixmap that is exported keeps or replaces its buffer.
LEMMA ExportPixmap ==
    ASSUME DmaInv, NEW p \in Pixmaps, lorieExportPixmap(p)
    PROVE  StorageFollows
  <1>1. Quiet /\ Exists(p) /\ pix[p].type # "none"
    BY DEF lorieExportPixmap
  <1>2. Sound(pix[p]) /\ pix[p] \in Buffers /\ ~pix[p].access /\ ~pix[p].mem
    BY <1>1, QuietFacts DEF Sound
  <1>3. SharedType \in {"fd", "hw"}
    BY DEF SharedType
  <1>4. PICK c \in IF pix[p].dma \/ pix[p].mem THEN {[buffer |-> pix[p], gain |-> {}, lose |-> {}]}
                   ELSE Sampleable(pix[p], SharedType) :
           /\ Trade(c.gain, c.lose)
           /\ \/ Remap(p, c.buffer)
              \/ Put(p, c.buffer)
    BY DEF lorieExportPixmap
  <1>5. /\ Follows(pix[p], c.buffer) /\ ~c.buffer.access
        /\ \/ c.buffer = pix[p] /\ c.gain = {} /\ c.lose = {}
           \/ pix[p].type = "regular" /\ c.buffer.type = SharedType
                    /\ c.gain = Owned(SharedType) /\ c.lose = Owned("regular")
    <2>1. CASE pix[p].dma \/ pix[p].mem
      <3>1. c = [buffer |-> pix[p], gain |-> {}, lose |-> {}]
        BY <1>4, <2>1
      <3> QED  BY <1>2, <3>1, StaysSound
    <2>2. CASE ~(pix[p].dma \/ pix[p].mem)
      BY <1>1, <1>2, <1>3, <1>4, <2>2, SampleableIsSound
    <2> QED  BY <2>1, <2>2
  <1>6. PICK e : Put(p, e) /\ Follows(pix[p], e) /\ e.type = c.buffer.type
    <2>1. CASE Put(p, c.buffer)
      BY <1>5, <2>1
    <2>2. CASE Remap(p, c.buffer)
      <3>1. PICK u \in Unlock(c.buffer) : \E e \in Lock(u) : Put(p, e)
        BY <2>2 DEF Remap
      <3>2. PICK e \in Lock(u) : Put(p, e)
        BY <3>1
      <3>3. Sound(c.buffer) /\ c.buffer.type # "none"
        BY <1>1, <1>3, <1>5 DEF Follows
      <3>4. Follows(c.buffer, e) /\ Kept(c.buffer, e)
        BY <1>5, <3>1, <3>2, <3>3, RemapIsSound
      <3>5. Follows(pix[p], e) /\ e.type = c.buffer.type
        BY <1>5, <3>4 DEF Follows, Kept
      <3> QED  BY <3>2, <3>5
    <2> QED  BY <1>4, <2>1, <2>2
  <1>7. CASE c.buffer = pix[p] /\ c.gain = {} /\ c.lose = {}
    BY <1>1, <1>4, <1>6, <1>7, SameTypeFollows
  <1>8. CASE pix[p].type = "regular" /\ c.buffer.type = SharedType
             /\ c.gain = Owned(SharedType) /\ c.lose = Owned("regular")
    BY <1>1, <1>3, <1>4, <1>6, <1>8, ConvertFollows
  <1> QED  BY <1>5, <1>7, <1>8

\* lorieSetWindowPixmap() unmaps one pixmap and maps another; neither changes its type.
LEMMA SetWindowFacts ==
    ASSUME NEW old \in Pixmaps, NEW new \in Pixmaps, old # new,
           NEW buffers \in [Pixmaps -> Buffers \cup {NoPixmap}],
           Sound(buffers[old]), ~buffers[old].access, Sound(buffers[new]),
           NEW after \in lorieSetWindowPixmap(old, new, buffers)
    PROVE  \E u, n : /\ Follows(buffers[old], u) /\ u.type = buffers[old].type
                     /\ Follows(buffers[new], n) /\ n.type = buffers[new].type
                     /\ after \in [Pixmaps -> Buffers \cup {NoPixmap}]
                     /\ \A q \in Pixmaps : after[q] = IF q = old THEN u ELSE IF q = new THEN n ELSE buffers[q]
  <1>1. PICK u \in IF buffers[old].type = "none" \/ buffers[old].ptr = "none" THEN {buffers[old]}
                   ELSE {[b EXCEPT !.ptr = "none"] : b \in Unlock(buffers[old])},
             n \in IF buffers[new].type = "none" \/ buffers[new].ptr # "none" THEN {buffers[new]}
                   ELSE Lock(buffers[new]) :
           after = [buffers EXCEPT ![old] = u, ![new] = n]
    BY DEF lorieSetWindowPixmap
  <1>2. Follows(buffers[old], u) /\ u.type = buffers[old].type
    <2>1. CASE u = buffers[old]
      BY <2>1, StaysSound
    <2>2. ASSUME NEW b \in Unlock(buffers[old]), u = [b EXCEPT !.ptr = "none"]
          PROVE  Follows(buffers[old], u) /\ u.type = buffers[old].type
      <3>1. LET c == [b EXCEPT !.ptr = "none"] IN Follows(buffers[old], c) /\ Kept(buffers[old], c)
        BY <2>2, LetGoIsSound
      <3> QED  BY <2>2, <3>1 DEF Kept
    <2> QED  BY <1>1, <2>1, <2>2
  <1>3. Follows(buffers[new], n) /\ n.type = buffers[new].type
    <2>1. CASE n = buffers[new]
      BY <2>1, StaysSound
    <2>2. CASE buffers[new].type # "none" /\ n \in Lock(buffers[new])
      BY <2>2, LockIsSound DEF Kept
    <2> QED  BY <1>1, <2>1, <2>2
  <1>4. u \in Buffers /\ n \in Buffers
    BY <1>2, <1>3 DEF Follows, Sound
  <1>5. /\ after \in [Pixmaps -> Buffers \cup {NoPixmap}]
        /\ \A q \in Pixmaps : after[q] = IF q = old THEN u ELSE IF q = new THEN n ELSE buffers[q]
    BY ONLY <1>1, <1>4, old # new, old \in Pixmaps, new \in Pixmaps,
      buffers \in [Pixmaps -> Buffers \cup {NoPixmap}]
  <1> QED  BY <1>2, <1>3, <1>5

\* The root window changes its pixmap.
LEMMA WindowFollows ==
    ASSUME DmaInv, NEW old \in Pixmaps, NEW new \in Pixmaps, old # new, Exists(old), Exists(new), Quiet,
           NEW b, Follows(pix[new], b), NEW buffers, buffers = [pix EXCEPT ![new] = b],
           pix' \in lorieSetWindowPixmap(old, new, buffers),
           live' \in [Resources -> Int],
           \A r \in Resources : live'[r] = live[r] + Bit(r, Owned(b.type)) - Bit(r, Storage(new))
    PROVE  StorageFollows
  <1>1. pix \in [Pixmaps -> Buffers \cup {NoPixmap}] /\ \A q \in Pixmaps : Exists(q) => Sound(pix[q])
    BY DEF DmaInv, BuffersAreSound
  <1>2. b \in Buffers /\ Sound(b)
    BY DEF Follows, Sound
  <1>3. /\ buffers \in [Pixmaps -> Buffers \cup {NoPixmap}]
        /\ buffers[old] = pix[old] /\ buffers[new] = b
        /\ \A q \in Pixmaps : q # new => buffers[q] = pix[q]
    BY <1>1, <1>2
  <1>4. Sound(buffers[old]) /\ ~buffers[old].access /\ Sound(buffers[new])
    BY <1>1, <1>2, <1>3, QuietFacts
  <1>5. PICK u, n : /\ Follows(buffers[old], u) /\ u.type = buffers[old].type
                    /\ Follows(buffers[new], n) /\ n.type = buffers[new].type
                    /\ pix' \in [Pixmaps -> Buffers \cup {NoPixmap}]
                    /\ \A q \in Pixmaps : pix'[q] = IF q = old THEN u ELSE IF q = new THEN n ELSE buffers[q]
    BY ONLY <1>3, <1>4, SetWindowFacts, old # new, old \in Pixmaps, new \in Pixmaps,
      pix' \in lorieSetWindowPixmap(old, new, buffers)
  <1>6. /\ Follows(pix[old], u) /\ u.type = pix[old].type
        /\ Follows(pix[new], n) /\ n.type = b.type
        /\ u # NoPixmap /\ n # NoPixmap
        /\ pix'[old] = u /\ pix'[new] = n /\ \A q \in Pixmaps \ {old, new} : pix'[q] = pix[q]
    BY <1>3, <1>5, StaysSound DEF Follows
  <1>7. PixmapsFollow
    BY <1>1, <1>5, <1>6, StaysSound DEF PixmapsFollow, Exists, Follows
  <1>8. Storage(new)' = Owned(b.type) /\ \A q \in Pixmaps : q # new => Storage(q)' = Storage(q)
    BY <1>6 DEF Storage, Exists
  <1> QED  BY <1>7, <1>8 DEF StorageFollows, LiveFollows

\* The screen's and the root window's pixmaps.
LEMMA ScreenFacts ==
    ASSUME DmaInv, screen # NoPixmap \/ root # NoPixmap
    PROVE  screen \in Pixmaps /\ root \in Pixmaps /\ Exists(screen) /\ Exists(root)
  BY DEF DmaInv, ScreenExists

\* A flip moves the root to the presented pixmap and its lock with it.
LEMMA PresentFlip ==
    ASSUME DmaInv, NEW p \in Pixmaps, NEW forced \in BOOLEAN, loriePresentFlip(p, forced)
    PROVE  StorageFollows
  <1>1. /\ Quiet /\ Exists(p) /\ screen # NoPixmap /\ root = screen /\ p # screen /\ pix[p].type # "none"
    BY DEF loriePresentFlip
  <1>2. Sound(pix[p]) /\ ~pix[p].access /\ root \in Pixmaps /\ Exists(root) /\ root # p
    BY <1>1, QuietFacts, ScreenFacts
  <1>3. SharedType \in {"fd", "hw"}
    BY DEF SharedType
  <1>4. PICK c \in Sampleable(pix[p], SharedType) :
           /\ Trade(c.gain, c.lose)
           /\ \/ pix' \in lorieSetWindowPixmap(root, p, [pix EXCEPT ![p] = c.buffer])
              \/ Put(p, c.buffer)
    BY DEF loriePresentFlip
  <1>5. /\ Follows(pix[p], c.buffer)
        /\ \/ c.buffer = pix[p] /\ c.gain = {} /\ c.lose = {}
           \/ pix[p].type = "regular" /\ c.buffer.type = SharedType
                    /\ c.gain = Owned(SharedType) /\ c.lose = Owned("regular")
    BY <1>1, <1>2, <1>3, <1>4, SampleableIsSound
  <1>6. live' \in [Resources -> Int] /\ live \in [Resources -> Int]
        /\ \A r \in Resources : live'[r] = live[r] + Bit(r, c.gain) - Bit(r, c.lose)
    BY <1>4, TradeFacts DEF DmaInv, StorageTypes
  <1>7. \A r \in Resources : live'[r] = live[r] + Bit(r, Owned(c.buffer.type)) - Bit(r, Storage(p))
    BY <1>1, <1>5, <1>6 DEF Bit, Storage
  <1>8. CASE Put(p, c.buffer)
    BY <1>5, <1>6, <1>7, <1>8, PutFollows DEF Follows
  <1>9. CASE pix' \in lorieSetWindowPixmap(root, p, [pix EXCEPT ![p] = c.buffer])
    BY <1>1, <1>2, <1>5, <1>6, <1>7, <1>9, WindowFollows
  <1> QED  BY <1>4, <1>8, <1>9

\* An unflip moves the root back to the screen pixmap.
LEMMA UnflipFollows ==
    ASSUME DmaInv, Unflip
    PROVE  StorageFollows
  <1>1. Quiet /\ root # screen /\ pix' \in lorieSetWindowPixmap(root, screen, pix) /\ UNCHANGED live
    BY DEF Unflip
  <1>2. screen \in Pixmaps /\ root \in Pixmaps /\ Exists(screen) /\ Exists(root)
    BY <1>1, ScreenFacts
  <1>3. Follows(pix[screen], pix[screen])
    BY <1>2, QuietFacts, StaysSound
  <1>4. pix = [pix EXCEPT ![screen] = pix[screen]]
    BY <1>2 DEF DmaInv, BuffersAreSound
  <1>5. live \in [Resources -> Int] /\ live' = live
    BY <1>1 DEF DmaInv, StorageTypes
  <1>6. \A r \in Resources : live'[r] = live[r] + Bit(r, Owned(pix[screen].type)) - Bit(r, Storage(screen))
    BY <1>2, <1>5 DEF Bit, Storage
  <1> QED  BY <1>1, <1>2, <1>3, <1>4, <1>5, <1>6, WindowFollows

\* The screen pixmap is created locked, in the server's own storage.
LEMMA CreateScreen ==
    ASSUME DmaInv, NEW p \in Pixmaps, lorieCreateScreenResources(p)
    PROVE  StorageFollows /\ Exists(p)' /\ ~pix'[p].imported
  <1>1. PICK b \in Lock(New(SharedType)) : Put(p, b)
    BY DEF lorieCreateScreenResources
  <1>2. SharedType \in {"fd", "hw"}
    BY DEF SharedType
  <1>3. Sound(b) /\ b.type = SharedType /\ ~b.imported /\ b # NoPixmap
    BY <1>1, <1>2, NewIsSound, LockIsSound, StaysSound DEF Follows, Kept
  <1>4. ~Exists(p) /\ Trade(Owned(SharedType), {})
    BY DEF lorieCreateScreenResources
  <1>5. pix'[p] = b
    BY <1>1 DEF Put, DmaInv, BuffersAreSound
  <1>6. StorageFollows
    BY <1>1, <1>2, <1>3, <1>4, CreateFollows
  <1> QED  BY <1>3, <1>5, <1>6 DEF Exists

\* A redraw may lock the root again and moves nothing.
LEMMA RedrawFollows ==
    ASSUME DmaInv, Redraw
    PROVE  StorageFollows
  <1>1. Quiet /\ root # NoPixmap /\ pix[root].type # "none" /\ Remap(root, pix[root]) /\ UNCHANGED live
    BY DEF Redraw
  <1>2. root \in Pixmaps /\ Exists(root)
    BY <1>1, ScreenFacts
  <1>3. Sound(pix[root]) /\ ~pix[root].access
    BY <1>1, <1>2, QuietFacts
  <1>4. PICK u \in Unlock(pix[root]) : \E c \in Lock(u) : Put(root, c)
    BY <1>1 DEF Remap
  <1>5. PICK c \in Lock(u) : Put(root, c)
    BY <1>4
  <1>6. Follows(pix[root], c) /\ Kept(pix[root], c)
    BY <1>1, <1>3, <1>4, <1>5, RemapIsSound
  <1> QED  BY <1>1, <1>2, <1>5, <1>6, SameTypeFollows DEF Kept

\* An imported linear buffer is owned by its pixmap.
LEMMA ImportLinearFollows ==
    ASSUME DmaInv, NEW p \in Pixmaps, NEW stride \in {"tight", "aligned"}, NEW dma \in BOOLEAN,
           ImportLinear(p, stride, dma)
    PROVE  StorageFollows
  <1> DEFINE b == [New("fd") EXCEPT !.dma = dma, !.imported = TRUE, !.stride = stride, !.pitch = stride]
  <1>1. ~Exists(p)
    BY DEF ImportLinear
  <1>2. PICK a \in allocate("fd", {}) : Trade(a.left, {}) /\ IF a.ok THEN Put(p, b) ELSE UNCHANGED pix
    BY DEF ImportLinear
  <1>3. a.left = IF a.ok THEN Owned("fd") ELSE {}
    BY <1>2, AllocateFacts
  <1>4. Sound(b) /\ b.type = "fd"
    BY DEF New, Empty, Sound, Buffers, Types
  <1> HIDE DEF b
  <1>5. CASE a.ok
    BY <1>1, <1>2, <1>3, <1>4, <1>5, CreateFollows
  <1>6. CASE ~a.ok
    BY <1>2, <1>3, <1>6, StayFollows
  <1> QED  BY <1>5, <1>6

\* An imported hardware buffer is owned by its pixmap, or not taken.
LEMMA ImportHardwareFollows ==
    ASSUME DmaInv, NEW p \in Pixmaps, NEW fits \in BOOLEAN, ImportHardware(p, fits)
    PROVE  StorageFollows
  <1> DEFINE b == [New("hw") EXCEPT !.imported = TRUE]
  <1>1. ~Exists(p)
    BY DEF ImportHardware
  <1>2. PICK a \in {Failed} \cup allocate("hw", {"hw"}) :
           IF a.ok /\ ~fits THEN Trade(a.left, Owned("hw")) /\ UNCHANGED pix
           ELSE /\ Trade(a.left, {})
                /\ IF a.ok THEN Put(p, b) ELSE UNCHANGED pix
    BY DEF ImportHardware
  <1>3. a.left = IF a.ok THEN Owned("hw") ELSE {}
    <2>1. CASE a = Failed
      BY <2>1 DEF Failed
    <2>2. CASE a \in allocate("hw", {"hw"})
      BY <2>2, AllocateFacts
    <2> QED  BY <1>2, <2>1, <2>2
  <1>4. Sound(b) /\ b.type = "hw"
    BY DEF New, Empty, Sound, Buffers, Types
  <1> HIDE DEF b
  <1>5. CASE a.ok /\ ~fits
    BY <1>2, <1>3, <1>5, StayFollows
  <1>6. CASE a.ok /\ fits
    BY <1>1, <1>2, <1>3, <1>4, <1>6, CreateFollows
  <1>7. CASE ~a.ok
    BY <1>2, <1>3, <1>7, StayFollows
  <1> QED  BY <1>5, <1>6, <1>7

\* A pixmap whose files are asked for keeps or replaces its buffer.
LEMMA FdsFromPixmap ==
    ASSUME DmaInv, NEW p \in Pixmaps, lorieFdsFromPixmap(p)
    PROVE  StorageFollows
  <1>1. Quiet /\ Exists(p) /\ pix[p].type # "none"
    BY DEF lorieFdsFromPixmap
  <1>2. Sound(pix[p]) /\ pix[p] \in Buffers /\ ~pix[p].access /\ ~pix[p].mem
    BY <1>1, QuietFacts DEF Sound
  <1>3. PICK u \in IF pix[p].ptr = "none" THEN {pix[p]} ELSE Unlock(pix[p]) :
          IF u.lost /\ ~pix[p].lost
          THEN Put(p, u) /\ UNCHANGED live
          ELSE \E d \in makeDmaBuf([u EXCEPT !.ptr = "none"]) :
                IF ~d.ok
                THEN /\ IF pix[p].ptr = "none" THEN Put(p, d.buffer)
                        ELSE \E l \in Lock(d.buffer) : Put(p, l)
                     /\ UNCHANGED live
                ELSE /\ Put(p, [d.buffer EXCEPT !.pitch = d.buffer.stride])
                     /\ Trade(d.gain, d.lose)
    BY DEF lorieFdsFromPixmap
  <1> DEFINE e == [u EXCEPT !.ptr = "none"]
  <1>4. /\ u \in Buffers /\ Kept(pix[p], u) /\ ~u.held /\ u.ptr = pix[p].ptr
        /\ pix[p].lost => u.lost
        /\ ~u.lost => ~u.sync
    <2>1. CASE pix[p].ptr = "none"
      BY <1>2, <1>3, <2>1 DEF Sound, Kept, Buffers
    <2>2. CASE pix[p].ptr # "none"
      BY <1>2, <1>3, <2>2, UnlockFacts DEF Sound, Buffers
    <2> QED  BY <2>1, <2>2
  <1>5. /\ e \in Buffers /\ Kept(u, e) /\ e.ptr = "none" /\ ~e.held /\ e.sync = u.sync /\ e.lost = u.lost
    BY <1>4, ForgetFacts
  <1> HIDE DEF e
  <1>6. Follows(pix[p], e) /\ Kept(pix[p], e)
    BY <1>2, <1>4, <1>5 DEF Follows, Sound, Kept, Buffers
  <1>7. CASE u.lost /\ ~pix[p].lost
    <2>1. Put(p, u) /\ UNCHANGED live
      BY <1>3, <1>7
    <2>2. Follows(pix[p], u) /\ u.type = pix[p].type
      BY <1>2, <1>4, <1>7 DEF Follows, Sound, Kept, Buffers
    <2> QED  BY <1>1, <2>1, <2>2, SameTypeFollows
  <1>8. ASSUME NEW d \in makeDmaBuf(e), ~d.ok, UNCHANGED live,
               IF pix[p].ptr = "none" THEN Put(p, d.buffer) ELSE \E l \in Lock(d.buffer) : Put(p, l)
        PROVE  StorageFollows
    <2>1. d.buffer = e
      BY <1>8 DEF makeDmaBuf
    <2>2. CASE Put(p, e)
      BY <1>1, <1>6, <1>8, <2>2, SameTypeFollows DEF Kept
    <2>3. ASSUME NEW l \in Lock(e), Put(p, l) PROVE StorageFollows
      <3>1. Follows(e, l) /\ Kept(e, l)
        BY <1>1, <1>6, <2>3, LockIsSound DEF Follows, Kept
      <3>2. Follows(pix[p], l) /\ l.type = pix[p].type
        BY <1>6, <3>1 DEF Follows, Kept
      <3> QED  BY <1>1, <1>8, <2>3, <3>2, SameTypeFollows
    <2> QED  BY <1>8, <2>1, <2>2, <2>3
  <1>9. ASSUME NEW d \in makeDmaBuf(e), d.ok, Put(p, [d.buffer EXCEPT !.pitch = d.buffer.stride]),
               Trade(d.gain, d.lose)
        PROVE  StorageFollows
    <2> DEFINE f == [d.buffer EXCEPT !.pitch = d.buffer.stride]
    <2>1. CASE d = [ok |-> e.dma, buffer |-> e, gain |-> {}, lose |-> {}]
      <3>1. d.buffer = e /\ d.gain = {} /\ d.lose = {}
        BY <2>1
      <3>2. Follows(pix[p], f) /\ f.type = pix[p].type
        BY <1>5, <1>6, <3>1 DEF Follows, Sound, Kept, Buffers
      <3>3. Put(p, f)
        BY <1>9
      <3> HIDE DEF f
      <3> QED  BY <1>1, <1>9, <3>1, <3>2, <3>3, SameTypeFollows
    <2>2. CASE /\ e.type = "regular"
               /\ d = [ok |-> TRUE, gain |-> {"fd", "map"}, lose |-> {"heap"},
                       buffer |-> [e EXCEPT !.type = "fd", !.dma = TRUE, !.stride = "aligned"]]
      <3> DEFINE g == [e EXCEPT !.type = "fd", !.dma = TRUE, !.stride = "aligned"]
      <3>1. d.buffer = g /\ d.gain = Owned("fd") /\ d.lose = Owned("regular")
        BY <2>2 DEF Owned
      <3>2. /\ g \in Buffers /\ g.type = "fd" /\ g.stride = "aligned" /\ g.held = e.held /\ g.sync = e.sync
            /\ g.ptr = e.ptr /\ g.lost = e.lost /\ g.mem = e.mem /\ g.imported = e.imported
            /\ g.access = e.access
        BY <1>5 DEF Buffers, Types
      <3> HIDE DEF g
      <3>3. /\ f \in Buffers /\ f.type = "fd" /\ f.stride = f.pitch /\ f.held = e.held /\ f.sync = e.sync
            /\ f.ptr = e.ptr /\ f.lost = e.lost /\ f.mem = e.mem /\ f.imported = e.imported
            /\ f.access = e.access
        BY <3>1, <3>2 DEF Buffers
      <3>4. Put(p, f)
        BY <1>9
      <3> HIDE DEF f
      <3>5. Sound(f)
        BY <1>2, <1>4, <1>5, <1>6, <3>3 DEF Sound, Kept
      <3>6. pix[p].type = "regular" /\ Follows(pix[p], f)
        BY <1>6, <2>2, <3>3, <3>5 DEF Follows, Kept
      <3> QED  BY <1>1, <1>9, <3>1, <3>3, <3>4, <3>6, ConvertFollows
    <2> QED  BY <1>9, <2>1, <2>2 DEF makeDmaBuf
  <1> QED  BY <1>3, <1>7, <1>8, <1>9 DEF e

-----------------------------------------------------------------------------
\* Counting owners.

\* A set that differs from another in one element.
LEMMA CountOne ==
    ASSUME NEW U, IsFiniteSet(U), NEW S \in SUBSET U, NEW T \in SUBSET U, NEW p,
           \A q \in U : q # p => (q \in S <=> q \in T)
    PROVE  /\ Cardinality(S) \in Nat /\ Cardinality(T) \in Nat
           /\ Cardinality(T) = Cardinality(S) + Bit(p, T) - Bit(p, S)
  <1>1. IsFiniteSet(S) /\ IsFiniteSet(T)
    BY FS_Subset
  <1>2. Cardinality(S) \in Nat /\ Cardinality(T) \in Nat
    BY <1>1, FS_CardinalityType
  <1>3. CASE (p \in S) <=> (p \in T)
    <2>1. S = T
      BY <1>3
    <2> QED  BY <1>2, <2>1 DEF Bit
  <1>4. CASE p \in S /\ p \notin T
    <2>1. S = T \cup {p}
      BY <1>4
    <2>2. Cardinality(S) = Cardinality(T) + 1
      BY <1>1, <1>4, <2>1, FS_AddElement
    <2> QED  BY <1>2, <1>4, <2>2 DEF Bit
  <1>5. CASE p \notin S /\ p \in T
    <2>1. T = S \cup {p}
      BY <1>5
    <2>2. Cardinality(T) = Cardinality(S) + 1
      BY <1>1, <1>5, <2>1, FS_AddElement
    <2> QED  BY <1>2, <1>5, <2>2 DEF Bit
  <1> QED  BY <1>3, <1>4, <1>5

\* A set that differs from another in two elements.
LEMMA CountTwo ==
    ASSUME NEW U, IsFiniteSet(U), NEW S \in SUBSET U, NEW T \in SUBSET U, NEW p \in U, NEW q \in U, p # q,
           \A e \in U : e # p /\ e # q => (e \in S <=> e \in T)
    PROVE  /\ Cardinality(S) \in Nat /\ Cardinality(T) \in Nat
           /\ Cardinality(T) = Cardinality(S) + Bit(p, T) - Bit(p, S) + Bit(q, T) - Bit(q, S)
  <1> DEFINE M == {e \in U : IF e = p THEN p \in T ELSE e \in S}
  <1>1. /\ M \in SUBSET U
        /\ \A e \in U : e # p => (e \in S <=> e \in M)
        /\ \A e \in U : e # q => (e \in M <=> e \in T)
        /\ (p \in M <=> p \in T) /\ (q \in M <=> q \in S)
    OBVIOUS
  <1> HIDE DEF M
  <1>2. /\ Cardinality(S) \in Nat /\ Cardinality(M) \in Nat
        /\ Cardinality(M) = Cardinality(S) + Bit(p, M) - Bit(p, S)
    BY ONLY <1>1, CountOne, IsFiniteSet(U), S \in SUBSET U
  <1>3. /\ Cardinality(T) \in Nat
        /\ Cardinality(T) = Cardinality(M) + Bit(q, T) - Bit(q, M)
    <2>1. M \in SUBSET U /\ \A e \in U : e # q => (e \in M <=> e \in T)
      BY <1>1
    <2> QED  BY ONLY <2>1, CountOne, IsFiniteSet(U), T \in SUBSET U
  <1>4. Bit(p, M) = Bit(p, T) /\ Bit(q, M) = Bit(q, S)
    BY <1>1 DEF Bit
  <1>5. Bit(p, T) \in Int /\ Bit(p, S) \in Int /\ Bit(q, T) \in Int /\ Bit(q, S) \in Int
    BY DEF Bit
  <1> QED  BY <1>2, <1>3, <1>4, <1>5

\* What the imports of a pixmap own.
ImportsOf(p) == (IF sources[p].state = "imported" THEN SourceOwns(sources[p].rows) ELSE {})
                \cup (IF destinations[p].state = "imported" THEN DestinationOwns ELSE {})

PixmapOwners(r) == {p \in Pixmaps : Exists(p) /\ r \in Holdings(p)}
ContextOwners(r) == {c \in Contexts : contexts[c].refs > 0 /\ r \in ContextResources}

\* A resource is owned by pixmaps, by the peer and by copy contexts.
LEMMA OwnersFacts ==
    \A r : Owners(r) = Cardinality(PixmapOwners(r)) + Bit(r, Owned(peer)) + Cardinality(ContextOwners(r))
  BY DEF Owners, PixmapOwners, ContextOwners, Bit

\* The same of the next state.
LEMMA OwnersNext ==
    \A r : Owners(r)' = Cardinality(PixmapOwners(r)') + Bit(r, Owned(peer')) + Cardinality(ContextOwners(r)')
  <1>1. (\A r : Owners(r) = Cardinality(PixmapOwners(r)) + Bit(r, Owned(peer)) + Cardinality(ContextOwners(r)))'
    BY OwnersFacts, PTL
  <1>2. \A r : Bit(r, Owned(peer))' = Bit(r, Owned(peer'))
    BY DEF Bit, Owned
  <1> QED  BY <1>1, <1>2

\* The kinds of resources are apart.
LEMMA ResourceKinds ==
    /\ \A type : Owned(type) \subseteq BufferResources
    /\ \A rows : SourceOwns(rows) \subseteq {"srcbuf", "srcmem", "tailbuf", "tailmem", "tailmap"}
    /\ \A r \in BufferResources : r \notin ContextResources /\ r \notin DestinationOwns
          /\ r \notin {"srcbuf", "srcmem", "tailbuf", "tailmem", "tailmap"}
    /\ \A r \in ContextResources : r \notin DestinationOwns
          /\ r \notin {"srcbuf", "srcmem", "tailbuf", "tailmem", "tailmap"}
    /\ \A r \in DestinationOwns : r \notin {"srcbuf", "srcmem", "tailbuf", "tailmem", "tailmap"}
  BY DEF Owned, BufferResources, SourceOwns, ContextResources, DestinationOwns

\* An existing pixmap holds its storage and its imports; they are apart.
LEMMA HoldingsFacts ==
    ImportsAreSound => \A p \in Pixmaps : \A r :
        /\ p \in PixmapOwners(r) <=> r \in Storage(p) \/ r \in ImportsOf(p)
        /\ r \in Storage(p) => r \in BufferResources
        /\ r \in ImportsOf(p) => r \notin BufferResources /\ r \notin ContextResources
  <1> SUFFICES ASSUME ImportsAreSound, NEW p \in Pixmaps, NEW r
               PROVE  /\ p \in PixmapOwners(r) <=> r \in Storage(p) \/ r \in ImportsOf(p)
                      /\ r \in Storage(p) => r \in BufferResources
                      /\ r \in ImportsOf(p) => r \notin BufferResources /\ r \notin ContextResources
    OBVIOUS
  <1>1. Exists(p) => Holdings(p) = Storage(p) \cup ImportsOf(p)
    BY DEF Holdings, Storage, ImportsOf
  <1>2. ~Exists(p) => Storage(p) = {} /\ ImportsOf(p) = {}
    BY DEF Storage, ImportsOf, ImportsAreSound
  <1>3. r \in Storage(p) => r \in BufferResources
    BY ResourceKinds DEF Storage
  <1>4. r \in ImportsOf(p) => r \notin BufferResources /\ r \notin ContextResources
    BY ResourceKinds DEF ImportsOf
  <1> QED  BY <1>1, <1>2, <1>3, <1>4 DEF PixmapOwners

\* After a step too, storage is buffers and imports are neither buffers nor contexts.
LEMMA HoldingsNext ==
    ASSUME ImportsAreSound'
    PROVE  \A p \in Pixmaps : \A r :
              /\ p \in PixmapOwners(r)' <=> r \in Storage(p)' \/ r \in ImportsOf(p)'
              /\ r \in Storage(p)' => r \in BufferResources
              /\ r \in ImportsOf(p)' => r \notin BufferResources /\ r \notin ContextResources
  <1>1. BufferResources' = BufferResources /\ ContextResources' = ContextResources
    BY DEF BufferResources, ContextResources
  <1>2. (ImportsAreSound => \A p \in Pixmaps : \A r :
            /\ p \in PixmapOwners(r) <=> r \in Storage(p) \/ r \in ImportsOf(p)
            /\ r \in Storage(p) => r \in BufferResources
            /\ r \in ImportsOf(p) => r \notin BufferResources /\ r \notin ContextResources)'
    BY HoldingsFacts, PTL
  <1> QED  BY <1>1, <1>2

-----------------------------------------------------------------------------
\* The storage keeps the invariant.

\* Every call follows, or it is the renderer's side that changes.
LEMMA StorageFrame ==
    ASSUME DmaInv, StorageNext
    PROVE  \/ StorageFollows /\ peer' = peer
           \/ UNCHANGED pix /\ \E p \in Pixmaps : SendBuffer(p)
           \/ UNCHANGED pix /\ PeerReleases
  <1>1. ASSUME NEW p \in Pixmaps,
               \/ \E type \in {"regular", SharedType} : lorieCreatePixmap(p, type)
               \/ lorieModifyPixmapHeader(p)
               \/ loriePrepareAccess(p) \/ lorieFinishAccess(p)
               \/ lorieExportPixmap(p)
               \/ \E forced \in BOOLEAN : loriePresentFlip(p, forced)
               \/ lorieCreateScreenResources(p)
               \/ \E stride \in {"tight", "aligned"}, dma \in BOOLEAN : ImportLinear(p, stride, dma)
               \/ \E fits \in BOOLEAN : ImportHardware(p, fits)
               \/ lorieFdsFromPixmap(p)
        PROVE  StorageFollows /\ peer' = peer
    <2>1. StorageFollows
      BY <1>1, CreatePixmap, ModifyHeader, PrepareAccess, FinishAccess, ExportPixmap, PresentFlip,
        CreateScreen, ImportLinearFollows, ImportHardwareFollows, FdsFromPixmap
    <2>2. peer' = peer
      BY <1>1 DEF lorieCreatePixmap, lorieModifyPixmapHeader, loriePrepareAccess, lorieFinishAccess,
        lorieExportPixmap, loriePresentFlip, lorieCreateScreenResources, ImportLinear, ImportHardware,
        lorieFdsFromPixmap
    <2> QED  BY <2>1, <2>2
  <1>2. Unflip \/ Redraw => StorageFollows /\ peer' = peer
    BY UnflipFollows, RedrawFollows DEF Unflip, Redraw
  <1>3. \A p \in Pixmaps : SendBuffer(p) => UNCHANGED pix
    BY DEF SendBuffer
  <1>4. PeerReleases => UNCHANGED pix
    BY DEF PeerReleases
  <1> QED  BY <1>1, <1>2, <1>3, <1>4 DEF StorageNext

\* A message received in part, refused or not allocated leaves nothing open.
LEMMA ReceivedFacts ==
    ASSUME NEW type \in {"fd", "hw"}, NEW a \in received(type)
    PROVE  a.left = IF a.ok THEN Owned(type) ELSE {}
  <1>1. Failed.ok = FALSE /\ Failed.left = {}
    BY DEF Failed
  <1>2. a = Failed \/ a \in allocate(type, {type})
    <2>1. CASE type = "hw"
      BY <2>1 DEF received
    <2>2. CASE type = "fd" /\ a # Failed
      <3>1. PICK fd \in {ancil_recv_fd(n, whole) : n \in 0..2, whole \in BOOLEAN} :
               a \in IF fd = {} THEN {Failed} ELSE allocate("fd", fd)
        BY <2>2 DEF received
      <3>2. fd \in {{}, {"fd"}}
        BY <3>1 DEF ancil_recv_fd
      <3> QED  BY <2>2, <3>1, <3>2
    <2> QED  BY <2>1, <2>2
  <1> QED  BY <1>1, <1>2, AllocateFacts

\* The resources stay owned.
LEMMA StorageOwned ==
    ASSUME DmaInv, StorageNext, UNCHANGED dmaVars, ImportsAreSound'
    PROVE  ResourcesAreOwned' /\ live' \in [Resources -> Int]
  <1>0. /\ UNCHANGED <<contexts, dmaCopy, sources, destinations>>
        /\ live \in [Resources -> Int] /\ ImportsAreSound
        /\ \A r \in Resources : live[r] = Owners(r)
    BY DEF dmaVars, DmaInv, StorageTypes, ResourcesAreOwned
  <1>1. \A p \in Pixmaps : ImportsOf(p)' = ImportsOf(p)
    BY <1>0 DEF ImportsOf
  <1>2. \A r : ContextOwners(r)' = ContextOwners(r)
    BY <1>0 DEF ContextOwners
  <1>f. /\ \A r : Cardinality(PixmapOwners(r)) \in Nat
        /\ \A r : Cardinality(ContextOwners(r)) \in Nat
    <2>1. IsFiniteSet(Pixmaps) /\ IsFiniteSet(Contexts)
      BY PixmapsAssumption, ImageAssumption, FS_Interval DEF Contexts
    <2>2. \A r : IsFiniteSet(PixmapOwners(r)) /\ IsFiniteSet(ContextOwners(r))
      BY <2>1, FS_Subset DEF PixmapOwners, ContextOwners
    <2> QED  BY <2>2, FS_CardinalityType
  <1>3. ASSUME StorageFollows, peer' = peer
        PROVE  live' \in [Resources -> Int] /\ \A r \in Resources : live'[r] = Owners(r)'
    <2>1. PICK p \in Pixmaps : LiveFollows(p)
      BY <1>3 DEF StorageFollows
    <2>2. ASSUME NEW r \in Resources PROVE live'[r] = Owners(r)'
      <3>1. \A q \in Pixmaps : q # p => (q \in PixmapOwners(r) <=> q \in PixmapOwners(r)')
        BY <1>0, <1>1, <2>1, HoldingsFacts, HoldingsNext DEF LiveFollows
      <3>2. Bit(p, PixmapOwners(r)') - Bit(p, PixmapOwners(r)) = Bit(r, Storage(p)') - Bit(r, Storage(p))
        BY <1>0, <1>1, HoldingsFacts, HoldingsNext DEF Bit
      <3>3. /\ Cardinality(PixmapOwners(r)') \in Nat
            /\ Cardinality(PixmapOwners(r)')
                  = Cardinality(PixmapOwners(r)) + Bit(p, PixmapOwners(r)') - Bit(p, PixmapOwners(r))
        <4>1. PixmapOwners(r) \in SUBSET Pixmaps /\ PixmapOwners(r)' \in SUBSET Pixmaps
          BY DEF PixmapOwners
        <4> QED  BY <3>1, <4>1, CountOne, PixmapsAssumption
      <3>4. Owners(r)' = Cardinality(PixmapOwners(r)') + Bit(r, Owned(peer)) + Cardinality(ContextOwners(r))
        BY <1>2, <1>3, OwnersNext
      <3>5. live[r] = Cardinality(PixmapOwners(r)) + Bit(r, Owned(peer)) + Cardinality(ContextOwners(r))
        BY <1>0, OwnersFacts
      <3>6. live'[r] = live[r] + Bit(r, Storage(p)') - Bit(r, Storage(p))
        BY <2>1 DEF LiveFollows
      <3>7. /\ Bit(r, Storage(p)') \in Int /\ Bit(r, Storage(p)) \in Int /\ Bit(r, Owned(peer)) \in Int
            /\ Bit(p, PixmapOwners(r)') \in Int /\ Bit(p, PixmapOwners(r)) \in Int
        BY DEF Bit
      <3> QED  BY <1>f, <3>2, <3>3, <3>4, <3>5, <3>6, <3>7
    <2> QED  BY <2>1, <2>2 DEF LiveFollows
  <1>4. ASSUME UNCHANGED pix, (\E p \in Pixmaps : SendBuffer(p)) \/ PeerReleases
        PROVE  live' \in [Resources -> Int] /\ \A r \in Resources : live'[r] = Owners(r)'
    <2>1. \A r : PixmapOwners(r)' = PixmapOwners(r)
      BY <1>0, <1>4 DEF PixmapOwners, Holdings, Exists
    <2>2. /\ live' \in [Resources -> Int]
          /\ \A r \in Resources : live'[r] = live[r] + Bit(r, Owned(peer')) - Bit(r, Owned(peer))
      <3>1. ASSUME NEW p \in Pixmaps, SendBuffer(p)
            PROVE  <2>2
        <4>1. PICK a \in received(pix[p].type) :
                 Trade(a.left, {}) /\ peer' = IF a.ok THEN pix[p].type ELSE peer
          BY <3>1 DEF SendBuffer
        <4>2. pix[p].type \in {"fd", "hw"} /\ peer = "none"
          BY <3>1 DEF SendBuffer
        <4>3. a.left = IF a.ok THEN Owned(pix[p].type) ELSE {}
          BY <4>1, <4>2, ReceivedFacts
        <4>4. Owned("none") = {}
          BY DEF Owned
        <4>5. /\ live' \in [Resources -> Int]
              /\ \A r \in Resources : live'[r] = live[r] + Bit(r, a.left) - Bit(r, {})
          BY <4>1, TradeFacts
        <4> QED  BY <1>0, <4>1, <4>2, <4>3, <4>4, <4>5 DEF Bit
      <3>2. CASE PeerReleases
        <4>1. peer' = "none" /\ Trade({}, Owned(peer))
          BY <3>2 DEF PeerReleases
        <4>2. Owned("none") = {}
          BY DEF Owned
        <4> QED  BY <4>1, <4>2, TradeFacts
      <3> QED  BY <1>4, <3>1, <3>2
    <2>3. ASSUME NEW r \in Resources PROVE live'[r] = Owners(r)'
      <3>1. Owners(r)' = Cardinality(PixmapOwners(r)) + Bit(r, Owned(peer')) + Cardinality(ContextOwners(r))
        BY <1>2, <2>1, OwnersNext
      <3>2. live[r] = Cardinality(PixmapOwners(r)) + Bit(r, Owned(peer)) + Cardinality(ContextOwners(r))
        BY <1>0, OwnersFacts
      <3>3. Bit(r, Owned(peer)) \in Int /\ Bit(r, Owned(peer')) \in Int
        BY DEF Bit
      <3> QED  BY <1>f, <2>2, <3>1, <3>2, <3>3
    <2> QED  BY <2>2, <2>3
  <1>5. live' \in [Resources -> Int] /\ \A r \in Resources : live'[r] = Owners(r)'
    BY <1>3, <1>4, StorageFrame
  <1>6. DOMAIN live' = Resources
    BY <1>5
  <1> QED  BY <1>0, <1>5, <1>6 DEF DmaInv, ResourcesAreOwned

\* A sound server thread: what its storage calls do to the rest of the state.
LEMMA StorageStep ==
    ASSUME DmaInv, StorageNext, copying = NoCopy, UNCHANGED dmaVars
    PROVE  DmaInv'
  <1>0. UNCHANGED <<contexts, dmaCopy, attempted, sources, destinations, copying, inFlight, misplaced>>
    BY DEF dmaVars
  <1>i. /\ StorageTypes /\ BuffersAreSound /\ ScreenExists /\ ImportsAreSound /\ CpuStaysAway /\ misplaced = {}
    BY DEF DmaInv
  <1>1. PixmapsFollow
    <2>1. UNCHANGED pix => PixmapsFollow
      BY <1>i, StaysSound DEF PixmapsFollow, BuffersAreSound, Exists
    <2> QED  BY <2>1, StorageFrame DEF StorageFollows
  <1>2. BuffersAreSound'
    BY <1>1 DEF PixmapsFollow, BuffersAreSound
  <1>3. ImportsAreSound'
    BY <1>0, <1>1, <1>i DEF ImportsAreSound, PixmapsFollow, Follows
  <1>4. dead' \in BOOLEAN /\ (dead => dead') /\ legacy' = legacy /\ peer' \in {"none", "fd", "hw"}
    <2>1. legacy' = legacy
      BY DEF StorageNext, lorieCreatePixmap, lorieModifyPixmapHeader, loriePrepareAccess, lorieFinishAccess,
        lorieExportPixmap, loriePresentFlip, lorieCreateScreenResources, ImportLinear, ImportHardware,
        lorieFdsFromPixmap, Unflip, Redraw, SendBuffer, PeerReleases
    <2>2. peer' \in {"none", "fd", "hw"}
      <3>1. peer' = peer \/ (\E p \in Pixmaps : SendBuffer(p)) \/ PeerReleases
        BY StorageFrame
      <3> QED  BY <1>i, <3>1 DEF SendBuffer, PeerReleases, StorageTypes
    <2>3. dead' = dead \/ (~dead /\ dead' \in BOOLEAN)
      BY DEF StorageNext, lorieCreatePixmap, lorieModifyPixmapHeader, loriePrepareAccess, lorieFinishAccess,
        lorieExportPixmap, loriePresentFlip, lorieCreateScreenResources, ImportLinear, ImportHardware,
        lorieFdsFromPixmap, Unflip, Redraw, SendBuffer, PeerReleases, Remap, Quiet
    <2> QED  BY <1>i, <2>1, <2>2, <2>3 DEF StorageTypes
  <1>5. ScreenExists'
    <2>1. \/ UNCHANGED <<screen, root>>
          \/ \E p \in Pixmaps : Exists(p) /\ screen # NoPixmap /\ root' = p /\ screen' = screen
          \/ root # screen /\ root' = screen /\ screen' = screen
          \/ \E p \in Pixmaps : lorieCreateScreenResources(p)
      BY DEF StorageNext, lorieCreatePixmap, lorieModifyPixmapHeader, loriePrepareAccess, lorieFinishAccess,
        lorieExportPixmap, loriePresentFlip, ImportLinear, ImportHardware,
        lorieFdsFromPixmap, Unflip, Redraw, SendBuffer, PeerReleases
    <2>2. \A p \in Pixmaps : Exists(p) => Exists(p)' /\ pix'[p].imported = pix[p].imported
      BY <1>1 DEF PixmapsFollow, Follows
    <2>3. CASE UNCHANGED <<screen, root>>
      BY <1>0, <1>i, <2>2, <2>3 DEF ScreenExists
    <2>4. ASSUME NEW p \in Pixmaps, Exists(p), screen # NoPixmap, root' = p, screen' = screen
          PROVE  ScreenExists'
      BY <1>0, <1>i, <2>2, <2>4 DEF ScreenExists
    <2>5. CASE root # screen /\ root' = screen /\ screen' = screen
      BY <1>0, <1>i, <2>2, <2>5 DEF ScreenExists
    <2>6. ASSUME NEW p \in Pixmaps, lorieCreateScreenResources(p)
          PROVE  ScreenExists'
      <3>1. screen' = p /\ root' = p /\ ~Exists(p)
        BY <2>6 DEF lorieCreateScreenResources
      <3>2. Exists(p)' /\ ~pix'[p].imported
        BY <2>6, CreateScreen
      <3>3. destinations[p].context = 0
        BY <1>i, <3>1 DEF ImportsAreSound
      <3> QED  BY <1>0, <3>1, <3>2, <3>3 DEF ScreenExists
    <2> QED  BY <2>1, <2>3, <2>4, <2>5, <2>6
  <1>6. CopyIsPrepared'
    <2>1. copying' = NoCopy /\ NoCopy.step = "none"
      BY <1>0 DEF NoCopy
    <2>2. NoCopy \in [step : CopySteps, src : Pixmaps \cup {NoPixmap},
                      dst : Pixmaps \cup {NoPixmap}, wasLocked : BOOLEAN]
      BY DEF NoCopy, CopySteps
    <2> QED  BY <2>1, <2>2 DEF CopyIsPrepared
  <1>7. CpuStaysAway'
    <2>1. copying'.step # "copy"
      BY <1>0 DEF NoCopy
    <2> QED  BY <1>0, <1>4, <1>i, <2>1 DEF CpuStaysAway
  <1>8. ResourcesAreOwned' /\ live' \in [Resources -> Int]
    BY <1>3, StorageOwned
  <1>9. StorageTypes'
    BY <1>0, <1>4, <1>8, <1>i DEF StorageTypes, Resources, SourceOwns
  <1> QED  BY <1>0, <1>2, <1>3, <1>5, <1>6, <1>7, <1>8, <1>9, <1>i DEF DmaInv

-----------------------------------------------------------------------------
\* The arithmetic of the copies.

\* Multiplication distributes over sums and differences.
LEMMA Distributes ==
    ASSUME NEW a \in Int, NEW b \in Int, NEW s \in Int
    PROVE  (a + b) * s = a * s + b * s /\ (a - b) * s = a * s - b * s
  OBVIOUS

\* Multiplication by a natural number is monotonic.
LEMMA Multiples ==
    ASSUME NEW a \in Int, NEW b \in Int, NEW s \in Nat, a <= b
    PROVE  a * s \in Int /\ b * s \in Int /\ a * s <= b * s
  <1>2. (b - a) * s = b * s - a * s
    BY Distributes
  <1>3. a * s \in Int /\ b * s \in Int
    OBVIOUS
  <1> DEFINE d == b - a
  <1>0. d \in Nat
    OBVIOUS
  <1>1. d * s >= 0
    <2> HIDE DEF d
    <2>1. d * s \in Nat
      BY ONLY <1>0, s \in Nat
    <2> QED  BY ONLY <2>1
  <1> QED  BY <1>1, <1>2, <1>3

\* A quotient times its divisor is not more than the dividend.
LEMMA Quotient ==
    ASSUME NEW n \in Nat, NEW s \in Nat \ {0}
    PROVE  n \div s \in Nat /\ (n \div s) * s <= n
  <1>1. n = s * (n \div s) + (n % s) /\ n % s \in 0..(s - 1)
    OBVIOUS
  <1>2. n \div s \in Nat
    OBVIOUS
  <1> DEFINE q == n \div s
  <1> HIDE DEF q
  <1>3. s * q = q * s /\ q * s \in Int
    BY <1>2 DEF q
  <1> QED  BY <1>1, <1>2, <1>3 DEF q

\* dmaCopyImportSource(): what is imported fits into the file, padding included.
LEMMA RowsFit ==
    ASSUME NEW size \in Nat, NEW padding \in Nat, gpuRows(size, padding) # 0
    PROVE  /\ gpuRows(size, padding) \in 1..Height
           /\ ImageSize(gpuRows(size, padding)) + padding <= size
  <1>a. Width \in Nat \ {0} /\ Height \in Nat \ {0} /\ Stride \in Nat \ {0} /\ Offset \in Nat
    BY ImageAssumption
  <1> DEFINE rest == size - padding - Offset - Width
             fitting == rest \div Stride + 1
  <1>1. \/ gpuRows(size, padding) = Height /\ ImageSize(Height) + padding <= size
        \/ padding + Offset + Width < size /\ fitting < Height /\ gpuRows(size, padding) = fitting
    <2>1. padding + Offset + Width \in Int /\ fitting \in Int
      BY <1>a
    <2> QED  BY <1>a, <2>1 DEF gpuRows
  <1>2. CASE gpuRows(size, padding) = Height /\ ImageSize(Height) + padding <= size
    BY <1>2, <1>a
  <1>3. CASE padding + Offset + Width < size /\ fitting < Height /\ gpuRows(size, padding) = fitting
    <2>1. rest \in Nat
      BY <1>3, <1>a
    <2>2. rest \div Stride \in Nat /\ (rest \div Stride) * Stride <= rest
      BY <1>a, <2>1, Quotient
    <2> DEFINE q == rest \div Stride
    <2>3. fitting \in 1..Height
      BY <1>3, <1>a, <2>2
    <2>4. fitting - 1 = q
      BY <2>2
    <2>5. ImageSize(fitting) = Offset + q * Stride + Width
      BY <2>4 DEF ImageSize
    <2>6. q * Stride \in Int
      BY <1>a, <2>2
    <2>7. rest = size - padding - Offset - Width
      OBVIOUS
    <2> HIDE DEF q, fitting, rest
    <2>8. q * Stride <= rest
      BY <2>2 DEF q
    <2>9. ImageSize(fitting) + padding <= size
      BY <1>a, <2>5, <2>6, <2>7, <2>8, <2>1
    <2> QED  BY <1>3, <2>3, <2>9
  <1> QED  BY <1>1, <1>2, <1>3

\* dmaCopyRect(): every pixel that is delivered comes from the place that was asked
\* for, and from inside the buffer that is read there.
LEMMA DeliveredRight ==
    ASSUME NEW rows \in 1..Height, NEW sx \in Nat, NEW sy \in Nat, NEW width \in Nat, NEW height \in Nat,
           sx + width <= Width, sy + height <= Height
    PROVE  {m \in Delivered(rows, sx, sy, width, height) : m.got # m.want} = {}
  <1>a. Width \in Nat \ {0} /\ Height \in Nat \ {0} /\ Stride \in Nat /\ Offset \in Nat
    BY ImageAssumption
  <1> DEFINE gpuHeight == Split(rows, sy, height)
             staged == Staged(rows, sy, height)
  <1>1. ASSUME NEW x \in 0..(width - 1), NEW y \in 0..(height - 1)
        PROVE  Offset + (sy + y) * Stride + sx + x
                  = IF y < gpuHeight THEN recordCopy(rows, sx, sy, x, y, FALSE, staged)
                    ELSE recordCopy(rows, sx, sy + gpuHeight, x, y - gpuHeight, TRUE, staged)
    <2> DEFINE line == sy + y
               col == sx + x
    <2>1. line \in Nat /\ line <= Height - 1 /\ col \in Nat /\ col <= Width - 1
      BY <1>a, <1>1
    <2>2. gpuHeight \in Nat /\ (y < gpuHeight <=> line < rows)
      BY <1>a, <1>1 DEF Split
    <2>3. CASE y < gpuHeight
      <3> DEFINE at == Offset + (sy - 0) * Stride + sx + y * Stride + x
                 top == line * Stride
                 end == (rows - 1) * Stride
      <3>1. line <= rows - 1
        BY <1>a, <2>1, <2>2, <2>3
      <3>2. top \in Nat /\ end \in Int /\ top <= end
        <4>1. top <= end /\ top \in Int /\ end \in Int
          BY <1>a, <2>1, <3>1, Multiples
        <4>2. 0 * Stride <= top
          BY <1>a, <2>1, Multiples
        <4> QED  BY <1>a, <4>1, <4>2
      <3>3. at = Offset + top + col
        BY <1>a, <1>1
      <3>4. ImageSize(rows) = Offset + end + Width
        BY DEF ImageSize
      <3>5. recordCopy(rows, sx, sy, x, y, FALSE, staged)
               = IF at \in 0..(ImageSize(rows) - 1) THEN at ELSE -1
        BY DEF recordCopy
      <3>6. Offset + (sy + y) * Stride + sx + x = Offset + top + col
        BY <1>a, <1>1
      <3> HIDE DEF at, top, end, col
      <3>7. at \in 0..(ImageSize(rows) - 1)
        BY <1>a, <2>1, <3>2, <3>3, <3>4
      <3> QED  BY <2>3, <3>3, <3>5, <3>6, <3>7
    <2>4. CASE ~(y < gpuHeight)
      <3> DEFINE at == 0 + ((sy + gpuHeight) - rows) * Stride + sx + (y - gpuHeight) * Stride + x
                 top == (line - rows) * Stride
                 end == (Height - rows - 1) * Stride
      <3>1. line >= rows /\ line - rows \in Nat /\ line - rows <= Height - rows - 1 /\ staged
        BY <1>a, <1>1, <2>1, <2>2, <2>4 DEF Staged
      <3>2. top \in Nat /\ end \in Int /\ top <= end
        <4>1. top <= end /\ top \in Int /\ end \in Int
          BY <1>a, <2>1, <3>1, Multiples
        <4>2. 0 * Stride <= top
          BY <1>a, <2>1, <3>1, Multiples
        <4> QED  BY <1>a, <4>1, <4>2
      <3>3. at = top + col
        BY <1>a, <1>1, <2>2
      <3>4. tailSize(rows) = end + Width
        BY DEF tailSize
      <3>5. recordCopy(rows, sx, sy + gpuHeight, x, y - gpuHeight, TRUE, staged)
               = IF at \in 0..(tailSize(rows) - 1) THEN Offset + rows * Stride + at ELSE -1
        <4>1. staged = TRUE
          BY <3>1
        <4>2. recordCopy(rows, sx, sy + gpuHeight, x, y - gpuHeight, TRUE, TRUE)
                 = IF at \in 0..(tailSize(rows) - 1) THEN Offset + rows * Stride + at ELSE -1
          BY DEF recordCopy
        <4> HIDE DEF staged, gpuHeight, at
        <4> QED  BY ONLY <4>1, <4>2
      <3>6. Offset + (sy + y) * Stride + sx + x = Offset + rows * Stride + top + col
        BY <1>a, <1>1
      <3>7. rows * Stride \in Int
        BY <1>a
      <3> HIDE DEF at, top, end, col
      <3>8. at \in 0..(tailSize(rows) - 1)
        BY <1>a, <2>1, <3>2, <3>3, <3>4
      <3>9. Offset + rows * Stride + at = Offset + rows * Stride + top + col
        BY <1>a, <2>1, <3>2, <3>3, <3>7
      <3> QED  BY <2>4, <3>5, <3>6, <3>8, <3>9
    <2> QED  BY <2>3, <2>4
  <1> HIDE DEF gpuHeight, staged
  <1> DEFINE Got(x, y) == IF y < gpuHeight THEN recordCopy(rows, sx, sy, x, y, FALSE, staged)
                          ELSE recordCopy(rows, sx, sy + gpuHeight, x, y - gpuHeight, TRUE, staged)
  <1>3. Delivered(rows, sx, sy, width, height)
           = {[want |-> Offset + (sy + y) * Stride + sx + x, got |-> Got(x, y)] :
              x \in 0..(width - 1), y \in 0..(height - 1)}
    BY DEF Delivered, gpuHeight, staged
  <1>4. \A x \in 0..(width - 1), y \in 0..(height - 1) : Offset + (sy + y) * Stride + sx + x = Got(x, y)
    BY <1>1
  <1> HIDE DEF Got
  <1>2. ASSUME NEW m \in Delivered(rows, sx, sy, width, height) PROVE m.got = m.want
    <2>1. PICK x \in 0..(width - 1), y \in 0..(height - 1) :
             m = [want |-> Offset + (sy + y) * Stride + sx + x, got |-> Got(x, y)]
      BY <1>2, <1>3
    <2> QED  BY <1>4, <2>1
  <1> QED  BY <1>2

-----------------------------------------------------------------------------
\* References to contexts.

SourcesOf(c) == {p \in Pixmaps : sources[p].context = c}
DestinationsOf(c) == {p \in Pixmaps : destinations[p].context = c}

References ==
    \A c \in Contexts :
        contexts[c].refs = Cardinality(SourcesOf(c)) + Cardinality(DestinationsOf(c)) + Bit(c, {dmaCopy})

\* ResourcesAreOwned, cut into the counts of live resources and of references.
LEMMA OwnedIsBoth ==
    /\ ResourcesAreOwned => References
    /\ live' \in [Resources -> Int] /\ (\A r \in Resources : live'[r] = Owners(r)') /\ References'
          => ResourcesAreOwned'
  <1>1. ResourcesAreOwned => References
    BY DEF ResourcesAreOwned, References, SourcesOf, DestinationsOf, Bit
  <1>2. live' \in [Resources -> Int] => DOMAIN live' = Resources
    OBVIOUS
  <1>3. References' => \A c \in Contexts :
          contexts'[c].refs = Cardinality({p \in Pixmaps : sources'[p].context = c})
                              + Cardinality({p \in Pixmaps : destinations'[p].context = c})
                              + (IF dmaCopy' = c THEN 1 ELSE 0)
    BY DEF References, SourcesOf, DestinationsOf, Bit
  <1> QED  BY <1>1, <1>2, <1>3 DEF ResourcesAreOwned

\* There are finitely many pixmaps and contexts.
LEMMA Finite == IsFiniteSet(Pixmaps) /\ IsFiniteSet(Contexts)
  BY PixmapsAssumption, ImageAssumption, FS_Interval DEF Contexts

\* What is counted is finite.
LEMMA CountsAreNatural ==
    /\ \A r : Cardinality(PixmapOwners(r)) \in Nat /\ Cardinality(PixmapOwners(r)') \in Nat
    /\ \A r : Cardinality(ContextOwners(r)) \in Nat /\ Cardinality(ContextOwners(r)') \in Nat
    /\ \A c : Cardinality(SourcesOf(c)) \in Nat /\ Cardinality(DestinationsOf(c)) \in Nat
  <1>1. \A r : IsFiniteSet(PixmapOwners(r)) /\ IsFiniteSet(PixmapOwners(r)')
    BY Finite, FS_Subset DEF PixmapOwners
  <1>2. \A r : IsFiniteSet(ContextOwners(r)) /\ IsFiniteSet(ContextOwners(r)')
    BY Finite, FS_Subset DEF ContextOwners
  <1>3. \A c : IsFiniteSet(SourcesOf(c)) /\ IsFiniteSet(DestinationsOf(c))
    BY Finite, FS_Subset DEF SourcesOf, DestinationsOf
  <1> QED  BY <1>1, <1>2, <1>3, FS_CardinalityType

\* One pixmap is imported or forgotten.
LEMMA SourceMoves ==
    ASSUME NEW p \in Pixmaps, \A q \in Pixmaps : q # p => sources'[q] = sources[q], NEW c
    PROVE  /\ Cardinality(SourcesOf(c)) \in Nat /\ Cardinality(SourcesOf(c)') \in Nat
           /\ Cardinality(SourcesOf(c)')
                 = Cardinality(SourcesOf(c)) + Bit(c, {sources'[p].context}) - Bit(c, {sources[p].context})
  <1> DEFINE S == SourcesOf(c)
             T == SourcesOf(c)'
  <1>1. S \in SUBSET Pixmaps /\ T \in SUBSET Pixmaps /\ \A q \in Pixmaps : q # p => (q \in S <=> q \in T)
    BY DEF SourcesOf
  <1>2. Bit(p, S) = Bit(c, {sources[p].context}) /\ Bit(p, T) = Bit(c, {sources'[p].context})
    BY DEF SourcesOf, Bit
  <1> HIDE DEF S, T
  <1>3. /\ Cardinality(S) \in Nat /\ Cardinality(T) \in Nat
        /\ Cardinality(T) = Cardinality(S) + Bit(p, T) - Bit(p, S)
    BY ONLY <1>1, Finite, CountOne
  <1> QED  BY <1>2, <1>3 DEF S, T

\* One destination moves from one context to another.
LEMMA DestinationMoves ==
    ASSUME NEW p \in Pixmaps, \A q \in Pixmaps : q # p => destinations'[q] = destinations[q], NEW c
    PROVE  /\ Cardinality(DestinationsOf(c)) \in Nat /\ Cardinality(DestinationsOf(c)') \in Nat
           /\ Cardinality(DestinationsOf(c)')
                 = Cardinality(DestinationsOf(c)) + Bit(c, {destinations'[p].context})
                      - Bit(c, {destinations[p].context})
  <1> DEFINE S == DestinationsOf(c)
             T == DestinationsOf(c)'
  <1>1. S \in SUBSET Pixmaps /\ T \in SUBSET Pixmaps /\ \A q \in Pixmaps : q # p => (q \in S <=> q \in T)
    BY DEF DestinationsOf
  <1>2. Bit(p, S) = Bit(c, {destinations[p].context}) /\ Bit(p, T) = Bit(c, {destinations'[p].context})
    BY DEF DestinationsOf, Bit
  <1> HIDE DEF S, T
  <1>3. /\ Cardinality(S) \in Nat /\ Cardinality(T) \in Nat
        /\ Cardinality(T) = Cardinality(S) + Bit(p, T) - Bit(p, S)
    BY ONLY <1>1, Finite, CountOne
  <1> QED  BY <1>2, <1>3 DEF S, T

\* One context gets its first reference or loses its last.
LEMMA ContextMoves ==
    ASSUME NEW k, \A c \in Contexts : c # k => contexts'[c].refs = contexts[c].refs, NEW r
    PROVE  Cardinality(ContextOwners(r)')
              = Cardinality(ContextOwners(r)) + Bit(k, ContextOwners(r)') - Bit(k, ContextOwners(r))
  <1> DEFINE S == ContextOwners(r)
             T == ContextOwners(r)'
  <1>1. S \in SUBSET Contexts /\ T \in SUBSET Contexts /\ \A q \in Contexts : q # k => (q \in S <=> q \in T)
    BY DEF ContextOwners
  <1> HIDE DEF S, T
  <1>2. Cardinality(T) = Cardinality(S) + Bit(k, T) - Bit(k, S)
    BY ONLY <1>1, Finite, CountOne
  <1> QED  BY <1>2 DEF S, T

\* The holdings of one pixmap change.
LEMMA HoldingsMove ==
    ASSUME NEW p \in Pixmaps, ImportsAreSound, ImportsAreSound',
           \A q \in Pixmaps : q # p => Storage(q)' = Storage(q) /\ ImportsOf(q)' = ImportsOf(q), NEW r
    PROVE  Cardinality(PixmapOwners(r)')
              = Cardinality(PixmapOwners(r)) + Bit(r, (Storage(p) \cup ImportsOf(p))')
                   - Bit(r, Storage(p) \cup ImportsOf(p))
  <1> DEFINE S == PixmapOwners(r)
             T == PixmapOwners(r)'
  <1>1. S \in SUBSET Pixmaps /\ T \in SUBSET Pixmaps
    BY DEF PixmapOwners
  <1>2. \A q \in Pixmaps : q # p => (q \in S <=> q \in T)
    BY HoldingsFacts, HoldingsNext
  <1>3. Bit(p, S) = Bit(r, Storage(p) \cup ImportsOf(p)) /\ Bit(p, T) = Bit(r, (Storage(p) \cup ImportsOf(p))')
    BY HoldingsFacts, HoldingsNext DEF Bit
  <1> HIDE DEF S, T
  <1>4. Cardinality(T) = Cardinality(S) + Bit(p, T) - Bit(p, S)
    BY ONLY <1>1, <1>2, Finite, CountOne
  <1> QED  BY <1>3, <1>4 DEF S, T

\* What is acquired and given back is what the owners gain and lose.
LEMMA OwnedAgain ==
    ASSUME DmaInv, peer' = peer, live' \in [Resources -> Int], References',
           \A r \in Resources :
               live'[r] = live[r] + (Cardinality(PixmapOwners(r)') - Cardinality(PixmapOwners(r)))
                                  + (Cardinality(ContextOwners(r)') - Cardinality(ContextOwners(r)))
    PROVE  ResourcesAreOwned'
  <1>1. live \in [Resources -> Int] /\ \A r \in Resources : live[r] = Owners(r)
    BY DEF DmaInv, StorageTypes, ResourcesAreOwned
  <1>2. ASSUME NEW r \in Resources PROVE live'[r] = Owners(r)'
    <2>1. Owners(r)' = Cardinality(PixmapOwners(r)') + Bit(r, Owned(peer)) + Cardinality(ContextOwners(r)')
      BY OwnersNext
    <2>2. live[r] = Cardinality(PixmapOwners(r)) + Bit(r, Owned(peer)) + Cardinality(ContextOwners(r))
      BY <1>1, OwnersFacts
    <2>3. Bit(r, Owned(peer)) \in Int
      BY DEF Bit
    <2> QED  BY <2>1, <2>2, <2>3, CountsAreNatural
  <1> QED  BY <1>2, OwnedIsBoth

\* No owner changes.
LEMMA OwnersStay ==
    ASSUME DmaInv, ImportsAreSound', UNCHANGED <<peer, dmaCopy>>, live' \in [Resources -> Int],
           \A r \in Resources : live'[r] = live[r],
           \A p \in Pixmaps : /\ Storage(p)' = Storage(p) /\ ImportsOf(p)' = ImportsOf(p)
                              /\ sources'[p].context = sources[p].context
                              /\ destinations'[p].context = destinations[p].context,
           \A c \in Contexts : contexts'[c].refs = contexts[c].refs
    PROVE  ResourcesAreOwned'
  <1>1. ImportsAreSound /\ References /\ live \in [Resources -> Int]
    BY OwnedIsBoth DEF DmaInv, StorageTypes
  <1>2. ASSUME NEW r PROVE PixmapOwners(r)' = PixmapOwners(r)
    <2> DEFINE S == PixmapOwners(r)
               T == PixmapOwners(r)'
    <2>1. \A p \in Pixmaps : p \in T <=> p \in S
      BY <1>1, HoldingsFacts, HoldingsNext
    <2>2. S \subseteq Pixmaps /\ T \subseteq Pixmaps
      BY DEF PixmapOwners
    <2> HIDE DEF S, T
    <2>3. S = T
      BY ONLY <2>1, <2>2
    <2> QED  BY <2>3 DEF S, T
  <1>3. \A r : ContextOwners(r)' = ContextOwners(r)
    BY DEF ContextOwners
  <1>4. \A c : SourcesOf(c)' = SourcesOf(c) /\ DestinationsOf(c)' = DestinationsOf(c)
    BY DEF SourcesOf, DestinationsOf
  <1>5. References'
    <2>1. \A c : Bit(c, {dmaCopy}) = Bit(c, {dmaCopy'})
      BY DEF Bit
    <2>2. \A c \in Contexts :
             contexts'[c].refs = Cardinality(SourcesOf(c)') + Cardinality(DestinationsOf(c)') + Bit(c, {dmaCopy'})
      BY <1>1, <1>4, <2>1 DEF References
    <2> QED  BY <2>2 DEF References
  <1>6. \A r \in Resources :
             live'[r] = live[r] + (Cardinality(PixmapOwners(r)') - Cardinality(PixmapOwners(r)))
                                + (Cardinality(ContextOwners(r)') - Cardinality(ContextOwners(r)))
    BY <1>1, <1>2, <1>3, CountsAreNatural
  <1> QED  BY <1>5, <1>6, OwnedAgain

-----------------------------------------------------------------------------
\* The copy's steps keep the invariant.

\* A copy begins.
LEMMA BeginKeeps ==
    ASSUME DmaInv, NEW s \in Pixmaps, NEW d \in Pixmaps, Begin(s, d)
    PROVE  DmaInv'
  <1>1. /\ UNCHANGED <<legacy, pix, live, peer, screen, root, dead>>
        /\ UNCHANGED <<contexts, dmaCopy, attempted, sources, destinations, inFlight, misplaced>>
        /\ copying' = [step |-> "context", src |-> s, dst |-> d, wasLocked |-> FALSE]
        /\ Quiet /\ s # d /\ Exists(s) /\ Exists(d)
        /\ pix[s].imported /\ pix[s].type = "fd" /\ pix[d].type = "hw"
    BY DEF Begin, storageVars
  <1>2. /\ copying'.step = "context" /\ copying'.src = s /\ copying'.dst = d
        /\ copying' \in [step : CopySteps, src : Pixmaps \cup {NoPixmap},
                         dst : Pixmaps \cup {NoPixmap}, wasLocked : BOOLEAN]
    BY <1>1 DEF CopySteps
  <1>3. StorageTypes' /\ BuffersAreSound' /\ ScreenExists' /\ ImportsAreSound' /\ misplaced' = {}
    BY <1>1 DEF DmaInv, StorageTypes, BuffersAreSound, ScreenExists, ImportsAreSound, Exists
  <1>4. CopyIsPrepared'
    BY <1>1, <1>2 DEF CopyIsPrepared, Exists, Quiet
  <1>5. CpuStaysAway'
    BY <1>1, <1>2 DEF DmaInv, CpuStaysAway
  <1>6. ResourcesAreOwned'
    BY <1>1 DEF DmaInv, ResourcesAreOwned, Owners, Holdings, Exists
  <1> QED  BY <1>3, <1>4, <1>5, <1>6 DEF DmaInv

\* Where a copy stands while its context and its pixmaps are prepared.
Prepared(step) ==
    /\ step \in {"source", "destination", "map", "copy"} => dmaCopy' # 0
    /\ step \in {"destination", "map", "copy"} => sources'[copying.src].state = "imported"
    /\ step \in {"map", "copy"} => destinations'[copying.dst].state = "imported"

\* A copy goes on, prepared for the next step, or returns.
LEMMA PreparationKeeps ==
    ASSUME DmaInv, copying.step # "none", UNCHANGED <<pix, dead, inFlight, misplaced>>,
           \/ Return
           \/ \E step \in {"source", "destination", "map"} : Goto(step) /\ Prepared(step)
    PROVE  CopyIsPrepared' /\ CpuStaysAway'
  <1>1. CASE Return
    <2>1. copying' = NoCopy /\ copying'.step = "none"
      BY <1>1 DEF Return, NoCopy
    <2>2. NoCopy \in [step : CopySteps, src : Pixmaps \cup {NoPixmap},
                      dst : Pixmaps \cup {NoPixmap}, wasLocked : BOOLEAN]
      BY DEF NoCopy, CopySteps
    <2> QED  BY <2>1, <2>2 DEF DmaInv, CopyIsPrepared, CpuStaysAway
  <1>2. ASSUME NEW step \in {"source", "destination", "map"}, Goto(step), Prepared(step)
        PROVE  CopyIsPrepared' /\ CpuStaysAway'
    <2>1. /\ copying \in [step : CopySteps, src : Pixmaps \cup {NoPixmap},
                          dst : Pixmaps \cup {NoPixmap}, wasLocked : BOOLEAN]
          /\ copying' = [copying EXCEPT !.step = step]
      BY <1>2 DEF DmaInv, CopyIsPrepared, Goto
    <2>2. /\ copying' \in [step : CopySteps, src : Pixmaps \cup {NoPixmap},
                           dst : Pixmaps \cup {NoPixmap}, wasLocked : BOOLEAN]
          /\ copying'.step = step /\ copying'.src = copying.src /\ copying'.dst = copying.dst
      BY <2>1 DEF CopySteps
    <2>3. /\ copying.src \in Pixmaps /\ copying.dst \in Pixmaps /\ copying.src # copying.dst
          /\ Exists(copying.src) /\ pix[copying.src].type = "fd" /\ pix[copying.src].imported
          /\ Exists(copying.dst) /\ pix[copying.dst].type = "hw"
          /\ \A p \in Pixmaps : Exists(p) => ~pix[p].access
      BY DEF DmaInv, CopyIsPrepared
    <2>4. CopyIsPrepared'
      BY <1>2, <2>2, <2>3 DEF CopyIsPrepared, Prepared, Exists
    <2>5. CpuStaysAway'
      BY <2>2 DEF DmaInv, CpuStaysAway
    <2> QED  BY <2>4, <2>5
  <1> QED  BY <1>1, <1>2

\* The copy under way.
LEMMA CopyFacts ==
    ASSUME DmaInv, copying.step # "none"
    PROVE  /\ copying.src \in Pixmaps /\ copying.dst \in Pixmaps /\ copying.src # copying.dst
           /\ Exists(copying.src) /\ pix[copying.src].type = "fd" /\ pix[copying.src].imported
           /\ Exists(copying.dst) /\ pix[copying.dst].type = "hw"
           /\ Sound(pix[copying.dst]) /\ ~pix[copying.dst].access
           /\ \A p \in Pixmaps : Exists(p) => ~pix[p].access
           /\ copying.step \in {"source", "destination", "map", "copy"} => dmaCopy \in Contexts
           /\ copying.step \in {"destination", "map", "copy"} => sources[copying.src].state = "imported"
           /\ copying.step \in {"map", "copy"} => destinations[copying.dst].state = "imported"
  <1>1. dmaCopy # 0 => dmaCopy \in Contexts
    BY ImageAssumption DEF DmaInv, StorageTypes, Contexts
  <1> QED  BY <1>1 DEF DmaInv, CopyIsPrepared, BuffersAreSound

\* dmaCopyCreate(): a context that fails half-way is dismantled as far as it was made.
LEMMA MakeContextKeeps ==
    ASSUME DmaInv, MakeContext
    PROVE  DmaInv'
  <1>1. /\ UNCHANGED <<legacy, pix, peer, screen, root, dead, sources, destinations, inFlight, misplaced>>
        /\ copying.step = "context"
    BY DEF MakeContext
  <1>2. copying.step # "none"
    BY <1>1
  <1>3. BuffersAreSound' /\ ImportsAreSound' /\ misplaced' = {}
    BY <1>1 DEF DmaInv, BuffersAreSound, ImportsAreSound, Exists
  <1>o. /\ \A p \in Pixmaps : Storage(p)' = Storage(p) /\ ImportsOf(p)' = ImportsOf(p)
        /\ \A r : PixmapOwners(r)' = PixmapOwners(r)
    BY <1>1 DEF Storage, ImportsOf, PixmapOwners, Holdings, Exists
  <1>4. ASSUME UNCHANGED <<dmaCopy, contexts>>, attempted' = TRUE, UNCHANGED live \/ (\E g : Trade(g, g)),
               Return \/ (Goto("source") /\ Prepared("source"))
        PROVE  DmaInv'
    <2>1. /\ live' \in [Resources -> Int] /\ \A r \in Resources : live'[r] = live[r]
          /\ live \in [Resources -> Int]
      <3>1. live \in [Resources -> Int]
        BY DEF DmaInv, StorageTypes
      <3>2. CASE UNCHANGED live
        BY <3>1, <3>2
      <3>3. ASSUME NEW g, Trade(g, g)
            PROVE  live' \in [Resources -> Int] /\ \A r \in Resources : live'[r] = live[r]
        BY <3>1, <3>3, TradeFacts DEF Bit
      <3> QED  BY <1>4, <3>1, <3>2, <3>3
    <2>2. ResourcesAreOwned'
      BY <1>1, <1>3, <1>4, <1>o, <2>1, OwnersStay
    <2>3. StorageTypes' /\ ScreenExists'
      BY <1>1, <1>4, <2>1 DEF DmaInv, StorageTypes, ScreenExists, Exists, Resources, SourceOwns
    <2> QED  BY <1>1, <1>2, <1>3, <1>4, <2>2, <2>3, PreparationKeeps DEF DmaInv
  <1>5. ASSUME ~attempted, attempted' = TRUE, NEW c \in Contexts, contexts[c].refs = 0,
               Trade(ContextResources, {}), Goto("source"), dmaCopy' = c,
               contexts' = [contexts EXCEPT ![c] = [refs |-> 1, failed |-> FALSE]]
        PROVE  DmaInv'
    <2>1. /\ dmaCopy = 0 /\ contexts \in [Contexts -> [refs : Nat, failed : BOOLEAN]]
          /\ live \in [Resources -> Int] /\ References
      BY <1>5, OwnedIsBoth DEF DmaInv, StorageTypes
    <2>2. /\ live' \in [Resources -> Int]
          /\ \A r \in Resources : live'[r] = live[r] + Bit(r, ContextResources) - Bit(r, {})
      BY <1>5, TradeFacts
    <2>3. /\ contexts' \in [Contexts -> [refs : Nat, failed : BOOLEAN]]
          /\ contexts'[c].refs = 1
          /\ \A e \in Contexts : e # c => contexts'[e].refs = contexts[e].refs
      BY <1>5, <2>1
    <2>4. c \in 1..MaxContexts /\ c # 0
      BY ImageAssumption DEF Contexts
    <2>5. References'
      <3>1. \A e : SourcesOf(e)' = SourcesOf(e) /\ DestinationsOf(e)' = DestinationsOf(e)
        BY <1>1 DEF SourcesOf, DestinationsOf
      <3>2. ASSUME NEW e \in Contexts
            PROVE  contexts'[e].refs = Cardinality(SourcesOf(e)) + Cardinality(DestinationsOf(e)) + Bit(e, {c})
        <4>1. /\ contexts[e].refs = Cardinality(SourcesOf(e)) + Cardinality(DestinationsOf(e)) + Bit(e, {0})
              /\ Cardinality(SourcesOf(e)) \in Nat /\ Cardinality(DestinationsOf(e)) \in Nat
          BY <2>1, CountsAreNatural DEF References
        <4>2. Bit(e, {0}) = 0
          BY ImageAssumption DEF Contexts, Bit
        <4> QED  BY <1>5, <2>3, <4>1, <4>2 DEF Bit
      <3> QED  BY <1>5, <3>1, <3>2 DEF References
    <2>6. ASSUME NEW r \in Resources
          PROVE  live'[r] = live[r] + (Cardinality(PixmapOwners(r)') - Cardinality(PixmapOwners(r)))
                                    + (Cardinality(ContextOwners(r)') - Cardinality(ContextOwners(r)))
      <3>1. Cardinality(ContextOwners(r)')
               = Cardinality(ContextOwners(r)) + Bit(c, ContextOwners(r)') - Bit(c, ContextOwners(r))
        BY <2>3, ContextMoves
      <3>2. Bit(c, ContextOwners(r)') = Bit(r, ContextResources) /\ Bit(c, ContextOwners(r)) = 0
        BY <1>5, <2>3 DEF ContextOwners, Bit
      <3>3. Bit(r, ContextResources) \in Int /\ Bit(r, {}) = 0
        BY DEF Bit
      <3>4. PixmapOwners(r)' = PixmapOwners(r)
        BY <1>o
      <3> QED  BY <2>1, <2>2, <3>1, <3>2, <3>3, <3>4, CountsAreNatural
    <2>7. ResourcesAreOwned'
      BY <1>1, <2>2, <2>5, <2>6, OwnedAgain
    <2>8. StorageTypes'
      BY <1>1, <1>5, <2>2, <2>3, <2>4 DEF DmaInv, StorageTypes, Resources, SourceOwns
    <2>9. ScreenExists'
      BY <1>1, <1>5, <2>1 DEF DmaInv, ScreenExists, Exists
    <2>10. Prepared("source")
      BY <1>5, <2>4 DEF Prepared
    <2> QED  BY <1>1, <1>2, <1>3, <1>5, <2>7, <2>8, <2>9, <2>10, PreparationKeeps DEF DmaInv
  <1>6. CASE attempted
    <2>1. /\ UNCHANGED <<live, dmaCopy, contexts, attempted>>
          /\ (Goto("source") /\ dmaCopyReady(dmaCopy)) \/ Return
      BY <1>6 DEF MakeContext
    <2>2. Goto("source") /\ dmaCopyReady(dmaCopy) => Prepared("source")
      BY <2>1 DEF dmaCopyReady, Prepared
    <2> QED  BY <1>4, <1>6, <2>1, <2>2 DEF DmaInv, StorageTypes
  <1>7. CASE ~attempted
    <2>1. PICK made \in CreationPoints, c \in Contexts :
             /\ attempted' = TRUE /\ contexts[c].refs = 0
             /\ IF made = ContextResources
                THEN /\ Trade(made, {}) /\ Goto("source") /\ dmaCopy' = c
                     /\ contexts' = [contexts EXCEPT ![c] = [refs |-> 1, failed |-> FALSE]]
                ELSE /\ Trade(made, Dismantled(made)) /\ Return
                     /\ UNCHANGED <<dmaCopy, contexts>>
      BY <1>7 DEF MakeContext
    <2>2. CASE made = ContextResources
      BY <1>5, <1>7, <2>1, <2>2
    <2>3. CASE made # ContextResources
      <3>1. Dismantled(made) = made
        BY <2>1 DEF Dismantled, CreationPoints, ContextResources
      <3> QED  BY <1>4, <2>1, <2>3, <3>1
    <2> QED  BY <2>2, <2>3
  <1> QED  BY <1>6, <1>7 DEF DmaInv, StorageTypes

\* What a failed import releases is what it holds.
LEMMA FreedWhole ==
    /\ \A rows \in 1..Height : \A holds \in {{}} \cup SourcePoints(rows) : Freed(holds) = holds
    /\ \A holds \in {{}} \cup DestinationPoints : Freed(holds) = holds
  <1>1. ASSUME NEW rows \in 1..Height, NEW holds \in {{}} \cup SourcePoints(rows)
        PROVE  Freed(holds) = holds
    <2>1. holds \subseteq SourceOwns(rows)
      BY <1>1 DEF SourcePoints, SourceOwns
    <2>2. SourceOwns(rows) \subseteq SourceOwns(1)
      BY ImageAssumption DEF SourceOwns
    <2> QED  BY <2>1, <2>2 DEF Freed
  <1>2. ASSUME NEW holds \in {{}} \cup DestinationPoints
        PROVE  Freed(holds) = holds
    <2>1. holds \subseteq DestinationOwns
      BY <1>2 DEF DestinationPoints, DestinationOwns
    <2> QED  BY <2>1 DEF Freed
  <1> QED  BY <1>1, <1>2

\* An import that is not made, or was tried before.
LEMMA NoImportKeeps ==
    ASSUME DmaInv, copying.step # "none",
           UNCHANGED <<legacy, pix, peer, screen, root, dead, contexts, dmaCopy, attempted, inFlight, misplaced>>,
           UNCHANGED live \/ (\E g : Trade(g, g)),
           sources' \in [Pixmaps -> Imports], destinations' \in [Pixmaps -> Imports],
           \A p \in Pixmaps : sources'[p] = sources[p] \/ (sources[p].state # "imported" /\ sources'[p] = Refused),
           \A p \in Pixmaps : \/ destinations'[p] = destinations[p]
                              \/ destinations[p].state # "imported" /\ destinations'[p] = Refused,
           \/ Return
           \/ \E step \in {"source", "destination", "map"} : Goto(step) /\ Prepared(step)
    PROVE  DmaInv'
  <1>1. Refused.state = "refused" /\ Refused.context = 0 /\ Refused.fits = TRUE
    BY DEF Refused, Untried
  <1>2. ImportsAreSound
    BY DEF DmaInv
  <1>3. \A p \in Pixmaps : /\ sources'[p].context = sources[p].context
                           /\ destinations'[p].context = destinations[p].context
                           /\ (sources'[p].state = "imported") = (sources[p].state = "imported")
                           /\ (destinations'[p].state = "imported") = (destinations[p].state = "imported")
                           /\ sources'[p].fits
                           /\ sources[p].state = "imported" => sources'[p].rows = sources[p].rows
    BY <1>1, <1>2 DEF ImportsAreSound
  <1>4. ImportsAreSound'
    BY <1>2, <1>3 DEF ImportsAreSound, Exists
  <1>5. BuffersAreSound' /\ misplaced' = {}
    BY DEF DmaInv, BuffersAreSound, Exists
  <1>6. \A p \in Pixmaps : Storage(p)' = Storage(p) /\ ImportsOf(p)' = ImportsOf(p)
    BY <1>3 DEF Storage, ImportsOf, Exists
  <1>7. live' \in [Resources -> Int] /\ \A r \in Resources : live'[r] = live[r]
    <2>1. live \in [Resources -> Int]
      BY DEF DmaInv, StorageTypes
    <2>2. CASE UNCHANGED live
      BY <2>1, <2>2
    <2>3. ASSUME NEW g, Trade(g, g)
          PROVE  live' \in [Resources -> Int] /\ \A r \in Resources : live'[r] = live[r]
      BY <2>1, <2>3, TradeFacts DEF Bit
    <2> QED  BY <2>1, <2>2, <2>3
  <1>8. ResourcesAreOwned'
    BY <1>3, <1>4, <1>6, <1>7, OwnersStay
  <1>9. StorageTypes'
    BY <1>7 DEF DmaInv, StorageTypes, Resources, SourceOwns
  <1>10. ScreenExists'
    BY <1>3 DEF DmaInv, ScreenExists, Exists
  <1> QED  BY <1>4, <1>5, <1>8, <1>9, <1>10, PreparationKeeps DEF DmaInv

\* A pixmap that is imported: what its import owns, and its reference to the context.
LEMMA ImportKeeps ==
    ASSUME DmaInv, copying.step # "none", dmaCopy \in Contexts, NEW p \in Pixmaps, NEW owns,
           UNCHANGED <<legacy, pix, peer, screen, root, dead, dmaCopy, attempted, inFlight, misplaced>>,
           Trade(owns, {}), contexts' = [contexts EXCEPT ![dmaCopy].refs = @ + 1],
           ImportsAreSound', \A q \in Pixmaps : q # p => sources'[q] = sources[q] /\ destinations'[q] = destinations[q],
           ImportsOf(p) = {}, ImportsOf(p)' = owns,
           \/ /\ sources[p].context = 0 /\ sources'[p].context = dmaCopy
              /\ destinations'[p].context = destinations[p].context
           \/ /\ destinations[p].context = 0 /\ destinations'[p].context = dmaCopy
              /\ sources'[p].context = sources[p].context,
           \E step \in {"source", "destination", "map"} : Goto(step) /\ Prepared(step)
    PROVE  DmaInv'
  <1>1. /\ contexts \in [Contexts -> [refs : Nat, failed : BOOLEAN]] /\ References /\ ImportsAreSound
        /\ live \in [Resources -> Int]
    BY OwnedIsBoth DEF DmaInv, StorageTypes
  <1>2. /\ contexts' \in [Contexts -> [refs : Nat, failed : BOOLEAN]]
        /\ \A c \in Contexts : contexts'[c].refs = contexts[c].refs + Bit(c, {dmaCopy})
    BY <1>1 DEF Bit
  <1>3. \A c : Bit(c, {dmaCopy}) \in Int /\ Bit(c, {dmaCopy'}) = Bit(c, {dmaCopy})
    BY DEF Bit
  <1>4. References'
    <2>1. ASSUME NEW c \in Contexts
          PROVE  contexts'[c].refs = Cardinality(SourcesOf(c)') + Cardinality(DestinationsOf(c)') + Bit(c, {dmaCopy})
      <3>1. /\ Cardinality(SourcesOf(c)) \in Nat /\ Cardinality(SourcesOf(c)') \in Nat
            /\ Cardinality(SourcesOf(c)')
                 = Cardinality(SourcesOf(c)) + Bit(c, {sources'[p].context}) - Bit(c, {sources[p].context})
        BY SourceMoves
      <3>2. /\ Cardinality(DestinationsOf(c)) \in Nat /\ Cardinality(DestinationsOf(c)') \in Nat
            /\ Cardinality(DestinationsOf(c)')
                 = Cardinality(DestinationsOf(c)) + Bit(c, {destinations'[p].context})
                      - Bit(c, {destinations[p].context})
        BY DestinationMoves
      <3>3. Bit(c, {0}) = 0
        BY ImageAssumption DEF Bit, Contexts
      <3>4. contexts[c].refs = Cardinality(SourcesOf(c)) + Cardinality(DestinationsOf(c)) + Bit(c, {dmaCopy})
        BY <1>1 DEF References
      <3>5. /\ Bit(c, {sources[p].context}) \in Int /\ Bit(c, {destinations[p].context}) \in Int
            /\ Bit(c, {sources'[p].context}) \in Int /\ Bit(c, {destinations'[p].context}) \in Int
        BY DEF Bit
      <3>6. Bit(c, {sources'[p].context}) + Bit(c, {destinations'[p].context})
               = Bit(c, {sources[p].context}) + Bit(c, {destinations[p].context}) + Bit(c, {dmaCopy})
        <4> DEFINE at == Bit(c, {dmaCopy})
                   a == Bit(c, {sources[p].context})
                   b == Bit(c, {destinations[p].context})
                   e == Bit(c, {sources'[p].context})
                   f == Bit(c, {destinations'[p].context})
        <4>1. \/ a = 0 /\ e = at /\ f = b
              \/ b = 0 /\ f = at /\ e = a
          BY <3>3
        <4>2. at \in Int /\ a \in Int /\ b \in Int
          BY <1>3, <3>5
        <4> HIDE DEF at, a, b, e, f
        <4>3. e + f = a + b + at
          BY ONLY <4>1, <4>2
        <4> QED  BY <4>3 DEF at, a, b, e, f
      <3>7. contexts'[c].refs = contexts[c].refs + Bit(c, {dmaCopy})
        BY <1>2
      <3>8. Bit(c, {dmaCopy}) \in Int
        BY <1>3
      <3> QED  BY ONLY <3>1, <3>2, <3>4, <3>5, <3>6, <3>7, <3>8
    <2> QED  BY <1>3, <2>1 DEF References
  <1>5. \A q \in Pixmaps : Storage(q)' = Storage(q) /\ (q # p => ImportsOf(q)' = ImportsOf(q))
    BY DEF Storage, ImportsOf, Exists
  <1>6. live' \in [Resources -> Int] /\ \A r \in Resources : live'[r] = live[r] + Bit(r, owns) - Bit(r, {})
    BY TradeFacts
  <1>7. \A r : ContextOwners(r)' = ContextOwners(r)
    <2>1. contexts[dmaCopy].refs > 0
      <3>1. contexts[dmaCopy].refs = Cardinality(SourcesOf(dmaCopy)) + Cardinality(DestinationsOf(dmaCopy)) + 1
        BY <1>1 DEF References, Bit
      <3> QED  BY <3>1, CountsAreNatural
    <2>2. \A c \in Contexts : contexts'[c].refs > 0 <=> contexts[c].refs > 0
      BY <1>1, <1>2, <2>1 DEF Bit
    <2> QED  BY <2>2 DEF ContextOwners
  <1>8. ASSUME NEW r \in Resources
        PROVE  live'[r] = live[r] + (Cardinality(PixmapOwners(r)') - Cardinality(PixmapOwners(r)))
                                  + (Cardinality(ContextOwners(r)') - Cardinality(ContextOwners(r)))
    <2>1. Cardinality(PixmapOwners(r)')
              = Cardinality(PixmapOwners(r)) + Bit(r, (Storage(p) \cup ImportsOf(p))')
                   - Bit(r, Storage(p) \cup ImportsOf(p))
      BY <1>1, <1>5, HoldingsMove
    <2>2. Storage(p)' = Storage(p) /\ \A e \in owns : e \notin Storage(p)
      BY <1>1, <1>5, HoldingsFacts, HoldingsNext
    <2>3. Bit(r, (Storage(p) \cup ImportsOf(p))') - Bit(r, Storage(p) \cup ImportsOf(p)) = Bit(r, owns) - Bit(r, {})
      BY <2>2 DEF Bit
    <2>4. /\ Bit(r, (Storage(p) \cup ImportsOf(p))') \in Int /\ Bit(r, Storage(p) \cup ImportsOf(p)) \in Int
          /\ Bit(r, owns) \in Int /\ Bit(r, {}) \in Int
      BY DEF Bit
    <2> QED  BY <1>1, <1>6, <1>7, <2>1, <2>3, <2>4, CountsAreNatural
  <1>9. ResourcesAreOwned'
    BY <1>4, <1>6, <1>8, OwnedAgain
  <1>10. StorageTypes'
    BY <1>2, <1>6 DEF DmaInv, StorageTypes, Resources, SourceOwns
  <1>11. ScreenExists'
    BY DEF DmaInv, ScreenExists, Exists
  <1>12. BuffersAreSound' /\ misplaced' = {}
    BY DEF DmaInv, BuffersAreSound, Exists
  <1> QED  BY <1>9, <1>10, <1>11, <1>12, PreparationKeeps DEF DmaInv

\* The source is imported into the copy context, or the copy is refused.
LEMMA ImportSourceKeeps ==
    ASSUME DmaInv, NEW size \in FileSizes, NEW padding \in Paddings, ImportSource(size, padding)
    PROVE  DmaInv'
  <1>0. PICK s \in Pixmaps : s = copying.src
    BY CopyFacts DEF ImportSource
  <1> DEFINE rows == IF pix[s].dma THEN gpuRows(size, padding) ELSE 0
             import == Imported(dmaCopy, rows, ImageSize(rows) + padding <= size)
  <1>1. /\ UNCHANGED <<legacy, pix, peer, screen, root, dead, dmaCopy, attempted, destinations, inFlight, misplaced>>
        /\ copying.step = "source"
    BY DEF ImportSource
  <1>2. /\ copying.step # "none" /\ s \in Pixmaps /\ dmaCopy \in Contexts
        /\ Exists(s) /\ pix[s].type = "fd" /\ pix[s].imported
    BY <1>0, <1>1, CopyFacts
  <1>3. /\ ImportsAreSound /\ sources \in [Pixmaps -> Imports] /\ destinations' \in [Pixmaps -> Imports]
        /\ destinations[s].context = 0 /\ destinations[s].state # "imported"
        /\ destinations' = destinations
    BY <1>1, <1>2 DEF DmaInv, ImportsAreSound
  <1>4. \/ /\ sources[s].state # "untried"
           /\ (sources[s].state = "imported" /\ Goto("destination")) \/ Return
           /\ UNCHANGED <<live, contexts, sources>>
        \/ /\ sources[s].state = "untried" /\ sources' = [sources EXCEPT ![s] = Refused] /\ Return
           /\ UNCHANGED contexts
           /\ UNCHANGED live \/ (rows # 0 /\ \E holds \in {{}} \cup SourcePoints(rows) : Trade(holds, Freed(holds)))
        \/ /\ sources[s].state = "untried" /\ rows # 0 /\ sources' = [sources EXCEPT ![s] = import]
           /\ Goto("destination") /\ Trade(SourceOwns(rows), {})
           /\ contexts' = [contexts EXCEPT ![dmaCopy].refs = @ + 1]
    <2> HIDE DEF import
    <2> QED  BY <1>0 DEF ImportSource, Import, import
  <1>5. rows # 0 => rows \in 1..Height /\ ImageSize(rows) + padding <= size
    BY RowsFit, ImageAssumption
  <1>6. Refused \in Imports
    <2>1. 0 \in 0..MaxContexts
      BY ImageAssumption
    <2>2. Untried \in Imports
      BY <2>1 DEF Untried, Imports
    <2> QED  BY <2>2 DEF Refused, Imports
  <1> HIDE DEF rows
  <1>7. ASSUME sources[s].state # "untried",
               (sources[s].state = "imported" /\ Goto("destination")) \/ Return,
               UNCHANGED <<live, contexts, sources>>
        PROVE  DmaInv'
    <2>1. sources[s].state = "imported" => Prepared("destination")
      BY <1>1, <1>2, <1>7, <1>0, ImageAssumption DEF Prepared, Contexts
    <2> QED  BY <1>1, <1>2, <1>3, <1>7, <2>1, NoImportKeeps
  <1>8. ASSUME sources[s].state = "untried", sources' = [sources EXCEPT ![s] = Refused], Return,
               UNCHANGED contexts,
               UNCHANGED live \/ (rows # 0 /\ \E holds \in {{}} \cup SourcePoints(rows) : Trade(holds, Freed(holds)))
        PROVE  DmaInv'
    <2>1. UNCHANGED live \/ (\E g : Trade(g, g))
      BY <1>5, <1>8, FreedWhole
    <2>2. /\ sources' \in [Pixmaps -> Imports]
          /\ \A p \in Pixmaps : sources'[p] = sources[p] \/ (sources[p].state # "imported" /\ sources'[p] = Refused)
      BY <1>3, <1>6, <1>8
    <2> QED  BY <1>1, <1>2, <1>3, <1>8, <2>1, <2>2, NoImportKeeps
  <1>9. ASSUME sources[s].state = "untried", rows # 0, sources' = [sources EXCEPT ![s] = import],
               Goto("destination"), Trade(SourceOwns(rows), {}),
               contexts' = [contexts EXCEPT ![dmaCopy].refs = @ + 1]
        PROVE  DmaInv'
    <2>1. /\ import.state = "imported" /\ import.context = dmaCopy /\ import.rows = rows /\ import.fits
          /\ import \in Imports
      <3>1. (ImageSize(rows) + padding <= size) = TRUE
        BY <1>5, <1>9
      <3>2. import = [state |-> "imported", context |-> dmaCopy, rows |-> rows, fits |-> TRUE]
        BY <3>1 DEF Imported
      <3>3. dmaCopy \in 0..MaxContexts /\ rows \in Nat
        BY <1>2, <1>5, <1>9, ImageAssumption DEF Contexts
      <3> HIDE DEF import
      <3> QED  BY <3>2, <3>3 DEF Imports
    <2>2. dmaCopy # 0 /\ sources[s].context = 0
      BY <1>2, <1>3, <1>9, ImageAssumption DEF Contexts, ImportsAreSound
    <2> HIDE DEF import
    <2>3. sources' \in [Pixmaps -> Imports] /\ sources'[s] = import
          /\ \A q \in Pixmaps : q # s => sources'[q] = sources[q]
      BY <1>2, <1>3, <1>9, <2>1
    <2>4. ImportsAreSound'
      BY <1>1, <1>2, <1>3, <1>5, <1>9, <2>1, <2>2, <2>3 DEF ImportsAreSound, Exists
    <2>5. ImportsOf(s) = {} /\ ImportsOf(s)' = SourceOwns(rows)
      BY <1>3, <1>9, <2>1, <2>3 DEF ImportsOf
    <2>6. Prepared("destination")
      BY <1>0, <1>1, <2>1, <2>2, <2>3 DEF Prepared
    <2>7. \E step \in {"source", "destination", "map"} : Goto(step) /\ Prepared(step)
      BY <1>9, <2>6
    <2>8. /\ sources[s].context = 0 /\ sources'[s].context = dmaCopy
          /\ destinations'[s].context = destinations[s].context
      BY <1>3, <2>1, <2>2, <2>3
    <2> QED  BY <1>1, <1>2, <1>3, <1>9, <2>3, <2>4, <2>5, <2>7, <2>8, ImportKeeps
  <1> QED  BY <1>4, <1>7, <1>8, <1>9

\* The destination is imported into the copy context, or the copy is refused.
LEMMA ImportDestinationKeeps ==
    ASSUME DmaInv, ImportDestination
    PROVE  DmaInv'
  <1>0. PICK d \in Pixmaps : d = copying.dst
    BY CopyFacts DEF ImportDestination
  <1> DEFINE import == Imported(dmaCopy, 0, TRUE)
  <1>1. /\ UNCHANGED <<legacy, pix, peer, screen, root, dead, dmaCopy, attempted, sources, inFlight, misplaced>>
        /\ copying.step = "destination"
    BY DEF ImportDestination
  <1>2. /\ copying.step # "none" /\ d \in Pixmaps /\ dmaCopy \in Contexts
        /\ Exists(d) /\ pix[d].type = "hw" /\ sources[copying.src].state = "imported"
    BY <1>0, <1>1, CopyFacts
  <1>3. /\ ImportsAreSound /\ destinations \in [Pixmaps -> Imports] /\ sources' \in [Pixmaps -> Imports]
        /\ sources[d].context = 0 /\ sources[d].state # "imported" /\ sources' = sources
    BY <1>1, <1>2 DEF DmaInv, ImportsAreSound
  <1>4. \/ /\ destinations[d].state # "untried"
           /\ (destinations[d].state = "imported" /\ Goto("map")) \/ Return
           /\ UNCHANGED <<live, contexts, destinations>>
        \/ /\ destinations[d].state = "untried" /\ destinations' = [destinations EXCEPT ![d] = Refused] /\ Return
           /\ UNCHANGED contexts
           /\ \E holds \in {{}} \cup DestinationPoints : Trade(holds, Freed(holds))
        \/ /\ destinations[d].state = "untried" /\ destinations' = [destinations EXCEPT ![d] = import]
           /\ Goto("map") /\ Trade(DestinationOwns, {})
           /\ contexts' = [contexts EXCEPT ![dmaCopy].refs = @ + 1]
    <2> HIDE DEF import
    <2> QED  BY <1>0 DEF ImportDestination, Import, import
  <1>6. Refused \in Imports
    <2>1. 0 \in 0..MaxContexts
      BY ImageAssumption
    <2>2. Untried \in Imports
      BY <2>1 DEF Untried, Imports
    <2> QED  BY <2>2 DEF Refused, Imports
  <1>7. ASSUME destinations[d].state # "untried",
               (destinations[d].state = "imported" /\ Goto("map")) \/ Return,
               UNCHANGED <<live, contexts, destinations>>
        PROVE  DmaInv'
    <2>1. destinations[d].state = "imported" => Prepared("map")
      BY <1>1, <1>2, <1>7, <1>0, ImageAssumption DEF Prepared, Contexts
    <2> QED  BY <1>1, <1>2, <1>3, <1>7, <2>1, NoImportKeeps
  <1>8. ASSUME destinations[d].state = "untried", destinations' = [destinations EXCEPT ![d] = Refused], Return,
               UNCHANGED contexts,
               \E holds \in {{}} \cup DestinationPoints : Trade(holds, Freed(holds))
        PROVE  DmaInv'
    <2>1. \E g : Trade(g, g)
      BY <1>8, FreedWhole
    <2>2. /\ destinations' \in [Pixmaps -> Imports]
          /\ \A p \in Pixmaps : \/ destinations'[p] = destinations[p]
                                \/ destinations[p].state # "imported" /\ destinations'[p] = Refused
      BY <1>3, <1>6, <1>8
    <2> QED  BY <1>1, <1>2, <1>3, <1>8, <2>1, <2>2, NoImportKeeps
  <1>9. ASSUME destinations[d].state = "untried", destinations' = [destinations EXCEPT ![d] = import],
               Goto("map"), Trade(DestinationOwns, {}),
               contexts' = [contexts EXCEPT ![dmaCopy].refs = @ + 1]
        PROVE  DmaInv'
    <2>1. import.state = "imported" /\ import.context = dmaCopy /\ import \in Imports
      BY <1>2, ImageAssumption DEF Imported, Imports, Contexts
    <2>2. dmaCopy # 0 /\ destinations[d].context = 0
      BY <1>2, <1>3, <1>9, ImageAssumption DEF Contexts, ImportsAreSound
    <2> HIDE DEF import
    <2>3. destinations' \in [Pixmaps -> Imports] /\ destinations'[d] = import
          /\ \A q \in Pixmaps : q # d => destinations'[q] = destinations[q]
      BY <1>2, <1>3, <1>9, <2>1
    <2>4. ImportsAreSound'
      BY <1>1, <1>2, <1>3, <1>9, <2>1, <2>2, <2>3 DEF ImportsAreSound, Exists
    <2>5. ImportsOf(d) = {} /\ ImportsOf(d)' = DestinationOwns
      BY <1>3, <1>9, <2>1, <2>3 DEF ImportsOf
    <2>6. Prepared("map")
      BY <1>0, <1>1, <1>2, <2>1, <2>2, <2>3 DEF Prepared
    <2>7. \E step \in {"source", "destination", "map"} : Goto(step) /\ Prepared(step)
      BY <1>9, <2>6
    <2>8. /\ destinations[d].context = 0 /\ destinations'[d].context = dmaCopy
          /\ sources'[d].context = sources[d].context
      BY <1>3, <2>1, <2>2, <2>3
    <2> QED  BY <1>1, <1>2, <1>3, <1>9, <2>3, <2>4, <2>5, <2>7, <2>8, ImportKeeps
  <1> QED  BY <1>4, <1>7, <1>8, <1>9

\* The destination's buffer is mapped, unmapped or mapped again: nothing else changes hands.
LEMMA DestinationKeeps ==
    ASSUME DmaInv, copying.step # "none", NEW d \in Pixmaps, d = copying.dst,
           NEW b, Put(d, b), Follows(pix[d], b), ~b.access,
           UNCHANGED <<legacy, live, peer, screen, root, dmaCopy, attempted, sources, destinations>>,
           contexts' \in [Contexts -> [refs : Nat, failed : BOOLEAN]],
           \A c \in Contexts : contexts'[c].refs = contexts[c].refs,
           dead' \in BOOLEAN, inFlight' \in BOOLEAN
    PROVE  /\ StorageTypes' /\ BuffersAreSound' /\ ScreenExists' /\ ImportsAreSound' /\ ResourcesAreOwned'
           /\ pix'[d] = b /\ \A p \in Pixmaps : p # d => pix'[p] = pix[p]
           /\ \A p \in Pixmaps : /\ Exists(p)' <=> Exists(p)
                                 /\ Exists(p) => /\ pix'[p].type = pix[p].type
                                                 /\ pix'[p].imported = pix[p].imported
                                                 /\ ~pix'[p].access
  <1>1. /\ BuffersAreSound /\ ImportsAreSound /\ pix \in [Pixmaps -> Buffers \cup {NoPixmap}]
        /\ Exists(d) /\ pix[d].type = "hw" /\ \A p \in Pixmaps : Exists(p) => ~pix[p].access
    BY CopyFacts DEF DmaInv, BuffersAreSound
  <1>2. Sound(b) /\ b \in Buffers /\ b # NoPixmap /\ b.type = "hw" /\ b.imported = pix[d].imported
    BY <1>1, BuffersAssumption DEF Follows, Sound
  <1>3. /\ pix' \in [Pixmaps -> Buffers \cup {NoPixmap}]
        /\ pix'[d] = b /\ \A p \in Pixmaps : p # d => pix'[p] = pix[p]
    BY <1>1, <1>2 DEF Put
  <1>4. \A p \in Pixmaps : /\ Exists(p)' <=> Exists(p)
                           /\ Exists(p) => /\ pix'[p].type = pix[p].type
                                           /\ pix'[p].imported = pix[p].imported
                                           /\ ~pix'[p].access
    BY <1>1, <1>2, <1>3 DEF Exists
  <1>5. BuffersAreSound'
    BY <1>1, <1>2, <1>3 DEF BuffersAreSound, Exists
  <1>6. ImportsAreSound'
    BY <1>1, <1>4 DEF ImportsAreSound
  <1>7. ScreenExists'
    BY <1>4 DEF DmaInv, ScreenExists
  <1>8. StorageTypes'
    BY DEF DmaInv, StorageTypes, Resources, SourceOwns
  <1>9. ResourcesAreOwned'
    <2>1. \A p \in Pixmaps : Storage(p)' = Storage(p) /\ ImportsOf(p)' = ImportsOf(p)
      BY <1>4 DEF Storage, ImportsOf
    <2> QED  BY <1>6, <2>1, KeepFacts, OwnersStay
  <1> QED  BY <1>3, <1>4, <1>5, <1>6, <1>7, <1>8, <1>9

\* Nothing is mapped or unmapped.
LEMMA PixmapsKeep ==
    ASSUME DmaInv,
           UNCHANGED <<legacy, pix, live, peer, screen, root, dmaCopy, attempted, sources, destinations>>,
           contexts' \in [Contexts -> [refs : Nat, failed : BOOLEAN]],
           \A c \in Contexts : contexts'[c].refs = contexts[c].refs,
           dead' \in BOOLEAN, inFlight' \in BOOLEAN
    PROVE  StorageTypes' /\ BuffersAreSound' /\ ScreenExists' /\ ImportsAreSound' /\ ResourcesAreOwned'
  <1>1. BuffersAreSound' /\ ImportsAreSound' /\ ScreenExists'
    BY DEF DmaInv, BuffersAreSound, ImportsAreSound, ScreenExists, Exists
  <1>2. StorageTypes'
    BY DEF DmaInv, StorageTypes, Resources, SourceOwns
  <1>3. \A p \in Pixmaps : Storage(p)' = Storage(p) /\ ImportsOf(p)' = ImportsOf(p)
    BY DEF Storage, ImportsOf, Exists
  <1> QED  BY <1>1, <1>2, <1>3, KeepFacts, OwnersStay

\* lorieExaPrepareCopy(): the CPU lets the destination go before the copy.
LEMMA LetGoKeeps ==
    ASSUME DmaInv, LetGo
    PROVE  DmaInv'
  <1>0. PICK d \in Pixmaps : d = copying.dst
    BY CopyFacts DEF LetGo
  <1>1. /\ UNCHANGED <<legacy, live, peer, screen, root, dead, contexts, dmaCopy, attempted, sources,
                       destinations, inFlight, misplaced>>
        /\ copying.step = "map" /\ copying.step # "none"
        /\ copying' = [copying EXCEPT !.step = "copy", !.wasLocked = pix[d].ptr # "none"]
    BY <1>0 DEF LetGo
  <1>2. /\ copying.src \in Pixmaps /\ copying.src # d /\ dmaCopy # 0
        /\ Exists(copying.src) /\ pix[copying.src].type = "fd" /\ pix[copying.src].imported
        /\ Exists(d) /\ pix[d].type = "hw" /\ Sound(pix[d]) /\ ~pix[d].access
        /\ \A p \in Pixmaps : Exists(p) => ~pix[p].access
        /\ sources[copying.src].state = "imported" /\ destinations[d].state = "imported"
    BY <1>0, <1>1, CopyFacts, ImageAssumption DEF Contexts
  <1>3. /\ contexts' \in [Contexts -> [refs : Nat, failed : BOOLEAN]]
        /\ \A c \in Contexts : contexts'[c].refs = contexts[c].refs
        /\ dead' \in BOOLEAN /\ inFlight' \in BOOLEAN
    BY <1>1 DEF DmaInv, StorageTypes
  <1>4. PICK b : /\ Put(d, b) /\ Follows(pix[d], b) /\ ~b.access /\ b.ptr = "none" /\ ~b.held
    <2>1. CASE pix[d].ptr = "none"
      <3>1. UNCHANGED pix
        BY <1>0, <2>1 DEF LetGo
      <3>2. Put(d, pix[d])
        BY <3>1 DEF DmaInv, BuffersAreSound, Put
      <3>3. ~pix[d].held
        BY <1>2, <2>1 DEF Sound
      <3> QED  BY <1>2, <2>1, <3>2, <3>3, StaysSound
    <2>2. CASE pix[d].ptr # "none"
      <3>1. PICK u \in Unlock(pix[d]) : Put(d, [u EXCEPT !.ptr = "none"])
        BY <1>0, <2>2 DEF LetGo
      <3> DEFINE c == [u EXCEPT !.ptr = "none"]
      <3>2. Follows(pix[d], c) /\ Kept(pix[d], c) /\ c.ptr = "none" /\ ~c.held
        BY <1>2, LetGoIsSound
      <3>3. Put(d, c)
        BY <3>1
      <3> HIDE DEF c
      <3> QED  BY <1>2, <3>2, <3>3 DEF Kept
    <2> QED  BY <2>1, <2>2
  <1>5. /\ StorageTypes' /\ BuffersAreSound' /\ ScreenExists' /\ ImportsAreSound' /\ ResourcesAreOwned'
        /\ pix'[d] = b
        /\ \A p \in Pixmaps : /\ Exists(p)' <=> Exists(p)
                              /\ Exists(p) => /\ pix'[p].type = pix[p].type
                                              /\ pix'[p].imported = pix[p].imported
                                              /\ ~pix'[p].access
    BY <1>0, <1>1, <1>3, <1>4, DestinationKeeps
  <1>6. /\ copying' \in [step : CopySteps, src : Pixmaps \cup {NoPixmap},
                         dst : Pixmaps \cup {NoPixmap}, wasLocked : BOOLEAN]
        /\ copying'.step = "copy" /\ copying'.src = copying.src /\ copying'.dst = d
    <2>1. copying \in [step : CopySteps, src : Pixmaps \cup {NoPixmap},
                       dst : Pixmaps \cup {NoPixmap}, wasLocked : BOOLEAN]
      BY DEF DmaInv, CopyIsPrepared
    <2> DEFINE w == pix[d].ptr # "none"
    <2>2. w \in BOOLEAN
      OBVIOUS
    <2> HIDE DEF w
    <2>3. copying' = [copying EXCEPT !.step = "copy", !.wasLocked = w]
      BY <1>1 DEF w
    <2> QED  BY <1>0, <2>1, <2>2, <2>3 DEF CopySteps
  <1>7. CopyIsPrepared'
    BY <1>1, <1>2, <1>5, <1>6 DEF CopyIsPrepared
  <1>8. CpuStaysAway'
    BY <1>1, <1>4, <1>5, <1>6 DEF DmaInv, CpuStaysAway
  <1> QED  BY <1>1, <1>5, <1>7, <1>8 DEF DmaInv

\* lorieExaCopy(): by Vulkan or, where that fails, by the CPU.
LEMMA DmaCopyKeeps ==
    ASSUME DmaInv, NEW sx \in 0..(Width - 1), NEW sy \in 0..(Height - 1), NEW width \in 1..Width,
           NEW height \in 1..Height, lorieDmaCopy(sx, sy, width, height)
    PROVE  DmaInv'
  <1>0. PICK d \in Pixmaps : d = copying.dst
    BY CopyFacts DEF lorieDmaCopy
  <1> DEFINE src == sources[copying.src]
             valid == src.context = destinations[d].context /\ dmaCopyReady(src.context)
             fallback == \E l \in Lock([pix[d] EXCEPT !.ptr = "none"]) :
                            IF ~l.held THEN dead' = TRUE /\ UNCHANGED <<pix, misplaced>>
                            ELSE /\ \E u \in Unlock(l) : Put(d, [u EXCEPT !.ptr = pix[d].ptr])
                                 /\ UNCHANGED <<misplaced, dead>>
  <1>1. /\ UNCHANGED <<legacy, live, peer, screen, root, dmaCopy, attempted, sources, destinations, copying>>
        /\ ~dead /\ copying.step = "copy" /\ copying.step # "none"
        /\ sx + width <= Width /\ sy + height <= Height
    BY DEF lorieDmaCopy
  <1>2. \/ /\ misplaced' = misplaced \cup
                {m \in Delivered(src.rows, sx, sy, width, height) : m.got # m.want}
           /\ UNCHANGED <<pix, contexts, inFlight, dead>>
        \/ /\ valid /\ contexts' = [contexts EXCEPT ![src.context].failed = TRUE]
           /\ \/ fallback /\ inFlight' = FALSE
              \/ inFlight' = TRUE /\ dead' = TRUE /\ UNCHANGED <<pix, misplaced>>
        \/ fallback /\ UNCHANGED <<contexts, inFlight>>
    BY <1>0 DEF lorieDmaCopy
  <1>3. /\ Exists(d) /\ pix[d].type = "hw" /\ Sound(pix[d]) /\ ~pix[d].access
        /\ pix[d].ptr = "none" /\ ~pix[d].held /\ misplaced = {}
        /\ copying.src \in Pixmaps /\ src.state = "imported" /\ (inFlight => dead)
    BY <1>0, <1>1, CopyFacts DEF DmaInv, CpuStaysAway
  <1>4. misplaced' = {}
    <2>1. src.rows \in 1..Height
      BY <1>3 DEF DmaInv, ImportsAreSound
    <2>2. {m \in Delivered(src.rows, sx, sy, width, height) : m.got # m.want} = {}
      <3> HIDE DEF src
      <3>1. sx \in Nat /\ sy \in Nat /\ width \in Nat /\ height \in Nat
        BY ImageAssumption
      <3> QED  BY <1>1, <2>1, <3>1, DeliveredRight
    <2> QED  BY <1>2, <1>3, <2>2
  <1>5. fallback => \/ dead' = TRUE /\ UNCHANGED pix
                    \/ /\ UNCHANGED dead
                       /\ \E b : Put(d, b) /\ Follows(pix[d], b) /\ ~b.access /\ b.ptr = "none" /\ ~b.held
    <2> SUFFICES ASSUME NEW l \in Lock([pix[d] EXCEPT !.ptr = "none"]), l.held, NEW u \in Unlock(l),
                        Put(d, [u EXCEPT !.ptr = pix[d].ptr])
                 PROVE  \E b : Put(d, b) /\ Follows(pix[d], b) /\ ~b.access /\ b.ptr = "none" /\ ~b.held
      OBVIOUS
    <2>1. [pix[d] EXCEPT !.ptr = "none"] = pix[d]
      BY <1>3 DEF Sound, Buffers
    <2>2. l \in Lock(pix[d])
      BY <2>1
    <2>3. Follows(pix[d], l) /\ Kept(pix[d], l)
      BY <1>3, <2>2, LockIsSound
    <2> DEFINE c == [u EXCEPT !.ptr = "none"]
    <2>4. Sound(l) /\ ~l.access
      BY <1>3, <2>3 DEF Follows, Kept
    <2>5. Follows(l, c) /\ Kept(l, c) /\ c.ptr = "none" /\ ~c.held
      BY <2>4, LetGoIsSound
    <2>6. Put(d, c)
      BY <1>3
    <2> HIDE DEF c
    <2>7. Follows(pix[d], c) /\ ~c.access
      BY <1>3, <2>3, <2>5 DEF Follows, Kept
    <2> QED  BY <2>5, <2>6, <2>7
  <1>6. /\ contexts' \in [Contexts -> [refs : Nat, failed : BOOLEAN]]
        /\ \A c \in Contexts : contexts'[c].refs = contexts[c].refs
        /\ inFlight' \in BOOLEAN
    <2>1. contexts \in [Contexts -> [refs : Nat, failed : BOOLEAN]] /\ inFlight \in BOOLEAN
      BY DEF DmaInv, StorageTypes
    <2>2. contexts' = contexts \/ contexts' = [contexts EXCEPT ![src.context].failed = TRUE]
      BY <1>2
    <2>3. inFlight' \in BOOLEAN
      BY <1>2, <2>1
    <2>4. src.context \in Contexts
      <3>1. src \in Imports /\ src.context # 0
        BY <1>3 DEF DmaInv, ImportsAreSound
      <3> HIDE DEF src
      <3> QED  BY <3>1, ImageAssumption DEF Imports, Contexts
    <2> DEFINE k == src.context
    <2> HIDE DEF src, fallback, valid, k
    <2>5. k \in Contexts /\ (contexts' = contexts \/ contexts' = [contexts EXCEPT ![k].failed = TRUE])
      BY <2>2, <2>4 DEF k
    <2>6. CASE contexts' = [contexts EXCEPT ![k].failed = TRUE]
      BY ONLY <2>1, <2>3, <2>5, <2>6
    <2> QED  BY <2>1, <2>3, <2>5, <2>6
  <1>7. \/ UNCHANGED pix /\ dead' = TRUE
        \/ UNCHANGED pix /\ dead' = dead /\ inFlight' = inFlight
        \/ /\ UNCHANGED dead /\ (inFlight' => inFlight)
           /\ \E b : Put(d, b) /\ Follows(pix[d], b) /\ ~b.access /\ b.ptr = "none" /\ ~b.held
    <2> HIDE DEF src, fallback, valid
    <2> QED  BY <1>2, <1>5
  <1> HIDE DEF src, fallback, valid
  <1>8. CASE UNCHANGED pix /\ (dead' = TRUE \/ (dead' = dead /\ inFlight' = inFlight))
    <2>1. dead' \in BOOLEAN
      BY <1>8 DEF DmaInv, StorageTypes
    <2>2. StorageTypes' /\ BuffersAreSound' /\ ScreenExists' /\ ImportsAreSound' /\ ResourcesAreOwned'
      BY <1>1, <1>6, <1>8, <2>1, PixmapsKeep
    <2>3. CopyIsPrepared'
      BY <1>1, <1>8 DEF DmaInv, CopyIsPrepared, Exists
    <2>4. CpuStaysAway'
      BY <1>1, <1>8 DEF DmaInv, CpuStaysAway
    <2> QED  BY <1>4, <2>2, <2>3, <2>4 DEF DmaInv
  <1>9. ASSUME UNCHANGED dead, inFlight' => inFlight, NEW b, Put(d, b), Follows(pix[d], b), ~b.access,
               b.ptr = "none", ~b.held
        PROVE  DmaInv'
    <2>1. dead' \in BOOLEAN
      BY <1>9 DEF DmaInv, StorageTypes
    <2>2. /\ StorageTypes' /\ BuffersAreSound' /\ ScreenExists' /\ ImportsAreSound' /\ ResourcesAreOwned'
          /\ pix'[d] = b
          /\ \A p \in Pixmaps : /\ Exists(p)' <=> Exists(p)
                                /\ Exists(p) => /\ pix'[p].type = pix[p].type
                                                /\ pix'[p].imported = pix[p].imported
                                                /\ ~pix'[p].access
      BY <1>0, <1>1, <1>6, <1>9, <2>1, DestinationKeeps
    <2>3. CopyIsPrepared'
      BY <1>1, <2>2 DEF DmaInv, CopyIsPrepared
    <2>4. CpuStaysAway'
      BY <1>0, <1>1, <1>3, <1>9, <2>2 DEF CpuStaysAway
    <2> QED  BY <1>4, <2>2, <2>3, <2>4 DEF DmaInv
  <1> QED  BY <1>7, <1>8, <1>9

\* lorieDoneDmaCopy gives the lock of the destination back.
LEMMA DoneKeeps ==
    ASSUME DmaInv, lorieDoneDmaCopy
    PROVE  DmaInv'
  <1>0. PICK d \in Pixmaps : d = copying.dst
    BY CopyFacts DEF lorieDoneDmaCopy
  <1>1. /\ UNCHANGED <<legacy, live, peer, screen, root, contexts, dmaCopy, attempted, sources,
                       destinations, inFlight, misplaced>>
        /\ ~dead /\ copying.step # "none" /\ copying' = NoCopy
    BY DEF lorieDoneDmaCopy
  <1>2. \/ UNCHANGED pix /\ (dead' = dead \/ dead' = TRUE)
        \/ dead' = dead /\ \E l \in Lock(pix[d]) : Put(d, l)
    BY <1>0 DEF lorieDoneDmaCopy
  <1>3. Sound(pix[d]) /\ pix[d].type = "hw" /\ ~pix[d].access
    BY <1>0, <1>1, CopyFacts
  <1>4. /\ contexts' \in [Contexts -> [refs : Nat, failed : BOOLEAN]]
        /\ \A c \in Contexts : contexts'[c].refs = contexts[c].refs
        /\ dead' \in BOOLEAN /\ inFlight' \in BOOLEAN /\ (inFlight' => dead') /\ misplaced' = {}
    BY <1>1, <1>2 DEF DmaInv, StorageTypes, CpuStaysAway
  <1>5. StorageTypes' /\ BuffersAreSound' /\ ScreenExists' /\ ImportsAreSound' /\ ResourcesAreOwned'
    <2>1. CASE UNCHANGED pix
      BY <1>1, <1>4, <2>1, PixmapsKeep
    <2>2. ASSUME NEW l \in Lock(pix[d]), Put(d, l)
          PROVE  <1>5
      <3>1. Follows(pix[d], l) /\ ~l.access
        BY <1>3, <2>2, LockIsSound DEF Kept
      <3> QED  BY <1>0, <1>1, <1>4, <2>2, <3>1, DestinationKeeps
    <2> QED  BY <1>2, <2>1, <2>2
  <1>6. CopyIsPrepared' /\ CpuStaysAway'
    <2>1. copying'.step = "none"
      BY <1>1 DEF NoCopy
    <2>2. NoCopy \in [step : CopySteps, src : Pixmaps \cup {NoPixmap},
                      dst : Pixmaps \cup {NoPixmap}, wasLocked : BOOLEAN]
      BY DEF NoCopy, CopySteps
    <2> QED  BY <1>1, <1>4, <2>1, <2>2 DEF CopyIsPrepared, CpuStaysAway
  <1> QED  BY <1>4, <1>5, <1>6 DEF DmaInv

-----------------------------------------------------------------------------
\* Destroying pixmaps.

\* A pixmap gives up its storage, its imports and its references; the context
\* whose last reference that was goes with it, and no other.
Discarded(p, gain) ==
    /\ contexts' \in [Contexts -> [refs : Nat, failed : BOOLEAN]] /\ References'
    /\ sources' \in [Pixmaps -> Imports] /\ destinations' \in [Pixmaps -> Imports]
    /\ sources'[p] = Untried /\ destinations'[p] = Untried
    /\ \A q \in Pixmaps : q # p => sources'[q] = sources[q] /\ destinations'[q] = destinations[q]
    /\ live' \in [Resources -> Int]
    /\ \A r \in Resources :
          live'[r] = live[r] + Bit(r, gain) - Bit(r, Storage(p) \cup ImportsOf(p))
                     + (Cardinality(ContextOwners(r)') - Cardinality(ContextOwners(r)))

\* What a pixmap imported goes with it, and a context with its last reference.
LEMMA DiscardFacts ==
    ASSUME DmaInv, NEW p \in Pixmaps, Exists(p), NEW extra, NEW gain, Discard(p, extra, gain),
           \/ extra = 0 /\ dmaCopy' = dmaCopy
           \/ extra = dmaCopy /\ dmaCopy' = 0 /\ p = screen
    PROVE  Discarded(p, gain)
  <1> DEFINE s == sources[p].context
             d == destinations[p].context
             left == [c \in Contexts |-> contexts[c].refs - (IF c \in {s, d} THEN 1 ELSE 0)
                                                          - (IF c = extra THEN 1 ELSE 0)]
             last == \E c \in Contexts : contexts[c].refs > 0 /\ left[c] = 0
             lost == IF last THEN ContextResources ELSE {}
  <1>1. /\ contexts \in [Contexts -> [refs : Nat, failed : BOOLEAN]] /\ References /\ ImportsAreSound
        /\ live \in [Resources -> Int] /\ dmaCopy \in 0..MaxContexts
        /\ sources \in [Pixmaps -> Imports] /\ destinations \in [Pixmaps -> Imports]
    BY OwnedIsBoth DEF DmaInv, StorageTypes, ImportsAreSound
  <1>2. /\ contexts' = [c \in Contexts |-> [contexts[c] EXCEPT !.refs = left[c]]]
        /\ sources' = [sources EXCEPT ![p] = Untried] /\ destinations' = [destinations EXCEPT ![p] = Untried]
    BY DEF Discard
  <1>3. Trade(gain, Holdings(p) \cup lost)
    <2>1. Dismantled(ContextResources) = ContextResources
      BY DEF Dismantled
    <2> QED  BY <2>1 DEF Discard
  <1>4. /\ sources' \in [Pixmaps -> Imports] /\ destinations' \in [Pixmaps -> Imports]
        /\ sources'[p] = Untried /\ destinations'[p] = Untried
        /\ \A q \in Pixmaps : q # p => sources'[q] = sources[q] /\ destinations'[q] = destinations[q]
        /\ Untried.context = 0
    <2>1. 0 \in 0..MaxContexts
      BY ImageAssumption
    <2>2. Untried \in Imports /\ Untried.context = 0
      BY <2>1 DEF Untried, Imports
    <2> QED  BY <1>1, <1>2, <2>2
  <1>5. s = 0 \/ d = 0
    BY <1>1 DEF ImportsAreSound
  <1>6. p = screen => s = 0 /\ d \in {0, dmaCopy}
    BY <1>1, PixmapsAssumption DEF DmaInv, ScreenExists, ImportsAreSound
  <1>7. PICK k : s \in {0, k} /\ d \in {0, k} /\ extra \in {0, k}
    <2>1. CASE extra = 0
      BY <1>5, <2>1
    <2>2. CASE extra = dmaCopy /\ p = screen
      BY <1>6, <2>2
    <2> QED  BY <2>1, <2>2
  <1>8. ASSUME NEW c \in Contexts
        PROVE  /\ left[c] = Cardinality(SourcesOf(c)') + Cardinality(DestinationsOf(c)') + Bit(c, {dmaCopy'})
               /\ left[c] \in Nat /\ left[c] <= contexts[c].refs
               /\ c # k => left[c] = contexts[c].refs
    <2>0. c # 0 /\ contexts[c].refs \in Nat
      BY <1>1, ImageAssumption DEF Contexts
    <2>1. /\ Cardinality(SourcesOf(c)) \in Nat /\ Cardinality(SourcesOf(c)') \in Nat
          /\ Cardinality(SourcesOf(c)') = Cardinality(SourcesOf(c)) + Bit(c, {0}) - Bit(c, {s})
      BY <1>4, SourceMoves
    <2>2. /\ Cardinality(DestinationsOf(c)) \in Nat /\ Cardinality(DestinationsOf(c)') \in Nat
          /\ Cardinality(DestinationsOf(c)') = Cardinality(DestinationsOf(c)) + Bit(c, {0}) - Bit(c, {d})
      BY <1>4, DestinationMoves
    <2>3. contexts[c].refs = Cardinality(SourcesOf(c)) + Cardinality(DestinationsOf(c)) + Bit(c, {dmaCopy})
      BY <1>1 DEF References
    <2>4. left[c] = contexts[c].refs - Bit(c, {s, d}) - Bit(c, {extra})
      BY DEF Bit
    <2> HIDE DEF s, d, left
    <2>5. Bit(c, {0}) = 0 /\ Bit(c, {s, d}) = Bit(c, {s}) + Bit(c, {d})
      BY <1>5, <2>0 DEF Bit
    <2>6. Bit(c, {dmaCopy'}) = Bit(c, {dmaCopy}) - Bit(c, {extra}) /\ Bit(c, {dmaCopy'}) \in Nat
      BY <2>0 DEF Bit
    <2>7. /\ Bit(c, {s}) \in Nat /\ Bit(c, {d}) \in Nat /\ Bit(c, {dmaCopy}) \in Nat /\ Bit(c, {extra}) \in Nat
      BY DEF Bit
    <2>8. c # k => Bit(c, {s}) = 0 /\ Bit(c, {d}) = 0 /\ Bit(c, {extra}) = 0
      BY <1>7, <2>0 DEF Bit
    <2> QED  BY ONLY <2>0, <2>1, <2>2, <2>3, <2>4, <2>5, <2>6, <2>7, <2>8
  <1>h. DOMAIN left = Contexts
    OBVIOUS
  <1> HIDE DEF left, s, d
  <1>9. /\ contexts' \in [Contexts -> [refs : Nat, failed : BOOLEAN]]
        /\ \A c \in Contexts : contexts'[c].refs = left[c]
    <2>1. \A c \in Contexts : left[c] \in Nat
      BY <1>8
    <2> QED  BY ONLY <1>1, <1>2, <2>1
  <1>10. References'
    BY <1>8, <1>9 DEF References
  <1>11. ASSUME NEW r \in Resources
         PROVE  Bit(r, lost) = Cardinality(ContextOwners(r)) - Cardinality(ContextOwners(r)')
    <2>1. Cardinality(ContextOwners(r)')
             = Cardinality(ContextOwners(r)) + Bit(k, ContextOwners(r)') - Bit(k, ContextOwners(r))
      <3>1. \A c \in Contexts : c # k => contexts'[c].refs = contexts[c].refs
        BY <1>8, <1>9
      <3> QED  BY <3>1, ContextMoves
    <2>2. Bit(r, lost) = Bit(k, ContextOwners(r)) - Bit(k, ContextOwners(r)')
      <3>1. /\ \A c \in Contexts : /\ c # k => left[c] = contexts[c].refs
                                   /\ left[c] \in Nat /\ contexts[c].refs \in Nat /\ left[c] <= contexts[c].refs
        BY <1>1, <1>8
      <3>2. last <=> (k \in Contexts /\ contexts[k].refs > 0 /\ left[k] = 0)
        BY <3>1
      <3>3. k \in ContextOwners(r) <=> (k \in Contexts /\ contexts[k].refs > 0 /\ r \in ContextResources)
        BY DEF ContextOwners
      <3>4. k \in ContextOwners(r)' <=> (k \in Contexts /\ left[k] > 0 /\ r \in ContextResources)
        BY <1>9 DEF ContextOwners
      <3> HIDE DEF last
      <3> QED  BY <3>1, <3>2, <3>3, <3>4 DEF Bit
    <2>3. Bit(k, ContextOwners(r)) \in Int /\ Bit(k, ContextOwners(r)') \in Int
      BY DEF Bit
    <2> QED  BY <2>1, <2>2, <2>3, CountsAreNatural
  <1>12. \A r : r \in lost => r \in ContextResources
    OBVIOUS
  <1>13. Holdings(p) = Storage(p) \cup ImportsOf(p)
    BY DEF Holdings, Storage, ImportsOf
  <1> HIDE DEF lost
  <1>14. live' \in [Resources -> Int]
         /\ \A r \in Resources : live'[r] = live[r] + Bit(r, gain) - Bit(r, Holdings(p) \cup lost)
    BY <1>3, TradeFacts
  <1>15. ASSUME NEW r \in Resources
         PROVE  live'[r] = live[r] + Bit(r, gain) - Bit(r, Storage(p) \cup ImportsOf(p))
                            + (Cardinality(ContextOwners(r)') - Cardinality(ContextOwners(r)))
    <2>1. r \in lost => r \notin Storage(p) \cup ImportsOf(p)
      BY <1>1, <1>12, HoldingsFacts, ResourceKinds
    <2>2. Bit(r, Holdings(p) \cup lost) = Bit(r, Storage(p) \cup ImportsOf(p)) + Bit(r, lost)
      BY <1>13, <2>1 DEF Bit
    <2>3. Bit(r, Storage(p) \cup ImportsOf(p)) \in Int /\ Bit(r, lost) \in Int /\ Bit(r, gain) \in Int
          /\ live[r] \in Int
      BY <1>1 DEF Bit
    <2>4. live'[r] = live[r] + Bit(r, gain) - Bit(r, Holdings(p) \cup lost)
      BY <1>14
    <2>5. Bit(r, lost) = Cardinality(ContextOwners(r)) - Cardinality(ContextOwners(r)')
      BY <1>11
    <2>6. Cardinality(ContextOwners(r)) \in Int /\ Cardinality(ContextOwners(r)') \in Int
      BY CountsAreNatural
    <2> QED  BY ONLY <2>2, <2>3, <2>4, <2>5, <2>6
  <1> QED  BY <1>4, <1>9, <1>10, <1>14, <1>15 DEF Discarded

\* The pixmap that is destroyed was no owner's but its own.
LEMMA DropKeeps ==
    ASSUME DmaInv, NEW p \in Pixmaps, Exists(p), NEW extra, Discard(p, extra, {}), Put(p, NoPixmap),
           \/ extra = 0 /\ dmaCopy' = dmaCopy
           \/ extra = dmaCopy /\ dmaCopy' = 0 /\ p = screen,
           copying = NoCopy, UNCHANGED <<legacy, peer, dead, copying, inFlight, misplaced>>,
           attempted' \in BOOLEAN, dmaCopy' # 0 => attempted',
           ScreenExists'
    PROVE  DmaInv'
  <1>1. /\ contexts' \in [Contexts -> [refs : Nat, failed : BOOLEAN]] /\ References'
        /\ sources' \in [Pixmaps -> Imports] /\ destinations' \in [Pixmaps -> Imports]
        /\ sources'[p] = Untried /\ destinations'[p] = Untried
        /\ \A q \in Pixmaps : q # p => sources'[q] = sources[q] /\ destinations'[q] = destinations[q]
        /\ live' \in [Resources -> Int]
        /\ \A r \in Resources :
              live'[r] = live[r] + Bit(r, {}) - Bit(r, Storage(p) \cup ImportsOf(p))
                         + (Cardinality(ContextOwners(r)') - Cardinality(ContextOwners(r)))
    <2> DEFINE none == {}
    <2> HIDE DEF none
    <2>1. Discard(p, extra, none)
      BY DEF none
    <2>2. Discarded(p, none)
      BY ONLY <2>1, DiscardFacts, DmaInv, p \in Pixmaps, Exists(p),
        \/ extra = 0 /\ dmaCopy' = dmaCopy
        \/ extra = dmaCopy /\ dmaCopy' = 0 /\ p = screen
    <2> QED  BY <2>2 DEF none, Discarded
  <1>2. /\ pix \in [Pixmaps -> Buffers \cup {NoPixmap}] /\ BuffersAreSound /\ ImportsAreSound
        /\ live \in [Resources -> Int]
    BY DEF DmaInv, BuffersAreSound, StorageTypes
  <1>3. /\ pix' \in [Pixmaps -> Buffers \cup {NoPixmap}] /\ pix'[p] = NoPixmap
        /\ \A q \in Pixmaps : q # p => pix'[q] = pix[q]
    BY <1>2 DEF Put
  <1>4. BuffersAreSound'
    BY <1>2, <1>3 DEF BuffersAreSound, Exists
  <1>5. Untried.state = "untried" /\ Untried.context = 0 /\ Untried.fits = TRUE
    BY DEF Untried
  <1>6. ImportsAreSound'
    BY <1>1, <1>2, <1>3, <1>5 DEF ImportsAreSound, Exists
  <1>7. /\ \A q \in Pixmaps : q # p => Storage(q)' = Storage(q) /\ ImportsOf(q)' = ImportsOf(q)
        /\ Storage(p)' = {} /\ ImportsOf(p)' = {}
    BY <1>1, <1>3, <1>5 DEF Storage, ImportsOf, Exists
  <1>8. ResourcesAreOwned'
    <2>1. ASSUME NEW r \in Resources
          PROVE  live'[r] = live[r] + (Cardinality(PixmapOwners(r)') - Cardinality(PixmapOwners(r)))
                                    + (Cardinality(ContextOwners(r)') - Cardinality(ContextOwners(r)))
      <3>1. Cardinality(PixmapOwners(r)')
               = Cardinality(PixmapOwners(r)) + Bit(r, (Storage(p) \cup ImportsOf(p))')
                    - Bit(r, Storage(p) \cup ImportsOf(p))
        BY <1>2, <1>6, <1>7, HoldingsMove
      <3>2. Bit(r, (Storage(p) \cup ImportsOf(p))') = 0 /\ Bit(r, {}) = 0
        BY <1>7 DEF Bit
      <3>3. Bit(r, Storage(p) \cup ImportsOf(p)) \in Int /\ live[r] \in Int
        BY <1>2 DEF Bit
      <3>4. live'[r] = live[r] + Bit(r, {}) - Bit(r, Storage(p) \cup ImportsOf(p))
                         + (Cardinality(ContextOwners(r)') - Cardinality(ContextOwners(r)))
        BY <1>1
      <3>5. /\ Cardinality(PixmapOwners(r)) \in Nat /\ Cardinality(PixmapOwners(r)') \in Nat
            /\ Cardinality(ContextOwners(r)) \in Nat /\ Cardinality(ContextOwners(r)') \in Nat
        BY CountsAreNatural
      <3> QED  BY ONLY <3>1, <3>2, <3>3, <3>4, <3>5
    <2> QED  BY <1>1, <2>1, OwnedAgain
  <1>9. StorageTypes'
    <2>1. dmaCopy' \in 0..MaxContexts
      BY ImageAssumption DEF DmaInv, StorageTypes
    <2> QED  BY <1>1, <2>1 DEF DmaInv, StorageTypes, Resources, SourceOwns
  <1>10. CopyIsPrepared' /\ CpuStaysAway'
    <2>1. copying' = NoCopy /\ copying'.step = "none"
      BY DEF NoCopy
    <2>2. NoCopy \in [step : CopySteps, src : Pixmaps \cup {NoPixmap},
                      dst : Pixmaps \cup {NoPixmap}, wasLocked : BOOLEAN]
      BY DEF NoCopy, CopySteps
    <2> QED  BY <2>1, <2>2 DEF DmaInv, CopyIsPrepared, CpuStaysAway
  <1> QED  BY <1>4, <1>6, <1>8, <1>9, <1>10 DEF DmaInv

\* lorieExaDestroyPixmap lets go of all that the pixmap owned.
LEMMA DestroyKeeps ==
    ASSUME DmaInv, NEW p \in Pixmaps, lorieExaDestroyPixmap(p)
    PROVE  DmaInv'
  <1>1. /\ Exists(p) /\ Discard(p, 0, {}) /\ Put(p, NoPixmap) /\ copying = NoCopy /\ p # screen /\ p # root
        /\ UNCHANGED <<legacy, peer, screen, root, dead, dmaCopy, attempted, copying, inFlight, misplaced>>
    BY DEF lorieExaDestroyPixmap
  <1>2. \A q \in Pixmaps : q # p => pix'[q] = pix[q] /\ destinations'[q] = destinations[q]
    BY <1>1 DEF Put, Discard, DmaInv, BuffersAreSound, ImportsAreSound
  <1>3. ScreenExists'
    BY <1>1, <1>2 DEF DmaInv, ScreenExists, Exists
  <1>4. attempted' \in BOOLEAN /\ (dmaCopy' # 0 => attempted')
    BY <1>1 DEF DmaInv, StorageTypes
  <1> QED  BY <1>1, <1>3, <1>4, DropKeeps

\* lorieCloseScreen lets go of the screen pixmap and of the screen's copy context.
LEMMA CloseKeeps ==
    ASSUME DmaInv, lorieCloseScreen
    PROVE  DmaInv'
  <1>1. PICK p \in Pixmaps : p = screen /\ Exists(p)
    BY ScreenFacts DEF lorieCloseScreen
  <1>2. /\ Discard(p, dmaCopy, {}) /\ Put(p, NoPixmap) /\ copying = NoCopy
        /\ screen' = NoPixmap /\ root' = NoPixmap /\ dmaCopy' = 0 /\ attempted' = FALSE
        /\ UNCHANGED <<legacy, peer, dead, copying, inFlight, misplaced>>
    BY <1>1 DEF lorieCloseScreen
  <1>3. ScreenExists'
    BY <1>2 DEF ScreenExists
  <1> QED  BY <1>1, <1>2, <1>3, DropKeeps

\* The screen's pixmap is replaced: the old one goes when the new one is shown.
LEMMA SetSizeKeeps ==
    ASSUME DmaInv, NEW p \in Pixmaps, lorieRRScreenSetSize(p)
    PROVE  DmaInv'
  <1>0. PICK s \in Pixmaps : s = screen /\ Exists(s) /\ s # p
    BY ScreenFacts DEF lorieRRScreenSetSize
  <1> DEFINE gain == Owned(SharedType)
  <1>1. /\ Quiet /\ copying = NoCopy /\ ~Exists(p) /\ pix' \in Resized(p) /\ Discard(s, 0, gain)
        /\ screen' = p /\ root' = p
        /\ UNCHANGED <<legacy, peer, dead, dmaCopy, attempted, copying, inFlight, misplaced>>
    BY <1>0 DEF lorieRRScreenSetSize
  <1> HIDE DEF gain
  <1>2. /\ contexts' \in [Contexts -> [refs : Nat, failed : BOOLEAN]] /\ References'
        /\ sources' \in [Pixmaps -> Imports] /\ destinations' \in [Pixmaps -> Imports]
        /\ sources'[s] = Untried /\ destinations'[s] = Untried
        /\ \A q \in Pixmaps : q # s => sources'[q] = sources[q] /\ destinations'[q] = destinations[q]
        /\ live' \in [Resources -> Int]
        /\ \A r \in Resources :
              live'[r] = live[r] + Bit(r, gain) - Bit(r, Storage(s) \cup ImportsOf(s))
                         + (Cardinality(ContextOwners(r)') - Cardinality(ContextOwners(r)))
    <2>1. dmaCopy' = dmaCopy
      BY <1>1
    <2>2. Discard(s, 0, gain) /\ Exists(s)
      BY <1>0, <1>1
    <2>3. Discarded(s, gain)
      BY ONLY <2>1, <2>2, DmaInv, s \in Pixmaps, DiscardFacts
    <2> QED  BY <2>3 DEF Discarded
  <1>3. /\ pix \in [Pixmaps -> Buffers \cup {NoPixmap}] /\ BuffersAreSound /\ ImportsAreSound
        /\ live \in [Resources -> Int] /\ Sound(pix[s]) /\ ~pix[s].access /\ pix[p] = NoPixmap
    BY <1>0, <1>1, QuietFacts DEF DmaInv, BuffersAreSound, StorageTypes, Exists
  <1>4. PICK b \in Lock(New(SharedType)) : \E after \in lorieSetWindowPixmap(s, p, [pix EXCEPT ![p] = b]) :
           pix' = [after EXCEPT ![s] = NoPixmap]
    <2>1. PICK after \in UNION {lorieSetWindowPixmap(s, p, [pix EXCEPT ![p] = b]) : b \in Lock(New(SharedType))} :
             pix' = [after EXCEPT ![s] = NoPixmap]
      BY <1>0, <1>1, Zenon DEF Resized
    <2>2. PICK b \in Lock(New(SharedType)) : after \in lorieSetWindowPixmap(s, p, [pix EXCEPT ![p] = b])
      BY <2>1, Zenon
    <2> QED  BY <2>1, <2>2
  <1>5. Sound(b) /\ b \in Buffers /\ b.type = SharedType /\ ~b.imported /\ SharedType \in {"fd", "hw"}
    <2>1. SharedType \in {"fd", "hw"}
      BY DEF SharedType
    <2>2. Sound(New(SharedType)) /\ New(SharedType).type = SharedType /\ ~New(SharedType).imported
      BY <2>1, NewIsSound
    <2>3. Follows(New(SharedType), b) /\ Kept(New(SharedType), b)
      BY <1>4, <2>1, <2>2, LockIsSound
    <2> QED  BY <2>1, <2>2, <2>3 DEF Follows, Kept, Sound
  <1> DEFINE buffers == [pix EXCEPT ![p] = b]
  <1>6. PICK after \in lorieSetWindowPixmap(s, p, buffers) : pix' = [after EXCEPT ![s] = NoPixmap]
    BY <1>4
  <1>7. /\ buffers \in [Pixmaps -> Buffers \cup {NoPixmap}] /\ buffers[s] = pix[s] /\ buffers[p] = b
        /\ \A q \in Pixmaps : q # p => buffers[q] = pix[q]
    BY <1>0, <1>3, <1>5
  <1> HIDE DEF buffers
  <1>8. PICK u, n : /\ Follows(buffers[s], u) /\ u.type = buffers[s].type
                    /\ Follows(buffers[p], n) /\ n.type = buffers[p].type
                    /\ after \in [Pixmaps -> Buffers \cup {NoPixmap}]
                    /\ \A q \in Pixmaps : after[q] = IF q = s THEN u ELSE IF q = p THEN n ELSE buffers[q]
    BY <1>0, <1>3, <1>5, <1>6, <1>7, SetWindowFacts
  <1>9. Sound(n) /\ n # NoPixmap /\ n.type = SharedType /\ ~n.imported
    BY <1>5, <1>7, <1>8, StaysSound DEF Follows
  <1>10. /\ pix' \in [Pixmaps -> Buffers \cup {NoPixmap}] /\ pix'[s] = NoPixmap /\ pix'[p] = n
         /\ \A q \in Pixmaps : q # s /\ q # p => pix'[q] = pix[q]
    BY <1>0, <1>6, <1>7, <1>8
  <1>11. BuffersAreSound'
    BY <1>3, <1>9, <1>10 DEF BuffersAreSound, Exists
  <1>12. Untried.state = "untried" /\ Untried.context = 0 /\ Untried.fits = TRUE
    BY DEF Untried
  <1>13. sources[p].state # "imported" /\ destinations[p].state # "imported" /\ destinations[p].context = 0
    BY <1>1, <1>3 DEF ImportsAreSound
  <1>14. ImportsAreSound'
    BY <1>0, <1>2, <1>3, <1>10, <1>12, <1>13 DEF ImportsAreSound, Exists
  <1>15. ScreenExists'
    BY <1>0, <1>1, <1>2, <1>9, <1>10, <1>13 DEF ScreenExists, Exists
  <1>16. /\ \A q \in Pixmaps : q # s /\ q # p => Storage(q)' = Storage(q) /\ ImportsOf(q)' = ImportsOf(q)
         /\ Storage(s)' = {} /\ ImportsOf(s)' = {} /\ Storage(p) = {} /\ ImportsOf(p) = {}
         /\ Storage(p)' = gain /\ ImportsOf(p)' = {}
    BY <1>0, <1>1, <1>2, <1>9, <1>10, <1>12, <1>13 DEF Storage, ImportsOf, Exists, gain
  <1>17. ResourcesAreOwned'
    <2>1. ASSUME NEW r \in Resources
          PROVE  live'[r] = live[r] + (Cardinality(PixmapOwners(r)') - Cardinality(PixmapOwners(r)))
                                    + (Cardinality(ContextOwners(r)') - Cardinality(ContextOwners(r)))
      <3> DEFINE S == PixmapOwners(r)
                 T == PixmapOwners(r)'
      <3>1. S \in SUBSET Pixmaps /\ T \in SUBSET Pixmaps
        BY DEF PixmapOwners
      <3>2. \A q \in Pixmaps : q # s /\ q # p => (q \in S <=> q \in T)
        BY <1>3, <1>14, <1>16, HoldingsFacts, HoldingsNext
      <3>3. /\ Bit(s, S) = Bit(r, Storage(s) \cup ImportsOf(s)) /\ Bit(s, T) = 0
            /\ Bit(p, S) = 0 /\ Bit(p, T) = Bit(r, gain)
        BY <1>3, <1>14, <1>16, HoldingsFacts, HoldingsNext DEF Bit
      <3>4. /\ Bit(r, Storage(s) \cup ImportsOf(s)) \in Int /\ live[r] \in Int /\ Bit(r, gain) \in Int
        BY <1>3 DEF Bit
      <3>5. live'[r] = live[r] + Bit(r, gain) - Bit(r, Storage(s) \cup ImportsOf(s))
                         + (Cardinality(ContextOwners(r)') - Cardinality(ContextOwners(r)))
        BY <1>2
      <3>6. Cardinality(ContextOwners(r)) \in Nat /\ Cardinality(ContextOwners(r)') \in Nat
        BY CountsAreNatural
      <3> HIDE DEF S, T
      <3>7. /\ Cardinality(S) \in Nat /\ Cardinality(T) \in Nat
            /\ Cardinality(T) = Cardinality(S) + Bit(s, T) - Bit(s, S) + Bit(p, T) - Bit(p, S)
        <4>1. s \in Pixmaps /\ p \in Pixmaps /\ s # p
          BY <1>0
        <4> QED  BY ONLY <3>1, <3>2, <4>1, Finite, CountTwo
      <3>8. live'[r] = live[r] + (Cardinality(T) - Cardinality(S))
                                    + (Cardinality(ContextOwners(r)') - Cardinality(ContextOwners(r)))
        BY ONLY <3>3, <3>4, <3>5, <3>6, <3>7
      <3> QED  BY <3>8 DEF S, T
    <2> QED  BY <1>1, <1>2, <2>1, OwnedAgain
  <1>18. StorageTypes'
    BY <1>1, <1>2 DEF DmaInv, StorageTypes, Resources, SourceOwns
  <1>19. CopyIsPrepared' /\ CpuStaysAway'
    <2>1. copying' = NoCopy /\ copying'.step = "none"
      BY <1>1 DEF NoCopy
    <2>2. NoCopy \in [step : CopySteps, src : Pixmaps \cup {NoPixmap},
                      dst : Pixmaps \cup {NoPixmap}, wasLocked : BOOLEAN]
      BY DEF NoCopy, CopySteps
    <2> QED  BY <1>1, <2>1, <2>2 DEF DmaInv, CopyIsPrepared, CpuStaysAway
  <1> QED  BY <1>1, <1>11, <1>14, <1>15, <1>17, <1>18, <1>19 DEF DmaInv

-----------------------------------------------------------------------------
\* The theorems.

\* The invariant holds at the start.
LEMMA DmaInitially == Init => DmaInv
  <1> SUFFICES ASSUME Init PROVE DmaInv
    OBVIOUS
  <1>1. /\ legacy \in BOOLEAN /\ pix = [p \in Pixmaps |-> NoPixmap] /\ peer = "none"
        /\ screen = NoPixmap /\ root = NoPixmap /\ dead = FALSE
        /\ live = [r \in Resources |-> 0]
        /\ contexts = [c \in Contexts |-> [refs |-> 0, failed |-> FALSE]]
        /\ dmaCopy = 0 /\ attempted = FALSE
        /\ sources = [p \in Pixmaps |-> Untried] /\ destinations = [p \in Pixmaps |-> Untried]
        /\ copying = NoCopy /\ inFlight = FALSE /\ misplaced = {}
    BY DEF Init, StorageInit, Resources
  <1>2. /\ Untried \in Imports /\ Untried.state = "untried" /\ Untried.context = 0 /\ Untried.fits = TRUE
        /\ 0 \in 0..MaxContexts
    <2>1. 0 \in 0..MaxContexts
      BY ImageAssumption
    <2> QED  BY <2>1 DEF Untried, Imports
  <1>3. /\ NoCopy \in [step : CopySteps, src : Pixmaps \cup {NoPixmap},
                        dst : Pixmaps \cup {NoPixmap}, wasLocked : BOOLEAN]
        /\ NoCopy.step = "none"
    BY DEF NoCopy, CopySteps
  <1>4. BuffersAreSound /\ ScreenExists
    BY <1>1 DEF BuffersAreSound, ScreenExists, Exists
  <1>5. ImportsAreSound
    BY <1>1, <1>2 DEF ImportsAreSound
  <1>6. CopyIsPrepared /\ CpuStaysAway
    BY <1>1, <1>3 DEF CopyIsPrepared, CpuStaysAway
  <1>7. StorageTypes
    <2>1. contexts \in [Contexts -> [refs : Nat, failed : BOOLEAN]]
      BY <1>1
    <2>2. live \in [Resources -> Int]
      BY <1>1
    <2> QED  BY <1>1, <1>2, <2>1, <2>2 DEF StorageTypes
  <1>8. ResourcesAreOwned
    <2>1. \A r : /\ {p \in Pixmaps : Exists(p) /\ r \in Holdings(p)} = {}
                 /\ {c \in Contexts : contexts[c].refs > 0 /\ r \in ContextResources} = {}
                 /\ r \notin Owned(peer)
      BY <1>1 DEF Exists, Owned
    <2>2. \A c \in Contexts : /\ {p \in Pixmaps : sources[p].context = c} = {}
                              /\ {p \in Pixmaps : destinations[p].context = c} = {}
                              /\ dmaCopy # c /\ contexts[c].refs = 0
      BY <1>1, <1>2, ImageAssumption DEF Contexts
    <2>3. Cardinality({}) = 0
      BY FS_EmptySet
    <2>4. \A r : Owners(r) = 0
      BY <2>1, <2>3 DEF Owners
    <2>5. DOMAIN live = Resources /\ \A r \in Resources : live[r] = 0
      BY <1>1
    <2>6. \A c \in Contexts :
             contexts[c].refs = Cardinality({p \in Pixmaps : sources[p].context = c})
                                + Cardinality({p \in Pixmaps : destinations[p].context = c})
                                + (IF dmaCopy = c THEN 1 ELSE 0)
      <3> TAKE c \in Contexts
      <3> DEFINE S == {p \in Pixmaps : sources[p].context = c}
                 T == {p \in Pixmaps : destinations[p].context = c}
      <3>1. S = {} /\ T = {} /\ dmaCopy # c /\ contexts[c].refs = 0
        BY <2>2
      <3> HIDE DEF S, T
      <3>2. contexts[c].refs = Cardinality(S) + Cardinality(T) + (IF dmaCopy = c THEN 1 ELSE 0)
        BY <2>3, <3>1
      <3> QED  BY <3>2 DEF S, T
    <2> QED  BY <2>4, <2>5, <2>6 DEF ResourcesAreOwned
  <1> QED  BY <1>1, <1>4, <1>5, <1>6, <1>7, <1>8 DEF DmaInv

\* The invariant is about the variables of the model only.
LEMMA DmaStutters == DmaInv /\ UNCHANGED vars => DmaInv'
  <1> SUFFICES ASSUME DmaInv, UNCHANGED vars PROVE DmaInv'
    OBVIOUS
  <1>1. UNCHANGED <<legacy, pix, live, peer, screen, root, dead, contexts, dmaCopy, attempted, sources,
                    destinations, copying, inFlight, misplaced>>
    BY DEF vars, storageVars, dmaVars
  <1>2. StorageTypes' /\ BuffersAreSound' /\ ScreenExists' /\ ImportsAreSound' /\ ResourcesAreOwned'
    BY <1>1, PixmapsKeep DEF DmaInv, StorageTypes
  <1>3. CopyIsPrepared' /\ CpuStaysAway'
    BY <1>1 DEF DmaInv, CopyIsPrepared, CpuStaysAway, Exists
  <1> QED  BY <1>1, <1>2, <1>3 DEF DmaInv

\* The invariant: buffers and their mappings, imports and their contexts, and the
\* copy under way fit together after every call of the server thread.
THEOREM DmaInvariant == Spec => []DmaInv
  <1>1. ASSUME DmaInv, Next PROVE DmaInv'
    <2>1. CASE StorageNext /\ copying = NoCopy /\ UNCHANGED dmaVars
      BY <1>1, <2>1, StorageStep
    <2>2. ASSUME NEW s \in Pixmaps, NEW d \in Pixmaps, Begin(s, d) PROVE DmaInv'
      BY <1>1, <2>2, BeginKeeps
    <2>3. CASE MakeContext
      BY <1>1, <2>3, MakeContextKeeps
    <2>4. ASSUME NEW size \in FileSizes, NEW padding \in Paddings, ImportSource(size, padding) PROVE DmaInv'
      BY <1>1, <2>4, ImportSourceKeeps
    <2>5. CASE ImportDestination
      BY <1>1, <2>5, ImportDestinationKeeps
    <2>6. CASE LetGo
      BY <1>1, <2>6, LetGoKeeps
    <2>7. ASSUME NEW sx \in 0..(Width - 1), NEW sy \in 0..(Height - 1), NEW width \in 1..Width,
                 NEW height \in 1..Height, lorieDmaCopy(sx, sy, width, height)
          PROVE  DmaInv'
      BY <1>1, <2>7, DmaCopyKeeps
    <2>8. CASE lorieDoneDmaCopy
      BY <1>1, <2>8, DoneKeeps
    <2>9. ASSUME NEW p \in Pixmaps, lorieExaDestroyPixmap(p) PROVE DmaInv'
      BY <1>1, <2>9, DestroyKeeps
    <2>10. ASSUME NEW p \in Pixmaps, lorieRRScreenSetSize(p) PROVE DmaInv'
      BY <1>1, <2>10, SetSizeKeeps
    <2>11. CASE lorieCloseScreen
      BY <1>1, <2>11, CloseKeeps
    <2> QED  BY <1>1, <2>1, <2>2, <2>3, <2>4, <2>5, <2>6, <2>7, <2>8, <2>9, <2>10, <2>11 DEF Next
  <1> QED  BY <1>1, DmaInitially, DmaStutters, PTL DEF Spec

\* What the CPU uses is mapped where the storage is now, with the pitch of that
\* storage, and a DMA-BUF is announced to the kernel exactly while it is locked:
\* after any sequence of the EXA, DRI3 and Present hooks, whatever fails in them.
THEOREM AccessCorrect == Spec => []CpuAccessIsSound
  <1>1. DmaInv => CpuAccessIsSound
    <2> SUFFICES ASSUME DmaInv, NEW p \in Pixmaps, Exists(p)
                 PROVE  /\ pix[p].type # "none" /\ ~pix[p].mem /\ ~pix[p].lost =>
                              /\ pix[p].ptr # "none" => pix[p].held /\ pix[p].ptr = pix[p].type
                              /\ pix[p].held => pix[p].ptr # "none"
                              /\ pix[p].pitch = pix[p].stride
                        /\ pix[p].dma /\ ~pix[p].lost =>
                              /\ pix[p].sync = pix[p].held
                              /\ pix[p].access /\ ~pix[p].mem => pix[p].sync
      BY DEF CpuAccessIsSound, MappingIsCurrent, DmaAccessIsBracketed
    <2>1. Sound(pix[p]) /\ pix[p].sync \in BOOLEAN /\ pix[p].held \in BOOLEAN
      BY QuietFacts DEF Buffers
    <2> QED  BY <2>1 DEF Sound
  <1> QED  BY <1>1, DmaInvariant, PTL

\* dmaCopyRect(): a copy delivers every pixel from where it was asked for and
\* reads only what was imported, the file's padding included; the CPU does not
\* map the destination meanwhile, nor go on while work may be in flight.
THEOREM CopiesCorrect == Spec => []CopiesAreSound
  <1>1. DmaInv => CopiesAreSound
    BY DEF DmaInv, CopiesAreSound, CopyIsExact, ImportsAreSound
  <1> QED  BY <1>1, DmaInvariant, PTL

\* Every descriptor, mapping, buffer and Vulkan object has exactly one owner, and
\* every context as many references as imports and users, whatever call failed.
THEOREM OwnershipCorrect == Spec => []ResourcesAreOwned
  <1>1. DmaInv => ResourcesAreOwned
    BY DEF DmaInv
  <1> QED  BY <1>1, DmaInvariant, PTL
=============================================================================
