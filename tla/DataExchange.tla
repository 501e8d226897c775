---------------------------- MODULE DataExchange ----------------------------
(***************************************************************************)
(* Clipboard and drag-and-drop between X clients and the host, as          *)
(* data_exchange.c carries them.                                           *)
(*                                                                         *)
(* Either side may own a selection.  When an X client owns it, the host    *)
(* READs it: the server asks the owner on a window of its own, receives    *)
(* the property (in pieces with INCR) and answers with one REPLY.  When    *)
(* the host owns it, a client converts it: the server sends a REQUEST, the *)
(* host answers with a file, and the client receives it in one property or *)
(* in pieces.  All these transfers share one table of slots, each with a   *)
(* deadline.  A drag into an X window is an XDND conversation with one     *)
(* target at a time; a drag out of X is held by a catcher window.          *)
(*                                                                         *)
(* The X server is one thread: an action is one request of a client, one   *)
(* command of the host, one timer or one deferred work item, whole.  The   *)
(* host and the clients act at any time, so a late message is just an      *)
(* action taken late.  A chunk is one unit of size.                        *)
(***************************************************************************)
EXTENDS Integers, FiniteSets, Sequences

CONSTANTS
    Owners,           \* windows of X clients that own selections
    DragTargets,      \* XDND-aware windows
    None,
    Outputs,
    HostGenerations,  \* generation ids the host gives its own offers
    MaxPending,       \* slots, 16 in the code
    MaxBytes,         \* LORIE_DATA_MAX_BYTES, in chunks
    \* bounds
    Budgets           \* the mixes of events explored: how many of each kind may happen

Channels == {0, 1}    \* the clipboard and XdndSelection
Slots == 1..MaxPending
Kinds == {"owners", "offers", "reads", "converts", "gone", "drags", "moves", "drops", "exports", "resets"}

ASSUME ConstantsAssumption ==
    /\ None \notin Owners \cup DragTargets
    /\ Outputs \subseteq Nat \ {0}
    /\ HostGenerations \subseteq Nat \ {0}
    /\ MaxPending \in Nat \ {0} /\ MaxBytes \in Nat
    /\ Budgets \subseteq [Kinds -> 0..9]

VARIABLES
    enabled,          \* exchange enabled, and the bridge window exists
    clipboardActive,
    pointerDown, pointerOutput,   \* the first button, and where it was pressed last
    sequence,         \* generations of X offers
    transferSequence, requestSequence,
    owner,            \* who owns each selection in the X server
    offers, transfers,
    work,             \* deferred propertyWork items
    drag, export,
    \* history
    reads,            \* the answers to each of the host's READs
    outcomes,         \* whether the transfers that succeeded were whole
    left              \* how many events of each kind are left

counters == <<sequence, transferSequence, requestSequence>>
flags == <<enabled, clipboardActive, pointerDown, pointerOutput>>
vars == <<flags, counters, owner, offers, transfers, work, drag, export, reads, outcomes, left>>

Bridge == "bridge"

\* alive and prop are the requestor's window and the property on it; taken counts what was read
\* from that property (outgoing) or written to it (incoming).
Free == [used |-> FALSE, incoming |-> FALSE, incremental |-> FALSE, list |-> FALSE, serial |-> 0,
         generation |-> 0, ticket |-> 0, queued |-> FALSE, channel |-> 0, size |-> 0, offset |-> 0,
         alive |-> FALSE, prop |-> "none", replied |-> FALSE, taken |-> 0]
NoOffer == [generation |-> 0, owner |-> None, local |-> FALSE]

\* owes, due, drops, finishes and lost are history: positions without a status, drops without a
\* finish, DROP commands and FINISH events so far, and whether a pending drop was left with nothing
\* to wait for: its data was released without a word to it, or the last position has no target.
NoDrag == [target |-> None, source |-> FALSE, accepted |-> FALSE, positionPending |-> FALSE,
           dropPending |-> FALSE, moveQueued |-> FALSE, revision |-> 0, positionRevision |-> 0,
           owes |-> [d \in DragTargets |-> 0], due |-> {}, drops |-> 0, finishes |-> 0, lost |-> FALSE]
NoExport == [source |-> None, dropped |-> FALSE, completed |-> FALSE, output |-> 0]

Init ==
    /\ enabled = FALSE /\ clipboardActive = FALSE /\ pointerDown = FALSE /\ pointerOutput = 0
    /\ sequence = 0 /\ transferSequence = 0 /\ requestSequence = 0
    /\ owner = [c \in Channels |-> None]
    /\ offers = [c \in Channels |-> NoOffer]
    /\ transfers = [i \in Slots |-> Free]
    /\ work = <<>>
    /\ drag = NoDrag /\ export = NoExport
    /\ reads = <<>> /\ outcomes = {}
    /\ left \in Budgets

Spends(kind) == left[kind] > 0 /\ left' = [left EXCEPT ![kind] = @ - 1]

-----------------------------------------------------------------------------
(* The XDND conversation: what a handler does to the drag.                 *)

\* moveDrag() at a point over the window hit: None over no aware window, "outside" when the
\* output has no such point.  A move that finds a position unanswered is remembered.
moveDrag(d, hit) ==
    IF d.positionPending THEN [d EXCEPT !.moveQueued = TRUE]
    ELSE IF hit = "outside" THEN d
    ELSE [d EXCEPT !.target = hit,
                   !.accepted = @ /\ hit = d.target,
                   !.positionPending = hit # None,
                   !.positionRevision = IF hit = None THEN @ ELSE d.revision,
                   !.owes = [x \in DragTargets |-> IF x = hit THEN @[x] + 1 ELSE @[x]]]

dragDataPending(ts) ==
    \E i \in Slots : /\ ts[i].used /\ ~ts[i].incoming /\ ts[i].channel = 1
                     /\ ts[i].generation = offers[1].generation

rejectDrag(d) == [d EXCEPT !.dropPending = FALSE, !.target = None, !.finishes = @ + 1]

\* dropDrag(): a drop waits for the status of the last position, and for data on its way to a
\* target that has not accepted; data that arrived since calls for another position.
dropDrag(d, ts, hit) ==
    LET refused == d.target # None /\ ~d.accepted IN
    CASE d.positionPending \/ (refused /\ dragDataPending(ts)) -> [d EXCEPT !.dropPending = TRUE]
      [] ~d.positionPending /\ refused /\ ~dragDataPending(ts) /\ d.revision # d.positionRevision
           -> moveDrag([d EXCEPT !.dropPending = TRUE, !.lost = @ \/ hit \notin DragTargets], hit)
      [] ~d.positionPending /\ d.target # None /\ d.accepted
           -> [d EXCEPT !.dropPending = FALSE, !.due = @ \cup {d.target}]
      [] OTHER -> rejectDrag(d)

\* A transfer to the drag's target ended.
Concerns(t) ==
    /\ ~t.incoming /\ t.channel = 1 /\ t.generation = offers[1].generation
    /\ drag.target # None

\* mutant: a drop that waits for the data is forgotten
RevisionOnly(t, success, ts, hit) == IF success THEN [drag EXCEPT !.revision = @ + 1] ELSE drag
selectionFinished(t, success, ts, hit) ==
    LET next == IF success THEN [drag EXCEPT !.revision = @ + 1] ELSE drag IN
    CASE ~Concerns(t) -> drag
      [] Concerns(t) /\ ~drag.dropPending -> next
      [] Concerns(t) /\ drag.dropPending -> IF success THEN dropDrag(next, ts, hit) ELSE rejectDrag(next)

Hits == DragTargets \cup {None, "outside"}

-----------------------------------------------------------------------------
(* Transfers.                                                              *)

Release(S) == [i \in Slots |-> IF i \in S THEN Free ELSE transfers[i]]

\* The REPLY that ends a READ, or several; a request for the list of targets has none.
Answer(S, result) ==
    [s \in DOMAIN reads |->
        IF \E i \in S : transfers[i].incoming /\ ~transfers[i].list /\ transfers[i].serial = s
        THEN Append(reads[s], result) ELSE reads[s]]

\* fail() for every slot of S: the reader or the requestor is told, the slot is released, and
\* a drop that waited for one of them is rejected.
FailedDrag(S) ==
    IF drag.dropPending /\ \E i \in S : Concerns(transfers[i]) THEN rejectDrag(drag) ELSE drag

fail(S) ==
    /\ transfers' = Release(S)
    /\ reads' = Answer(S, "failed")
    /\ drag' = FailedDrag(S)
    /\ UNCHANGED outcomes

\* allocate() takes the first slot that is not used in ts.
Full(ts) == \A i \in Slots : ts[i].used
FirstFree(ts) == CHOOSE i \in Slots : ~ts[i].used /\ \A j \in Slots : ~ts[j].used => i <= j
allocate(ts, t) == [ts EXCEPT ![FirstFree(ts)] = [t EXCEPT !.used = TRUE, !.ticket = transferSequence + 1]]

\* request() has an owner to ask.
Askable(o, channel, generation, holder) ==
    /\ ~o.local /\ o.generation = generation
    /\ holder \notin {None, Bridge} /\ holder = o.owner

Incoming(channel, serial, generation, list) ==
    [Free EXCEPT !.incoming = TRUE, !.channel = channel, !.serial = serial, !.generation = generation,
                 !.list = list, !.alive = TRUE]

\* mutant: a READ that cannot be served is not answered
ReadSilently(channel, generation, made) ==
    LET asks == Askable(offers[channel], channel, generation, owner[channel]) /\ ~Full(transfers) IN
    /\ enabled /\ Spends("reads")
    /\ reads' = Append(reads, <<>>)
    /\ transfers' = IF asks /\ made
                    THEN allocate(transfers, Incoming(channel, Len(reads) + 1, generation, FALSE)) ELSE transfers
    /\ transferSequence' = IF asks THEN transferSequence + 1 ELSE transferSequence
    /\ UNCHANGED <<flags, sequence, requestSequence, owner, offers, work, drag, export, outcomes>>

\* The host READs an offer.  made: the server could create the requestor window.
Read(channel, generation, made) ==
    LET serial == Len(reads) + 1
        asks == Askable(offers[channel], channel, generation, owner[channel]) /\ ~Full(transfers)
    IN  /\ enabled /\ Spends("reads")
        /\ reads' = Append(reads, IF asks /\ made THEN <<>> ELSE <<"failed">>)
        /\ transferSequence' = IF asks THEN transferSequence + 1 ELSE transferSequence
        /\ transfers' = IF asks /\ made
                        THEN allocate(transfers, Incoming(channel, serial, generation, FALSE)) ELSE transfers
        /\ UNCHANGED <<flags, sequence, requestSequence, owner, offers, work, drag, export, outcomes>>

\* What receive() makes of the property p on the requestor's window of slot i.
Refused(t, p, initial) ==
    \/ p \in {"none", "bad"}
    \/ t.generation # offers[t.channel].generation
    \/ p = "incr" /\ (~initial \/ t.list)
    \/ p = "data" /\ ~t.list /\ t.size = MaxBytes
Begins(t, p, initial) == p = "incr" /\ initial /\ ~t.list
Completes(t, p) == t.list \/ ~t.incremental \/ p = "end"

\* taken: what the owner has written, this property included.
receive(i, p, initial, taken) ==
    LET t == transfers[i]
        size == t.size + (IF p = "data" THEN 1 ELSE 0)
    IN  \/ /\ Refused(t, p, initial)
           /\ fail({i})
        \/ /\ ~Refused(t, p, initial) /\ Begins(t, p, initial)
           /\ transfers' = [transfers EXCEPT ![i].incremental = TRUE, ![i].queued = FALSE, ![i].prop = "none"]
           /\ UNCHANGED <<reads, drag, outcomes>>
        \/ /\ ~Refused(t, p, initial) /\ ~Begins(t, p, initial) /\ Completes(t, p)
           /\ transfers' = Release({i})
           /\ reads' = Answer({i}, "ok")
           /\ outcomes' = IF t.list THEN outcomes
                          ELSE outcomes \cup {IF size = taken THEN "whole" ELSE "partial"}
           /\ UNCHANGED drag
        \/ /\ ~Refused(t, p, initial) /\ ~Begins(t, p, initial) /\ ~Completes(t, p)
           /\ transfers' = [transfers EXCEPT ![i].size = size, ![i].taken = taken,
                                             ![i].queued = FALSE, ![i].prop = "none"]
           /\ UNCHANGED <<reads, drag, outcomes>>

\* The owner answers the SelectionRequest: it has put p on the requestor's window, or refuses.
\* A client that follows ICCCM answers once.
SelectionNotify(i, p) ==
    /\ transfers[i].used /\ transfers[i].incoming /\ ~transfers[i].incremental
    /\ receive(i, p, TRUE, IF p = "data" THEN 1 ELSE 0)
    /\ UNCHANGED <<flags, counters, owner, offers, work, export, left>>

\* propertyChanged(): the work of a transfer in pieces, at most one at a time.
PropertyWork(i) ==
    IF transfers[i].incremental /\ ~transfers[i].queued
    THEN work' = Append(work, [slot |-> i, ticket |-> transfers[i].ticket])
    ELSE UNCHANGED work

\* The owner puts the next piece, or the empty one that ends the transfer, on the window.
OwnerWrites(i, p) ==
    LET t == transfers[i] IN
    /\ t.used /\ t.incoming /\ t.incremental /\ t.prop = "none"
    /\ transfers' = [transfers EXCEPT ![i].prop = p, ![i].queued = TRUE,
                                      ![i].taken = IF p = "data" THEN @ + 1 ELSE @]
    /\ PropertyWork(i)
    /\ UNCHANGED <<flags, counters, owner, offers, drag, export, reads, outcomes, left>>

\* sendChunk(): rc is whether the X server could store the property.
sendChunk(i, rc, hit) ==
    LET t == transfers[i]
        length == IF t.size > t.offset THEN 1 ELSE 0
    IN  \/ /\ ~t.alive
           /\ transfers' = Release({i})
           /\ drag' = selectionFinished(t, FALSE, Release({i}), hit)
           /\ UNCHANGED outcomes
        \/ /\ t.alive /\ rc /\ length = 1
           /\ transfers' = [transfers EXCEPT ![i].offset = @ + 1, ![i].queued = FALSE, ![i].prop = "data"]
           /\ UNCHANGED <<drag, outcomes>>
        \/ /\ t.alive /\ (~rc \/ length = 0)
           /\ transfers' = Release({i})
           /\ drag' = selectionFinished(t, rc, Release({i}), hit)
           /\ outcomes' = IF ~rc THEN outcomes
                          ELSE outcomes \cup {IF t.taken = t.size THEN "whole" ELSE "partial"}

\* mutant: work runs for whatever transfer has the slot now
AnyTicket(w) == enabled /\ transfers[w.slot].used

\* The deferred work of the first item: only for the transfer it was queued for.
Current(w) == enabled /\ transfers[w.slot].used /\ transfers[w.slot].ticket = w.ticket
propertyWork(rc, hit) ==
    LET w == Head(work) IN
    /\ work # <<>>
    /\ work' = Tail(work)
    /\ \/ /\ Current(w) /\ transfers[w.slot].incoming
          /\ receive(w.slot, transfers[w.slot].prop, FALSE, transfers[w.slot].taken)
       \/ /\ Current(w) /\ ~transfers[w.slot].incoming
          /\ sendChunk(w.slot, rc, hit)
          /\ UNCHANGED reads
       \/ /\ ~Current(w)
          /\ UNCHANGED <<transfers, reads, drag, outcomes>>
    /\ UNCHANGED <<flags, counters, owner, offers, export, left>>

\* mutant: the deadline answers and leaves the slot in use
ExpiredInPlace(i) ==
    /\ transfers[i].used
    /\ reads' = Answer({i}, "failed")
    /\ UNCHANGED <<flags, counters, owner, offers, transfers, work, drag, export, outcomes, left>>

\* The deadline of a transfer.
expired(i) ==
    /\ transfers[i].used
    /\ fail({i})
    /\ UNCHANGED <<flags, counters, owner, offers, work, export, left>>

-----------------------------------------------------------------------------
(* Who owns a selection.                                                   *)

\* releaseExportPointer(): the button held for the exported drag is let go once.
PointerAfterExport == pointerDown /\ ~(export.output # 0 /\ export.output = pointerOutput)

endExport == export' = NoExport /\ pointerDown' = PointerAfterExport

\* selectionChanged(), for an owner that is not the bridge: an exported drag of another source
\* ends, every transfer of the channel fails, a new offer begins, and if it can be of use its
\* targets are asked for.
NewOffer(channel, w) == [generation |-> sequence + 1, owner |-> w, local |-> FALSE]
EndsExport(channel, w) == channel = 1 /\ export.source # None /\ w # export.source

selectionChanged(channel, w, lists) ==
    LET failed == {i \in Slots : transfers[i].used /\ transfers[i].channel = channel}
        wanted == lists /\ w # None /\ IF channel = 1 THEN pointerDown' ELSE clipboardActive
    IN  /\ IF EndsExport(channel, w) THEN endExport ELSE UNCHANGED <<export, pointerDown>>
        /\ reads' = Answer(failed, "failed")
        /\ drag' = FailedDrag(failed)
        /\ sequence' = sequence + 1
        /\ offers' = [offers EXCEPT ![channel] = NewOffer(channel, w)]
        /\ transfers' = IF wanted /\ ~Full(Release(failed))
                        THEN allocate(Release(failed), Incoming(channel, 0, sequence + 1, TRUE))
                        ELSE Release(failed)
        /\ transferSequence' = IF wanted /\ ~Full(Release(failed)) THEN transferSequence + 1 ELSE transferSequence
        /\ UNCHANGED <<enabled, clipboardActive, pointerOutput, requestSequence, work, outcomes>>

Unnoticed == UNCHANGED <<flags, counters, offers, transfers, work, drag, export, reads, outcomes>>

\* An X client takes or gives up a selection.
SetSelectionOwner(channel, w) ==
    /\ Spends("owners")
    /\ owner' = [owner EXCEPT ![channel] = w]
    /\ IF enabled THEN selectionChanged(channel, w, TRUE) ELSE Unnoticed

\* The owner's window is destroyed or its client leaves: the callback still sees the window.
OwnerGone(channel) ==
    /\ owner[channel] \in Owners /\ Spends("gone")
    /\ owner' = [owner EXCEPT ![channel] = None]
    /\ IF enabled THEN selectionChanged(channel, owner[channel], FALSE) ELSE Unnoticed

\* The host offers data of its own: the bridge becomes the owner, which the callback ignores.
\* Transfers of the offer before stay in their slots.
HostOffer(channel, generation) ==
    /\ enabled /\ Spends("offers")
    /\ offers' = [offers EXCEPT ![channel] = [generation |-> generation, owner |-> Bridge, local |-> TRUE]]
    /\ owner' = [owner EXCEPT ![channel] = Bridge]
    /\ drag' = [drag EXCEPT !.lost = @ \/ (channel = 1 /\ drag.dropPending /\ ~drag.positionPending)]
    /\ UNCHANGED <<flags, counters, transfers, work, export, reads, outcomes>>

-----------------------------------------------------------------------------
(* Clients convert what the host offers.                                   *)

\* A client converts: "list" is TARGETS or TIMESTAMP, answered at once; "unknown" is a target
\* that was not offered, or a window or atom that does not exist.  With every slot in use the
\* client is refused and nothing changes.
convert(channel, kind) ==
    LET t == [Free EXCEPT !.channel = channel, !.serial = requestSequence + 1,
                          !.generation = offers[channel].generation, !.alive = TRUE]
    IN  /\ enabled /\ offers[channel].local /\ Spends("converts")
        /\ requestSequence' = requestSequence + 1
        /\ transferSequence' = IF Full(transfers) THEN transferSequence ELSE transferSequence + 1
        /\ transfers' = IF kind = "offered" /\ ~Full(transfers) THEN allocate(transfers, t) ELSE transfers
        /\ drag' = IF kind = "unknown" /\ ~Full(transfers)
                   THEN selectionFinished(t, FALSE, transfers, None) ELSE drag
        /\ UNCHANGED <<flags, sequence, owner, offers, work, export, reads, outcomes>>

\* The host answers a REQUEST with a file of the given size; -1 stands for one that cannot be read.
Reply(i, size, rc, hit) ==
    LET t == [transfers[i] EXCEPT !.size = size] IN
    /\ enabled /\ t.used /\ ~t.incoming /\ ~t.replied
    /\ \/ /\ size = -1 \/ size > MaxBytes
          /\ fail({i})
       \/ /\ size \in 0..MaxBytes /\ ~t.alive        \* the drag is not told
          /\ transfers' = Release({i})
          /\ drag' = [drag EXCEPT !.lost = @ \/ (drag.dropPending /\ Concerns(t))]
          /\ UNCHANGED outcomes
       \/ /\ size \in 2..MaxBytes /\ t.alive /\ rc   \* INCR
          /\ transfers' = [transfers EXCEPT ![i] = [t EXCEPT !.incremental = TRUE, !.prop = "incr", !.replied = TRUE]]
          /\ UNCHANGED <<drag, outcomes>>
       \/ /\ size \in 2..MaxBytes /\ t.alive /\ ~rc
          /\ transfers' = Release({i})
          /\ drag' = [drag EXCEPT !.lost = @ \/ (drag.dropPending /\ Concerns(t))]
          /\ UNCHANGED outcomes
       \/ /\ size \in 0..1 /\ size <= MaxBytes /\ t.alive
          /\ transfers' = Release({i})
          /\ drag' = selectionFinished(t, rc, Release({i}), hit)
          /\ outcomes' = outcomes \cup (IF rc THEN {"whole"} ELSE {})
    /\ UNCHANGED <<flags, counters, owner, offers, work, export, left>>
    /\ UNCHANGED reads

\* The client has read a property of a transfer in pieces and deletes it.
ClientDeletes(i) ==
    LET t == transfers[i] IN
    /\ t.used /\ ~t.incoming /\ t.incremental /\ t.alive /\ t.prop # "none"
    /\ transfers' = [transfers EXCEPT ![i].prop = "none", ![i].queued = TRUE,
                                      ![i].taken = IF t.prop = "data" THEN @ + 1 ELSE @]
    /\ PropertyWork(i)
    /\ UNCHANGED <<flags, counters, owner, offers, drag, export, reads, outcomes, left>>

\* The client destroys the requestor: its properties go first.
ClientDestroys(i) ==
    LET t == transfers[i] IN
    /\ t.used /\ ~t.incoming /\ t.alive /\ Spends("gone")
    /\ transfers' = [transfers EXCEPT ![i].alive = FALSE, ![i].prop = "none",
                                      ![i].queued = @ \/ (t.incremental /\ t.prop # "none")]
    /\ IF t.prop # "none" THEN PropertyWork(i) ELSE UNCHANGED work
    /\ UNCHANGED <<flags, counters, owner, offers, drag, export, reads, outcomes>>

-----------------------------------------------------------------------------
(* A drag of the host over X windows.                                      *)

Unmoved == UNCHANGED <<flags, counters, owner, offers, transfers, work, export, reads, outcomes>>

Quiet(d) == [d EXCEPT !.target = None, !.accepted = FALSE,
                      !.moveQueued = FALSE, !.dropPending = FALSE, !.positionPending = FALSE]

Enter(x, generation) ==
    LET passthrough == x /\ ~offers[1].local /\ offers[1].generation = generation IN
    /\ enabled /\ Spends("drags")
    /\ drag' = IF passthrough \/ offers[1].local
               THEN [Quiet(drag) EXCEPT !.source = TRUE, !.revision = 0, !.positionRevision = 0]
               ELSE [drag EXCEPT !.source = TRUE]
    /\ Unmoved

\* The host ENTERs before it moves, leaves or drops, and does not move after it has dropped.
Move(hit) == enabled /\ drag.source /\ ~drag.dropPending /\ Spends("moves") /\ drag' = moveDrag(drag, hit) /\ Unmoved

Leave == enabled /\ drag.source /\ Spends("moves") /\ drag' = Quiet(drag) /\ Unmoved

Drop(hit) ==
    /\ enabled /\ drag.source /\ Spends("drops")
    /\ drag' = dropDrag([drag EXCEPT !.drops = @ + 1], transfers, hit)
    /\ Unmoved

\* The target answers a position; a move or a drop that waited for the answer goes on.
Status(d, accepts, hit) ==
    LET heard == [drag EXCEPT !.positionPending = FALSE, !.accepted = accepts, !.moveQueued = FALSE,
                              !.owes[d] = @ - 1]
        moved == IF drag.moveQueued THEN moveDrag(heard, hit) ELSE heard
    IN  /\ drag.owes[d] > 0
        /\ drag' = CASE ~(enabled /\ drag.source /\ drag.target = d) -> [drag EXCEPT !.owes[d] = @ - 1]
                     [] enabled /\ drag.source /\ drag.target = d ->
                            IF moved.dropPending THEN dropDrag(moved, transfers, hit) ELSE moved
        /\ Unmoved /\ UNCHANGED left

Finished(d) ==
    /\ d \in drag.due
    /\ drag' = IF enabled /\ drag.source /\ drag.target = d
               THEN [drag EXCEPT !.target = None, !.finishes = @ + 1, !.due = @ \ {d}]
               ELSE [drag EXCEPT !.due = @ \ {d}]
    /\ Unmoved /\ UNCHANGED left

-----------------------------------------------------------------------------
(* A drag of an X client that the host carries on.                         *)

\* lorieDataPointer()
Pointer(output, down) ==
    /\ Spends("exports")
    /\ down \/ pointerOutput = output
    /\ pointerDown' = down /\ pointerOutput' = output
    /\ UNCHANGED <<enabled, clipboardActive, counters, owner, offers, transfers, work, drag, export, reads, outcomes>>

beginExport ==
    /\ enabled /\ Spends("exports")
    /\ export.source = None /\ ~offers[1].local /\ offers[1].owner # None /\ pointerDown
    /\ export' = [NoExport EXCEPT !.source = offers[1].owner, !.output = pointerOutput]
    /\ UNCHANGED <<flags, counters, owner, offers, transfers, work, drag, reads, outcomes>>

\* The source drops on the catcher.
DropOnCatcher ==
    /\ enabled /\ export.source # None /\ owner[1] = export.source /\ ~export.dropped
    /\ IF export.completed THEN endExport
       ELSE export' = [export EXCEPT !.dropped = TRUE] /\ UNCHANGED pointerDown
    /\ UNCHANGED <<enabled, clipboardActive, pointerOutput, counters, owner, offers, transfers, work, drag, reads, outcomes, left>>

\* FINISH or CANCEL from the host: the end of an exported drag, or of the drag over X windows.
HostEnds ==
    /\ enabled /\ Spends("drags")
    /\ IF export.source # None /\ export.dropped THEN endExport
       ELSE IF export.source # None
       THEN /\ export' = [export EXCEPT !.completed = TRUE, !.output = 0]
            /\ pointerDown' = PointerAfterExport
       ELSE UNCHANGED <<export, pointerDown>>
    /\ drag' = Quiet(drag)
    /\ UNCHANGED <<enabled, clipboardActive, pointerOutput, counters, owner, offers, transfers, work, reads, outcomes>>

exportExpired ==
    /\ export.source # None
    /\ endExport
    /\ UNCHANGED <<enabled, clipboardActive, pointerOutput, counters, owner, offers, transfers, work, drag, reads, outcomes, left>>

-----------------------------------------------------------------------------
Enable(active) ==
    /\ enabled' = TRUE /\ clipboardActive' = active
    /\ ~enabled \/ active # clipboardActive
    /\ UNCHANGED <<pointerDown, pointerOutput, counters, owner, offers, transfers, work, drag, export, reads, outcomes, left>>

\* lorieDataReset(): the connection is gone, and with it whoever waits for an answer.
Reset ==
    /\ Spends("resets")
    /\ export' = NoExport
    /\ enabled' = FALSE /\ clipboardActive' = FALSE /\ pointerDown' = FALSE
    /\ transfers' = Release(Slots)
    /\ owner' = [c \in Channels |-> IF owner[c] = Bridge THEN None ELSE owner[c]]
    /\ drag' = [Quiet(drag) EXCEPT !.source = FALSE, !.accepted = drag.accepted]
    /\ offers' = [c \in Channels |-> NoOffer]
    /\ reads' = [s \in DOMAIN reads |-> IF reads[s] = <<>> THEN <<"reset">> ELSE reads[s]]
    /\ UNCHANGED <<pointerOutput, counters, work, outcomes>>

Next ==
    \/ \E active \in BOOLEAN : Enable(active)
    \/ Reset
    \/ \E c \in Channels, w \in Owners \cup {None} : SetSelectionOwner(c, w)
    \/ \E c \in Channels : OwnerGone(c)
    \/ \E c \in Channels, g \in HostGenerations : HostOffer(c, g)
    \/ \E c \in Channels, g \in 1..sequence, made \in BOOLEAN : Read(c, g, made)
    \/ \E i \in Slots, p \in {"none", "bad", "incr", "data", "end"} : SelectionNotify(i, p)
    \/ \E i \in Slots, p \in {"bad", "data", "end"} : OwnerWrites(i, p)
    \/ \E rc \in BOOLEAN, hit \in Hits : propertyWork(rc, hit)
    \/ \E i \in Slots : expired(i)
    \/ \E c \in Channels, kind \in {"list", "unknown", "offered"} : convert(c, kind)
    \/ \E i \in Slots, size \in -1..(MaxBytes + 1), rc \in BOOLEAN, hit \in Hits : Reply(i, size, rc, hit)
    \/ \E i \in Slots : ClientDeletes(i) \/ ClientDestroys(i)
    \/ \E x \in BOOLEAN, g \in 0..sequence : Enter(x, g)
    \/ \E hit \in Hits : Move(hit) \/ Drop(hit)
    \/ Leave
    \/ \E d \in DragTargets, accepts \in BOOLEAN, hit \in Hits : Status(d, accepts, hit)
    \/ \E d \in DragTargets : Finished(d)
    \/ \E o \in Outputs, down \in BOOLEAN : Pointer(o, down)
    \/ beginExport \/ DropOnCatcher \/ HostEnds \/ exportExpired

\* Timers fire, deferred work runs, and a drag target answers what it is asked.
Fairness ==
    /\ \A i \in Slots : WF_vars(expired(i))
    /\ WF_vars(\E rc \in BOOLEAN, hit \in Hits : propertyWork(rc, hit))
    /\ \A d \in DragTargets : WF_vars(\E accepts \in BOOLEAN, hit \in Hits : Status(d, accepts, hit))
    /\ WF_vars(exportExpired)

Spec == Init /\ [][Next]_vars /\ Fairness

-----------------------------------------------------------------------------
(* Properties.                                                             *)

TypeOK ==
    /\ {enabled, clipboardActive, pointerDown} \subseteq BOOLEAN
    /\ owner \in [Channels -> Owners \cup {Bridge, None}]
    /\ \A i \in Slots : transfers[i].used =>
          /\ transfers[i].ticket \in 1..transferSequence
          /\ transfers[i].size \in 0..MaxBytes /\ transfers[i].offset <= transfers[i].size
          /\ transfers[i].prop \in {"none", "incr", "data", "end", "bad"}
    /\ drag.target \in DragTargets \cup {None} /\ export.source \in Owners \cup {None}

\* No READ is answered twice, whatever fails, expires or is replaced while its data is on the
\* way, and no FINISH reaches the host without a DROP of its own (fail, receive, rejectDrag).
AnsweredOnce ==
    /\ \A s \in DOMAIN reads : Len(reads[s]) <= 1
    /\ drag.finishes <= drag.drops

\* A transfer that succeeds carried every piece: none is lost, repeated or cut short by the
\* deferred work, the reuse of a slot or the reuse of its window (propertyChanged, propertyWork).
TransfersAreWhole == "partial" \notin outcomes

\* Every READ is answered, if only by its deadline or the end of the connection.
ReadsAreAnswered == (\E s \in DOMAIN reads : reads[s] = <<>>) ~> (\A s \in DOMAIN reads : reads[s] # <<>>)

\* A drop that waits is settled once the target has answered and the transfers it started have
\* ended: by a drop, a FINISH or the host (dropDrag, selectionFinished), unless it was left with
\* nothing to wait for in one of the ways that set lost.  A drag exported to the
\* host ends too, though its source or the host may never finish it (exportExpired).
DragsAreSettled ==
    /\ drag.dropPending ~> (~drag.dropPending \/ drag.lost)
    /\ (export.source # None) ~> (export.source = None)

\* A drop that waits has something to wait for: a status, or data on its way to the target.
\* The code breaks it: when the requestor of the data is gone as its file arrives, and when the
\* last position, sent again after the data, is no longer over a window that takes drops.
PendingDropIsAwaited == drag.dropPending => drag.positionPending \/ dragDataPending(transfers)
=============================================================================
