----------------------------- MODULE WorkQueue -----------------------------
(***************************************************************************)
(* The X server's work queue (lorie/workqueue.cpp), the one FIFO through   *)
(* which every thread of the engine hands work to the server thread.       *)
(*                                                                         *)
(* Producers append under the mutex at any time.  The server thread runs   *)
(* passes: a pass snapshots the last sequence number, then takes and calls *)
(* one item at a time with the mutex released.  A callback may queue more  *)
(* work, ask to be retried, or close a client, which starts a nested       *)
(* zombie pass on the same thread; "stack" is that thread's call stack.    *)
(*                                                                         *)
(* An item is an allocation of QueueWorkProc and is used once.  served and *)
(* the fields due and ran of a frame are history: no guard reads them.     *)
(***************************************************************************)
EXTENDS Naturals, Sequences

CONSTANTS
    Items,       \* the WorkItem allocations of one behaviour
    Clients,     \* X clients that work can be queued for
    NoClient,    \* a null ClientPtr
    NoItem,      \* a null WorkItem
    MaxSequence  \* bound on the sequence counter (uint64_t in the code)

ASSUME WorkQueueAssumption ==
    /\ NoClient \notin Clients
    /\ NoItem \notin Items
    /\ MaxSequence \in Nat

VARIABLES
    queue,     \* the list from head to tail
    ticket,    \* item->sequence, 0 before the item is allocated
    client,    \* item->client
    sequence,  \* the last sequence number given out
    gone,      \* clients whose clientGone is set
    stack,     \* the server thread's active passes, innermost last
    served     \* history: the newest ticket an ordinary pass has called

vars == <<queue, ticket, client, sequence, gone, stack, served>>

Kinds == {"pass", "zombies", "clear"}

Frames == [kind : Kinds, last : Nat, item : Items \cup {NoItem},
           closing : Clients \cup {NoClient}, due : Nat, ran : Nat]

TypeOK ==
    /\ queue \in Seq(Items)
    /\ ticket \in [Items -> Nat]
    /\ client \in [Items -> Clients \cup {NoClient}]
    /\ sequence \in Nat
    /\ gone \in SUBSET Clients
    /\ stack \in Seq(Frames)
    /\ served \in Nat

-----------------------------------------------------------------------------

Init ==
    /\ queue = <<>>
    /\ ticket = [i \in Items |-> 0]
    /\ client = [i \in Items |-> NoClient]
    /\ sequence = 0
    /\ gone = {}
    /\ stack = <<>>
    /\ served = 0

Top == stack[Len(stack)]

SetTop(frame) == stack' = [stack EXCEPT ![Len(stack)] = frame]

Pop == stack' = SubSeq(stack, 1, Len(stack) - 1)

\* Mutant: a retried item goes back to the front of the list.
AppendAtHead(i) ==
    /\ sequence < MaxSequence
    /\ sequence' = sequence + 1
    /\ ticket' = [ticket EXCEPT ![i] = sequence + 1]
    /\ queue' = <<i>> \o queue

\* append(): the item gets the next sequence number at the tail.
append(i) ==
    /\ sequence < MaxSequence
    /\ sequence' = sequence + 1
    /\ ticket' = [ticket EXCEPT ![i] = sequence + 1]
    /\ queue' = Append(queue, i)

\* QueueWorkProc(): any thread, at any moment, callbacks included.  A caller
\* owns the client it names, so it never names one that is being closed.
QueueWorkProc(i, c) ==
    /\ ticket[i] = 0
    /\ c \notin gone
    /\ append(i)
    /\ client' = [client EXCEPT ![i] = c]
    /\ UNCHANGED <<gone, stack, served>>

-----------------------------------------------------------------------------

\* The server thread is outside every pass, or inside a callback.
ThreadFree == stack # <<>> => Top.item # NoItem

\* Mutant: the snapshot excludes the newest item.
ShortSnapshot == sequence - 1

\* Mutant: the pass is not bounded by a snapshot.
NoSnapshot == MaxSequence

\* lastSequence(): what a pass may take is fixed when it begins.
lastSequence == sequence

Push(kind, c) ==
    stack' = Append(stack, [kind |-> kind, last |-> lastSequence, item |-> NoItem,
                            closing |-> c, due |-> Len(queue), ran |-> 0])

\* ProcessWorkQueue() is entered from the server's main loop only.
ProcessWorkQueue ==
    /\ stack = <<>>
    /\ Push("pass", NoClient)
    /\ UNCHANGED <<queue, ticket, client, sequence, gone, served>>

\* ClearWorkQueue(), between server generations.
ClearWorkQueue ==
    /\ stack = <<>>
    /\ Push("clear", NoClient)
    /\ UNCHANGED <<queue, ticket, client, sequence, gone, served>>

\* Closing a client marks it gone and runs ProcessWorkQueueZombies, from the
\* main loop or from a callback of a pass that is still on the stack.
CloseClient(c) ==
    /\ ThreadFree
    /\ c \notin gone
    /\ gone' = gone \cup {c}
    /\ Push("zombies", c)
    /\ UNCHANGED <<queue, ticket, client, sequence, served>>

\* The loop condition of take(): only a zombie pass walks, past work of its
\* own snapshot that belongs to no closed client.
WalksPast(f, k) ==
    /\ k <= Len(queue)
    /\ ticket[queue[k]] <= f.last
    /\ f.kind = "zombies"
    /\ client[queue[k]] \notin gone

\* The cursor of take(): the first position the loop does not walk past.
Cursor(f, k) == ~WalksPast(f, k) /\ \A j \in 1..(k - 1) : WalksPast(f, j)

\* Mutant: a zombie pass never looks past the head of the list.
TakesHeadOnly(f, k) == k = 1 /\ k <= Len(queue) /\ ticket[queue[k]] <= f.last

\* What take() does at its cursor: the item is due when its ticket is not newer
\* than the pass.
Takes(f, k) == k <= Len(queue) /\ ticket[queue[k]] <= f.last

Without(k) ==
    [j \in 1..(Len(queue) - 1) |-> IF j < k THEN queue[j] ELSE queue[j + 1]]

\* Mutant: the walk leaves the item in the list it was found in.
TakeAndKeep(k) ==
    /\ Takes(Top, k)
    /\ SetTop([Top EXCEPT !.item = queue[k], !.ran = @ + 1])
    /\ served' = IF Top.kind = "pass" THEN ticket[queue[k]] ELSE served
    /\ UNCHANGED <<queue, ticket, client, sequence, gone>>

\* take() found work: it is unlinked under the mutex and its callback begins
\* after the unlock.  A clearing pass frees it instead of calling it.
Take(k) ==
    /\ Takes(Top, k)
    /\ queue' = Without(k)
    /\ IF Top.kind = "clear"
       THEN UNCHANGED stack
       ELSE SetTop([Top EXCEPT !.item = queue[k], !.ran = @ + 1])
    /\ served' = IF Top.kind = "pass" THEN ticket[queue[k]] ELSE served
    /\ UNCHANGED <<ticket, client, sequence, gone>>

\* take() returned null: the pass is over and its caller continues.
EndPass(k) ==
    /\ ~Takes(Top, k)
    /\ Pop
    /\ UNCHANGED <<queue, ticket, client, sequence, gone, served>>

Step ==
    /\ stack # <<>>
    /\ Top.item = NoItem
    /\ \E k \in 1..(Len(queue) + 1) : Cursor(Top, k) /\ (Take(k) \/ EndPass(k))

\* The callback returns TRUE, or it runs in a zombie pass, which ignores the
\* result: the item is freed.
CallbackDone ==
    /\ stack # <<>>
    /\ Top.item # NoItem
    /\ SetTop([Top EXCEPT !.item = NoItem])
    /\ UNCHANGED <<queue, ticket, client, sequence, gone, served>>

\* The callback returns FALSE in an ordinary pass: the item is appended again.
\* A callback never asks to be retried for a client that is being closed.
CallbackRetry ==
    /\ stack # <<>>
    /\ Top.item # NoItem
    /\ Top.kind = "pass"
    /\ client[Top.item] \notin gone
    /\ append(Top.item)
    /\ SetTop([Top EXCEPT !.item = NoItem])
    /\ UNCHANGED <<client, gone, served>>

Next ==
    \/ \E i \in Items, c \in Clients \cup {NoClient} : QueueWorkProc(i, c)
    \/ ProcessWorkQueue
    \/ ClearWorkQueue
    \/ \E c \in Clients : CloseClient(c)
    \/ Step
    \/ CallbackDone
    \/ CallbackRetry

Spec == Init /\ [][Next]_vars

(***************************************************************************)
(* The main loop calls ProcessWorkQueue again and again, take() always     *)
(* returns, and callbacks return.  Nothing obliges a callback to succeed.  *)
(***************************************************************************)
FairSpec ==
    /\ Spec
    /\ WF_vars(ProcessWorkQueue)
    /\ WF_vars(Step)
    /\ WF_vars(CallbackDone \/ CallbackRetry)

-----------------------------------------------------------------------------

Elements(q) == {q[k] : k \in DOMAIN q}

\* workqueue.cpp:35-63, docs "one FIFO across all producers": the list is in
\* strictly increasing sequence order whatever a zombie pass unlinks from its
\* middle, which is why take() may stop at the first sequence past "last".
Ordered ==
    /\ \A j, k \in DOMAIN queue : j < k => ticket[queue[j]] < ticket[queue[k]]
    /\ \A k \in DOMAIN queue : ticket[queue[k]] \in 1..sequence

\* workqueue.cpp:75-83: an ordinary pass never overtakes.  Once it has called
\* the item with some sequence number, no older item is still waiting.
NoOvertaking == \A k \in DOMAIN queue : ticket[queue[k]] > served

\* workqueue.cpp:79-91: an item that some pass is calling is in no list and in
\* no other active pass, so the free() after the callback frees what nothing
\* else can reach, however deep zombie passes nest.
HeldItemsAreUnlinked ==
    \A m \in DOMAIN stack : stack[m].item # NoItem =>
        /\ stack[m].item \notin Elements(queue)
        /\ \A n \in DOMAIN stack : n # m => stack[n].item # stack[m].item

\* workqueue.cpp:35-91, docs/embedding.md "one FIFO across all producers": the
\* list, the passes and the items in their hands agree.
QueueIsSound == Ordered /\ NoOvertaking /\ HeldItemsAreUnlinked

\* workqueue.cpp:76-78, "New work and retries belong to the next pass": a pass
\* calls at most as many items as were queued when it began.
PassIsBounded == \A m \in DOMAIN stack : stack[m].ran <= stack[m].due

\* workqueue.cpp:85-91: when the zombie pass of a client has ended, and dix is
\* free to release the client, no queued item still points to it.
NoDanglingClient ==
    \A k \in DOMAIN queue : client[queue[k]] \in gone =>
        \E m \in DOMAIN stack : stack[m].closing = client[queue[k]]

\* workqueue.cpp:75-83: an item that was queued is called, or discarded by a
\* clearing pass, after finitely many steps, however many retries it competes
\* with.
EveryItemIsServed == \A i \in Items : i \in Elements(queue) ~> i \notin Elements(queue)
=============================================================================
