------------------------------- MODULE Session -------------------------------
(***************************************************************************)
(* The host's end of a connection (lorie/session.cpp and command_queue.h): *)
(* one Looper thread writes commands through a bounded queue that survives *)
(* partial writes, and reads events whose headers and payloads come in     *)
(* parts.  The peer reads, writes and vanishes at any moment.              *)
(*                                                                         *)
(* A message is HeaderSize units; a unit stands for any run of bytes that  *)
(* one send() or recv() may move alone.  A descriptor travels with one     *)
(* marker unit after the header of its message.  Callbacks run on the      *)
(* Looper and may send; that they also connect or destroy is left out.     *)
(*                                                                         *)
(* history: accepted, read and begun.                                      *)
(***************************************************************************)
EXTENDS Naturals, Sequences, FiniteSets, FiniteSetsExt, SequencesExt

CONSTANTS
    HeaderSize,   \* units of a lorieEvent
    PayloadSize,  \* units of an icon, cursor image, shell or family record
    MaxBytes,     \* LorieCommandQueue::MAX_BYTES, in units
    MaxMessages,  \* LorieCommandQueue::MAX_MESSAGES
    Window,       \* units the socket holds before send() would block
    PeerKinds,    \* the kinds of events the server sends
    MaxCommands,  \* bound on the host's calls in one connection
    MaxEvents,    \* bound on the server's events in one connection
    MaxSessions,  \* bound on calls of lorieConnectionConnect()
    None

PayloadKinds == {"window", "cursor", "shell", "family"}

ASSUME SessionAssumption ==
    /\ HeaderSize \in Nat \ {0} /\ PayloadSize \in Nat \ {0}
    /\ MaxBytes \in Nat /\ MaxMessages \in Nat /\ Window \in Nat \ {0}
    /\ PeerKinds \subseteq PayloadKinds \cup {"plain", "data", "bad"}
    /\ MaxCommands \in Nat /\ MaxEvents \in Nat /\ MaxSessions \in Nat
    /\ None \notin PayloadKinds \cup {"plain", "data"}

VARIABLES
    \* the connection
    fd,           \* its number, 0 for the code's -1
    sessions,     \* how many there were
    peerOpen,     \* whether the server still holds its end
    watching,     \* the Looper events asked for
    pc,           \* where the Looper thread is inside a session function
    greetings,    \* messages connect() has still to send
    running,      \* the callback being run
    \* the command queue
    commands, bytes, count,
    copies,       \* duplicated descriptors that are open, by message
    accepted,     \* for each message taken by append(), whether it has a descriptor
    wire,         \* units in the socket
    read,         \* units the server has read
    \* events from the server
    incoming,     \* units the server has written
    events,       \* the kinds of the events it has written
    header,       \* the part of a header that has been read
    pending,      \* the kinds whose pending flag is set
    payload,      \* for each kind, the part of a payload that has been read
    begun         \* events whose header is complete

connVars == <<fd, sessions, peerOpen, watching, pc, greetings, running>>
queueVars == <<commands, bytes, count, copies, accepted>>
outVars == <<queueVars, wire, read>>
inVars == <<incoming, events, header, pending, payload, begun>>
vars == <<connVars, outVars, inVars>>

Entries == [n : Nat, sent : 0..HeaderSize, descriptor : BOOLEAN]

Units == [session : 1..MaxSessions, n : Nat, part : Nat, kind : PeerKinds]

TypeOK ==
    /\ fd \in 0..MaxSessions /\ sessions \in 0..MaxSessions
    /\ peerOpen \in BOOLEAN
    /\ watching \in SUBSET {"input", "output"}
    /\ pc \in {"idle", "greet", "flush", "descriptor"}
    /\ greetings \in 0..2
    /\ running \in PayloadKinds \cup {"plain", "data", None}
    /\ commands \in Seq(Entries)
    /\ bytes \in 0..MaxBytes /\ count \in 0..MaxMessages
    /\ copies \in SUBSET Nat
    /\ accepted \in Seq(BOOLEAN)
    /\ wire \in Seq(Nat \X Nat) /\ read \in Seq(Nat \X Nat)
    /\ incoming \in Seq(Units) /\ events \in Seq(PeerKinds)
    /\ header \in Seq(Units) /\ Len(header) < HeaderSize
    /\ pending \in SUBSET PayloadKinds
    /\ payload \in [PayloadKinds -> Seq(Units)]
    /\ begun \in Nat

NoPayload == [k \in PayloadKinds |-> <<>>]

Init ==
    /\ fd = 0 /\ sessions = 0 /\ peerOpen = FALSE /\ watching = {}
    /\ pc = "idle" /\ greetings = 0 /\ running = None
    /\ commands = <<>> /\ bytes = 0 /\ count = 0 /\ copies = {}
    /\ accepted = <<>> /\ wire = <<>> /\ read = <<>>
    /\ incoming = <<>> /\ events = <<>>
    /\ header = <<>> /\ pending = {} /\ payload = NoPayload /\ begun = 0

-----------------------------------------------------------------------------
\* The end of a connection.

Descriptors(queue) == {m.n : m \in {e \in ToSet(queue) : e.descriptor}}

\* Mutant: the queue is emptied and the descriptors of its messages stay open.
ForgetQueue == commands' = <<>> /\ bytes' = 0 /\ count' = 0 /\ UNCHANGED copies

\* Mutant: what was queued for one connection is left for the next.
KeepQueue == UNCHANGED <<commands, bytes, count, copies>>

clear ==
    /\ commands' = <<>> /\ bytes' = 0 /\ count' = 0
    /\ copies' = copies \ Descriptors(commands)

\* Mutant: an event that was half read is forgotten, what was read of it is not.
ResetFlags == header' = <<>> /\ pending' = {} /\ UNCHANGED payload

\* The part of disconnect() that makes the next connection begin with a header.
ResetEvents == header' = <<>> /\ pending' = {} /\ payload' = NoPayload

\* The socket and what is in it, with the history of the connection.
ForgetSocket ==
    /\ accepted' = <<>> /\ wire' = <<>> /\ read' = <<>>
    /\ incoming' = <<>> /\ events' = <<>> /\ begun' = 0

\* disconnect(): a callback that is running goes on.
disconnect ==
    /\ clear /\ ResetEvents /\ ForgetSocket
    /\ fd' = 0 /\ peerOpen' = FALSE /\ watching' = {}
    /\ pc' = "idle" /\ greetings' = 0
    /\ UNCHANGED <<sessions, running>>

-----------------------------------------------------------------------------
\* The command queue.

Fits == bytes + HeaderSize <= MaxBytes /\ count < MaxMessages

\* append(): a message with its own duplicate of the descriptor.
append(d) ==
    /\ Fits
    /\ commands' = Append(commands, [n |-> Len(accepted) + 1, sent |-> 0, descriptor |-> d])
    /\ accepted' = Append(accepted, d)
    /\ copies' = IF d THEN copies \cup {Len(accepted) + 1} ELSE copies
    /\ bytes' = bytes + HeaderSize /\ count' = count + 1

\* Mutant: the Looper is not asked for writability.
WatchInput == {"input"}

\* The events watch() asks for, after the queue was flushed.
watch == IF commands = <<>> THEN {"input"} ELSE {"input", "output"}

\* sendAll() up to flush().
Accept(d) ==
    /\ append(d)
    /\ pc' = "flush"
    /\ UNCHANGED <<fd, sessions, peerOpen, watching, running, wire, read, inVars>>

\* lorieSendOutputCommand() and lorieConnectionData(), from anywhere on the
\* Looper thread.  append() fails at a bound, or for want of memory or of a
\* descriptor.
Command(d) ==
    /\ fd # 0 /\ pc = "idle"
    /\ Len(accepted) < MaxCommands + 2
    /\ (Accept(d) /\ UNCHANGED greetings) \/ disconnect

First == commands[1]

\* send() takes some of what the first message has left.
SendPart(k) ==
    /\ pc = "flush" /\ commands # <<>> /\ First.sent < HeaderSize
    /\ peerOpen
    /\ k <= HeaderSize - First.sent /\ Len(wire) + k <= Window
    /\ wire' = wire \o [j \in 1..k |-> <<First.n, First.sent + j>>]
    /\ commands' = [commands EXCEPT ![1].sent = First.sent + k]
    /\ UNCHANGED <<connVars, bytes, count, copies, accepted, read, inVars>>

\* sendmsg() takes the marker and the descriptor, whose duplicate is closed.
SendDescriptor ==
    /\ pc = "flush" /\ commands # <<>> /\ First.sent = HeaderSize /\ First.descriptor
    /\ peerOpen /\ Len(wire) < Window
    /\ wire' = Append(wire, <<First.n, HeaderSize + 1>>)
    /\ commands' = [commands EXCEPT ![1].descriptor = FALSE]
    /\ copies' = copies \ {First.n}
    /\ UNCHANGED <<connVars, bytes, count, accepted, read, inVars>>

\* Mutant: a message is over when its bytes are, before its descriptor went.
IsSentEarly == First.sent = HeaderSize

IsSent == First.sent = HeaderSize /\ ~First.descriptor

\* Mutant: the count of messages is that of all messages ever queued.
RetireUncounted ==
    /\ pc = "flush" /\ commands # <<>> /\ IsSent
    /\ commands' = Tail(commands)
    /\ bytes' = bytes - HeaderSize
    /\ UNCHANGED <<connVars, count, copies, accepted, wire, read, inVars>>

\* flush() frees a message that is sent with its descriptor.
Retire ==
    /\ pc = "flush" /\ commands # <<>> /\ IsSent
    /\ commands' = Tail(commands)
    /\ bytes' = bytes - HeaderSize /\ count' = count - 1
    /\ UNCHANGED <<connVars, copies, accepted, wire, read, inVars>>

\* flush() returns true with the queue empty or the socket full, and watch()
\* follows; connect() then goes on with its next message.
Flushed ==
    /\ pc = "flush"
    /\ commands # <<>> => ~IsSent /\ peerOpen /\ Len(wire) = Window
    /\ watching' = watch
    /\ pc' = IF greetings > 0 THEN "greet" ELSE "idle"
    /\ UNCHANGED <<fd, sessions, peerOpen, greetings, running, outVars, inVars>>

\* The peer is gone, or watch() failed: sendAll() and receive() disconnect.
FlushFails ==
    /\ pc = "flush"
    /\ commands # <<>> => ~IsSent /\ (~peerOpen \/ Len(wire) = Window)
    /\ disconnect

LooperIdle == fd # 0 /\ pc = "idle" /\ running = None

\* receive() with ALOOPER_EVENT_OUTPUT: input that is ready too is a step of
\* its own, with nothing between them that the code could tell.
Writable ==
    /\ LooperIdle
    /\ "output" \in watching /\ Len(wire) < Window
    /\ pc' = "flush"
    /\ UNCHANGED <<fd, sessions, peerOpen, watching, greetings, running, outVars, inVars>>

-----------------------------------------------------------------------------
\* connect() and destroy.

\* lorieConnectionConnect() up to its first sendAll().
connect ==
    /\ pc = "idle" /\ running = None /\ sessions < MaxSessions
    /\ clear /\ ResetEvents /\ ForgetSocket
    /\ sessions' = sessions + 1
    /\ \/ /\ fd' = sessions + 1 /\ peerOpen' = TRUE
          /\ watching' = {"input"} /\ pc' = "greet" /\ greetings' = 2
       \/ /\ fd' = 0 /\ peerOpen' = FALSE \* watch() failed
          /\ watching' = {} /\ pc' = "idle" /\ greetings' = 0
    /\ UNCHANGED running

\* sendAll() of the wakeup condition, then of the completion descriptor.
Greet ==
    /\ pc = "greet"
    /\ (Accept(TRUE) /\ greetings' = greetings - 1) \/ disconnect

\* lorieConnectionDestroy(): nothing uses the session afterwards.
Destroy ==
    /\ pc = "idle" /\ running = None /\ fd # 0
    /\ clear /\ ResetEvents /\ ForgetSocket
    /\ fd' = 0 /\ peerOpen' = FALSE /\ watching' = {}
    /\ sessions' = MaxSessions
    /\ UNCHANGED <<pc, greetings, running>>

-----------------------------------------------------------------------------
\* Events from the server.

\* recv() copies the first k units of the socket behind what the buffer has.
Received(buffer, k) == buffer \o SubSeq(incoming, 1, k)

Consume(k) == incoming' = SubSeq(incoming, k + 1, Len(incoming))

\* What receive() does with a whole header: its type is in the first unit.
Dispatch(kind) ==
    /\ pending' = IF kind \in PayloadKinds THEN pending \cup {kind} ELSE pending
    /\ running' = IF kind = "plain" THEN "plain" ELSE None
    /\ pc' = IF kind = "data" THEN "descriptor" ELSE "idle"

\* receive() with no payload pending.  The payload function that it calls at the
\* end finds the socket as the next event does.
ReceiveHeader(k) ==
    /\ LooperIdle /\ pending = {}
    /\ k \in 1..Min({HeaderSize - Len(header), Len(incoming)})
    /\ Consume(k)
    /\ LET whole == Received(header, k) IN
       IF Len(whole) < HeaderSize
       THEN header' = whole /\ UNCHANGED <<pending, running, pc, begun>>
       ELSE /\ header' = <<>> /\ begun' = begun + 1
            /\ whole[1].kind # "bad"
            /\ Dispatch(whole[1].kind)
    /\ UNCHANGED <<fd, sessions, peerOpen, watching, greetings, outVars, events, payload>>

\* A header with an unknown type or an impossible cursor ends the connection.
RejectHeader ==
    /\ LooperIdle /\ pending = {}
    /\ HeaderSize - Len(header) <= Len(incoming)
    /\ Received(header, HeaderSize - Len(header))[1].kind = "bad"
    /\ disconnect

Turn == [window |-> 1, cursor |-> 2, shell |-> 3, family |-> 4]

\* receiveWindow(), receiveCursor(), receiveShell(), receiveFamily(), in the
\* order receive() tests their flags; a whole payload begins the callback.
ReceivePayload(kind, k) ==
    /\ LooperIdle /\ kind \in pending
    /\ \A other \in pending : Turn[kind] <= Turn[other]
    /\ k \in 1..Min({PayloadSize - Len(payload[kind]), Len(incoming)})
    /\ Consume(k)
    /\ payload' = [payload EXCEPT ![kind] = Received(payload[kind], k)]
    /\ running' = IF Len(payload[kind]) + k = PayloadSize THEN kind ELSE None
    /\ UNCHANGED <<fd, sessions, peerOpen, watching, pc, greetings, outVars, events, header,
                   pending, begun>>

\* Shell and family records with too many input rectangles end the connection.
RejectPayload(kind) ==
    /\ LooperIdle /\ kind \in pending \cap {"shell", "family"}
    /\ PayloadSize - Len(payload[kind]) <= Len(incoming)
    /\ disconnect

\* ancil_recv_fd() of EVENT_DATA, EVENT_SHARED_SERVER_STATE and EVENT_ADD_BUFFER
\* blocks the Looper until the marker is there.
ReceiveDescriptor ==
    /\ pc = "descriptor" /\ incoming # <<>>
    /\ Consume(1)
    /\ pc' = "idle" /\ running' = "data"
    /\ UNCHANGED <<fd, sessions, peerOpen, watching, greetings, outVars, events, header,
                   pending, payload, begun>>

\* The callback returns; the payload functions reset their flag and count after it.
CallbackReturns ==
    /\ pc = "idle" /\ running # None
    /\ running' = None
    /\ pending' = pending \ {running}
    /\ payload' = [k \in PayloadKinds |-> IF k = running THEN <<>> ELSE payload[k]]
    /\ UNCHANGED <<fd, sessions, peerOpen, watching, pc, greetings, outVars, incoming, events,
                   header, begun>>

\* ALOOPER_EVENT_HANGUP, or recv() found the end of the stream.
PeerLost ==
    /\ LooperIdle \/ (pc = "descriptor" /\ incoming = <<>>)
    /\ ~peerOpen
    /\ disconnect

-----------------------------------------------------------------------------
\* The server, as far as the session sees it.

PeerReads ==
    /\ peerOpen /\ wire # <<>>
    /\ read' = Append(read, Head(wire)) /\ wire' = Tail(wire)
    /\ UNCHANGED <<connVars, queueVars, inVars>>

UnitCount(kind) ==
    CASE kind \in PayloadKinds -> HeaderSize + PayloadSize
      [] kind = "data" -> HeaderSize + 1
      [] OTHER -> HeaderSize

PeerSends(kind) ==
    /\ peerOpen /\ Len(events) < MaxEvents
    /\ events' = Append(events, kind)
    /\ incoming' = incoming \o
         [j \in 1..UnitCount(kind) |->
            [session |-> fd, n |-> Len(events) + 1, part |-> j, kind |-> kind]]
    /\ UNCHANGED <<connVars, outVars, header, pending, payload, begun>>

\* The server dies, with its last event written in part, or the renderer's
\* worker shuts the socket down.
PeerCloses(k) ==
    /\ peerOpen
    /\ peerOpen' = FALSE
    /\ incoming' = SubSeq(incoming, 1, k)
    /\ UNCHANGED <<fd, sessions, watching, pc, greetings, running, outVars, events, header,
                   pending, payload, begun>>

-----------------------------------------------------------------------------

Flush == (\E k \in 1..HeaderSize : SendPart(k)) \/ SendDescriptor \/ Retire \/ Flushed

Next ==
    \/ \E d \in BOOLEAN : Command(d)
    \/ Flush \/ FlushFails \/ Writable
    \/ connect \/ Greet \/ Destroy
    \/ \E k \in 1..HeaderSize : ReceiveHeader(k)
    \/ RejectHeader
    \/ \E kind \in PayloadKinds, k \in 1..PayloadSize : ReceivePayload(kind, k)
    \/ \E kind \in PayloadKinds : RejectPayload(kind)
    \/ ReceiveDescriptor \/ CallbackReturns \/ PeerLost
    \/ PeerReads
    \/ \E kind \in PeerKinds : PeerSends(kind)
    \/ \E k \in 0..Len(incoming) : PeerCloses(k)

Spec == Init /\ [][Next]_vars

(***************************************************************************)
(* The Looper polls again and again and its callbacks return; the server's *)
(* input thread reads what the socket holds.  Nothing obliges the host to  *)
(* call, or the server to send.                                            *)
(***************************************************************************)
FairSpec ==
    /\ Spec
    /\ WF_vars(Flush \/ FlushFails) /\ WF_vars(Writable) /\ WF_vars(Greet)
    /\ WF_vars(ReceiveDescriptor) /\ WF_vars(CallbackReturns) /\ WF_vars(PeerLost)
    /\ WF_vars(PeerReads)

-----------------------------------------------------------------------------

\* The units of message n, and of the first n messages.
MessageUnits(n) ==
    [j \in 1..(HeaderSize + (IF accepted[n] THEN 1 ELSE 0)) |-> <<n, j>>]

StreamOf(n) == FlattenSeq([j \in 1..n |-> MessageUnits(j)])

\* What flush() has still to write of a queued message, and of them all.
Remainder(m) ==
    [j \in 1..(HeaderSize - m.sent + (IF m.descriptor THEN 1 ELSE 0)) |-> <<m.n, m.sent + j>>]

Unsent == FlattenSeq([j \in 1..Len(commands) |-> Remainder(commands[j])])

\* command_queue.h:10-11, "partial writes never interleave commands": at every
\* moment what the server has read, what the socket holds and what the queue
\* has still to write are together the accepted messages, each header followed
\* by its own descriptor, nothing lost, repeated or out of order.
StreamIsWhole == fd # 0 => read \o wire \o Unsent = StreamOf(Len(accepted))

\* command_queue.h:20, 25-49, 75-83: the byte and message counts that bound
\* the queue are those of the messages in it, through partial writes,
\* disconnections and reconnections.
CountsMatchQueue == bytes = HeaderSize * Len(commands) /\ count = Len(commands)

\* command_queue.h:25-34, 37-41, 74: a duplicated descriptor is open exactly as
\* long as a queued message has still to send it; one that was sent, or whose
\* connection ended, is closed.
CopiesAreOwned == copies = Descriptors(commands)

ExpectedUnit(n, j) == [session |-> fd, n |-> n, part |-> j, kind |-> events[n]]

\* session.cpp:43-63, 82-173: the bytes collected for a header or a payload are
\* always those of one event of the present connection, in order and without
\* a gap, so that a callback gets a whole event whatever was half read when an
\* earlier connection ended.
EventsAreWhole ==
    fd # 0 =>
        /\ \A j \in DOMAIN header : header[j] = ExpectedUnit(begun + 1, j)
        /\ \A kind \in PayloadKinds : \A j \in DOMAIN payload[kind] :
               /\ kind \in pending
               /\ payload[kind][j] = ExpectedUnit(begun, HeaderSize + j)
        /\ running # None => running = events[begun]

\* command_queue.h:12-89: what the queue believes it holds is what it holds.
QueueIsAccounted == CountsMatchQueue /\ CopiesAreOwned

\* command_queue.h:10-11, session.cpp:43-246: neither direction of the socket
\* ever joins the parts of different messages.
MessagesAreWhole == StreamIsWhole /\ EventsAreWhole

\* The messages of which the server has the last unit.
Arrived ==
    Cardinality({n \in DOMAIN accepted :
        <<n, HeaderSize + (IF accepted[n] THEN 1 ELSE 0)>> \in ToSet(read)})

Stream == INSTANCE CommandStream WITH open <- fd # 0, sent <- accepted, arrived <- Arrived

\* docs/embedding.md:179-183: the session implements the ordered stream of
\* commands that CommandStream specifies.
StreamSpec == Stream!Spec

\* docs/embedding.md:180-183, "drained on socket writability": a command that
\* was accepted arrives, or its connection ends, however often the socket was
\* full in between.
AcceptedCommandsArrive ==
    \A n \in 1..(MaxCommands + 2) :
        Len(accepted) >= n ~> (Len(accepted) < n \/ Arrived >= n)
=============================================================================
