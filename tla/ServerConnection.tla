-------------------------- MODULE ServerConnection --------------------------
(***************************************************************************)
(* The server's end of the renderer connection (lorie/cmdentrypoint.cpp):  *)
(* the input thread reads messages and hands them to the server thread     *)
(* through the work queue, the peer may vanish at any moment, and a new    *)
(* connection replaces an old one.                                         *)
(*                                                                         *)
(* Threads: the host, which creates connections; the input thread, whose   *)
(* handler runs under the input lock and whose error path is three steps;  *)
(* the server thread, which runs work in FIFO order (WorkQueue) and whose  *)
(* replacement work is seven.  A descriptor stands for the open file it    *)
(* was created for: numbers are not reused, so a close that comes too late *)
(* shows up in closedTwice rather than as the loss of another file.        *)
(*                                                                         *)
(* history: sentOn, closedTwice, early.                                    *)
(***************************************************************************)
EXTENDS Naturals, Sequences, FiniteSets

CONSTANTS
    Connections,   \* socket pairs made by lorieServerConnect()
    Descriptors,   \* files that messages carry: completion eventfds, data pipes
    None,
    MaxInbox,      \* bound on unread messages of a socket
    MaxWork        \* bound on queued work when a message is read

ASSUME ConnectionAssumption ==
    /\ None \notin Connections \cup Descriptors
    /\ Connections \cap Descriptors = {}
    /\ MaxInbox \in Nat /\ MaxWork \in Nat

VARIABLES
    pair,            \* each socket pair: "unused", "queued", "served"
    peerOpen,        \* connections whose peer still holds its end
    inbox,           \* messages a peer sent and the input thread has not read
    sentOn,          \* the connection a descriptor was sent on
    registered,      \* the socket the input thread listens to
    headerOf,        \* whose bytes a partly read header consists of
    handler,         \* the error path of handleLorieEvents, or idle
    conn_fd,
    dataConnection,
    work,            \* the work queue
    server,          \* the replacement work in progress, or idle
    gpuDoneFd,
    dataFds,         \* descriptors the data exchange holds
    leases,          \* connections whose commands left keys or buttons held, and if they were current then
    closed,          \* descriptors that were closed
    closedTwice,
    early            \* connections that failed before conn_fd was stored

vars == <<pair, peerOpen, inbox, sentOn, registered, headerOf, handler, conn_fd,
          dataConnection, work, server, gpuDoneFd, dataFds, leases, closed, closedTwice, early>>

MaybeConnection == Connections \cup {None}
MaybeDescriptor == Descriptors \cup {None}

Messages == [type : {"output", "data", "gpu"}, fd : MaybeDescriptor]

Work == [type : {"output", "data", "gpu", "connect", "reset"},
         fd : MaybeDescriptor, from : MaybeConnection, generation : Nat]

ServerSteps == {"idle", "test", "argument", "unregister", "close", "reset", "register", "store"}

HandlerSteps == {"idle", "forget", "advance"}

TypeOK ==
    /\ pair \in [Connections -> {"unused", "queued", "served"}]
    /\ peerOpen \in SUBSET Connections
    /\ inbox \in [Connections -> Seq(Messages)]
    /\ sentOn \in [Descriptors -> MaybeConnection]
    /\ registered \in MaybeConnection
    /\ headerOf \in MaybeConnection
    /\ handler \in HandlerSteps
    /\ conn_fd \in MaybeConnection
    /\ dataConnection \in Nat
    /\ work \in Seq(Work)
    /\ server \in [step : ServerSteps, new : MaybeConnection, argument : MaybeConnection]
    /\ gpuDoneFd \in MaybeDescriptor
    /\ dataFds \in SUBSET Descriptors
    /\ leases \in SUBSET (Connections \X BOOLEAN)
    /\ closed \in SUBSET (Connections \cup Descriptors)
    /\ closedTwice \in SUBSET (Connections \cup Descriptors)
    /\ early \in SUBSET Connections

Idle == [step |-> "idle", new |-> None, argument |-> None]

Init ==
    /\ pair = [c \in Connections |-> "unused"]
    /\ peerOpen = {}
    /\ inbox = [c \in Connections |-> <<>>]
    /\ sentOn = [d \in Descriptors |-> None]
    /\ registered = None
    /\ headerOf = None
    /\ handler = "idle"
    /\ conn_fd = None
    /\ dataConnection = 0
    /\ work = <<>>
    /\ server = Idle
    /\ gpuDoneFd = None
    /\ dataFds = {}
    /\ leases = {}
    /\ closed = {}
    /\ closedTwice = {}
    /\ early = {}

Item(type, fd, from) ==
    [type |-> type, fd |-> fd, from |-> from, generation |-> dataConnection]

\* close() of a set of descriptors; closing none (-1) does nothing.
Close(S) ==
    /\ closed' = closed \cup (S \ {None})
    /\ closedTwice' = closedTwice \cup (S \cap closed)

-----------------------------------------------------------------------------
\* The host and the peer process.

hostVars == <<registered, headerOf, handler, conn_fd, dataConnection, server, gpuDoneFd,
              dataFds, leases, closed, closedTwice, early>>

\* lorieServerConnect(), on any thread of the host.
lorieServerConnect(c) ==
    /\ pair[c] = "unused"
    /\ pair' = [pair EXCEPT ![c] = "queued"]
    /\ peerOpen' = peerOpen \cup {c}
    /\ work' = Append(work, Item("connect", None, c))
    /\ UNCHANGED <<inbox, sentOn, hostVars>>

\* The peer sends a message; a descriptor is sent once.
PeerSends(c, m) ==
    /\ c \in peerOpen
    /\ Len(inbox[c]) < MaxInbox
    /\ m.type = "gpu" => m.fd # None
    /\ m.type = "output" => m.fd = None
    /\ m.fd # None => sentOn[m.fd] = None
    /\ sentOn' = [d \in Descriptors |-> IF d = m.fd THEN c ELSE sentOn[d]]
    /\ inbox' = [inbox EXCEPT ![c] = Append(@, m)]
    /\ UNCHANGED <<pair, peerOpen, work, hostVars>>

\* The peer closes its end or dies.
PeerCloses(c) ==
    /\ c \in peerOpen
    /\ peerOpen' = peerOpen \ {c}
    /\ UNCHANGED <<pair, inbox, sentOn, work, hostVars>>

-----------------------------------------------------------------------------
\* The input thread.  It calls the handler of a registered socket with the
\* input lock held, so InputThreadUnregisterDev and InputThreadRegisterDev on
\* the server thread wait for it.

Listening == handler = "idle" /\ registered # None

inputVars == <<pair, peerOpen, sentOn, server, gpuDoneFd, dataFds, leases>>

\* A recv() that returns part of a header; the peer may never send the rest.
ReceivePart ==
    /\ Listening
    /\ headerOf = None
    /\ registered \in peerOpen \/ inbox[registered] # <<>>
    /\ headerOf' = registered
    /\ UNCHANGED <<inputVars, inbox, registered, handler, conn_fd, dataConnection, work,
                   closed, closedTwice, early>>

\* A whole message, handed to the server thread with the generation of the
\* moment it was read.
Receive ==
    /\ Listening
    /\ inbox[registered] # <<>> /\ Len(work) < MaxWork
    /\ LET m == Head(inbox[registered])
       IN  work' = Append(work, Item(m.type, m.fd, registered))
    /\ inbox' = [inbox EXCEPT ![registered] = Tail(@)]
    /\ headerOf' = None
    /\ UNCHANGED <<inputVars, registered, handler, conn_fd, dataConnection,
                   closed, closedTwice, early>>

\* The first step of the error path, at lines 163-166: it also closes S, the
\* descriptor of a message that could not be handed over.
Fail(S) ==
    /\ handler' = "forget"
    /\ registered' = None
    /\ headerOf' = None
    /\ Close(S \cup {registered})
    /\ early' = IF server.step = "store" THEN early \cup {registered} ELSE early

\* The peer is gone and everything it sent has been read.
ReceiveError ==
    /\ Listening
    /\ registered \notin peerOpen /\ inbox[registered] = <<>>
    /\ Fail({})
    /\ UNCHANGED <<inputVars, inbox, conn_fd, dataConnection, work>>

\* The command could not be allocated or queued.
ReceiveFails ==
    /\ Listening
    /\ inbox[registered] # <<>>
    /\ LET m == Head(inbox[registered])
       IN  m.type # "output" /\ Fail({m.fd})
    /\ inbox' = [inbox EXCEPT ![registered] = Tail(@)]
    /\ UNCHANGED <<inputVars, conn_fd, dataConnection, work>>

\* conn_fd = -1.
ForgetConnection ==
    /\ handler = "forget"
    /\ handler' = "advance"
    /\ conn_fd' = None
    /\ UNCHANGED <<inputVars, inbox, registered, headerOf, dataConnection, work,
                   closed, closedTwice, early>>

\* Mutant: the reset is tagged with the generation that has just ended.
AdvanceLate ==
    /\ handler = "advance"
    /\ handler' = "idle"
    /\ dataConnection' = dataConnection + 1
    /\ work' = Append(work, Item("reset", None, None))
    /\ UNCHANGED <<inputVars, inbox, registered, headerOf, conn_fd, closed, closedTwice, early>>

\* The generation advances and the reset is queued for the new one.
AdvanceGeneration ==
    /\ handler = "advance"
    /\ handler' = "idle"
    /\ dataConnection' = dataConnection + 1
    /\ work' = Append(work, [Item("reset", None, None) EXCEPT !.generation = dataConnection + 1])
    /\ UNCHANGED <<inputVars, inbox, registered, headerOf, conn_fd, closed, closedTwice, early>>

-----------------------------------------------------------------------------
\* The server thread: ordinary work.

serverVars == <<pair, peerOpen, inbox, sentOn, registered, headerOf, handler, early>>

NextWork(type) == server.step = "idle" /\ work # <<>> /\ Head(work).type = type

\* Mutant: the work of an older generation is applied.
CurrentOrOlder(item) == TRUE

\* The generation test of the queued commands and of the queued reset.
Current(item) == item.generation = dataConnection

\* lorieOutputCommand() may leave input held for the connection or not.  No
\* generation is tested: whether it was current is history.
OutputCommand ==
    /\ NextWork("output")
    /\ work' = Tail(work)
    /\ LET from == Head(work).from
       IN  \/ leases' = leases \cup {<<from, Current(Head(work))>>}
           \/ leases' = leases \ {<<from, TRUE>>, <<from, FALSE>>}
    /\ UNCHANGED <<serverVars, conn_fd, dataConnection, server, gpuDoneFd, dataFds,
                   closed, closedTwice>>

\* EVENT_DATA: the data exchange takes the descriptor or closes it.
DataCommand ==
    /\ NextWork("data")
    /\ work' = Tail(work)
    /\ LET d == Head(work).fd
       IN  \/ /\ Current(Head(work))
              /\ dataFds' = dataFds \cup ({d} \ {None})
              /\ UNCHANGED <<closed, closedTwice>>
           \/ /\ Close({d})
              /\ UNCHANGED dataFds
    /\ UNCHANGED <<serverVars, conn_fd, dataConnection, server, gpuDoneFd, leases>>

\* A transfer ends.
DataDone(d) ==
    /\ server.step = "idle"
    /\ d \in dataFds
    /\ dataFds' = dataFds \ {d}
    /\ Close({d})
    /\ UNCHANGED <<serverVars, conn_fd, dataConnection, work, server, gpuDoneFd, leases>>

\* Mutant: the old completion descriptor is only forgotten.
ReplaceGpuDoneFd(fd, others) ==
    /\ gpuDoneFd' = fd
    /\ Close(others)

\* lorieSetGpuDoneFd(), with the other descriptors the same step closes.
lorieSetGpuDoneFd(fd, others) ==
    /\ gpuDoneFd' = fd
    /\ Close(others \cup {gpuDoneFd})

\* EVENT_GPU_DONE_FD; SetNotifyFd may fail, which closes the new one.
GpuDoneFd ==
    /\ NextWork("gpu")
    /\ work' = Tail(work)
    /\ LET d == Head(work).fd
       IN  IF Current(Head(work))
           THEN lorieSetGpuDoneFd(d, {}) \/ lorieSetGpuDoneFd(None, {d})
           ELSE Close({d}) /\ UNCHANGED gpuDoneFd
    /\ UNCHANGED <<serverVars, conn_fd, dataConnection, server, dataFds, leases>>

\* The completion descriptor reports an error.
GpuDoneError ==
    /\ server.step = "idle" /\ gpuDoneFd # None
    /\ lorieSetGpuDoneFd(None, {})
    /\ UNCHANGED <<serverVars, conn_fd, dataConnection, work, server, dataFds, leases>>

\* The reset queued by the error path, if no connection came since.
Reset ==
    /\ NextWork("reset")
    /\ work' = Tail(work)
    /\ IF Current(Head(work))
       THEN lorieSetGpuDoneFd(None, dataFds) /\ dataFds' = {}
       ELSE UNCHANGED <<gpuDoneFd, dataFds, closed, closedTwice>>
    /\ UNCHANGED <<serverVars, conn_fd, dataConnection, server, leases>>

-----------------------------------------------------------------------------
\* The server thread: the work that installs a connection, one step per read
\* or write of what it shares with the input thread.

At(step) == server.step = step

Goto(step) == server' = [server EXCEPT !.step = step]

connectVars == <<pair, peerOpen, inbox, sentOn, handler, leases, early>>

BeginConnect ==
    /\ NextWork("connect")
    /\ work' = Tail(work)
    /\ server' = [step |-> "test", new |-> Head(work).from, argument |-> None]
    /\ pair' = [pair EXCEPT ![Head(work).from] = "served"]
    /\ UNCHANGED <<peerOpen, inbox, sentOn, registered, headerOf, handler, conn_fd, dataConnection,
                   gpuDoneFd, dataFds, leases, closed, closedTwice, early>>

TestConnFd ==
    /\ At("test")
    /\ Goto(IF conn_fd # None THEN "argument" ELSE "reset")
    /\ UNCHANGED <<connectVars, registered, headerOf, conn_fd, dataConnection, work, gpuDoneFd,
                   dataFds, closed, closedTwice>>

ReadArgument ==
    /\ At("argument")
    /\ server' = [server EXCEPT !.step = "unregister", !.argument = conn_fd]
    /\ UNCHANGED <<connectVars, registered, headerOf, conn_fd, dataConnection, work, gpuDoneFd,
                   dataFds, closed, closedTwice>>

\* InputThreadUnregisterDev(conn_fd), once the input lock is free.
Unregister ==
    /\ At("unregister") /\ handler = "idle"
    /\ registered' = IF registered = server.argument THEN None ELSE registered
    /\ Goto("close")
    /\ UNCHANGED <<connectVars, headerOf, conn_fd, dataConnection, work, gpuDoneFd,
                   dataFds, closed, closedTwice>>

\* Mutant: the descriptor read before waiting for the input lock is closed.
CloseArgument ==
    /\ At("close")
    /\ Close({server.argument})
    /\ Goto("reset")
    /\ UNCHANGED <<connectVars, registered, headerOf, conn_fd, dataConnection, work,
                   gpuDoneFd, dataFds>>

\* close(conn_fd) reads conn_fd again.
CloseOld ==
    /\ At("close")
    /\ Close({conn_fd})
    /\ Goto("reset")
    /\ UNCHANGED <<connectVars, registered, headerOf, conn_fd, dataConnection, work,
                   gpuDoneFd, dataFds>>

\* Mutant: a replacement keeps the bytes of the old connection's header.
ResetKeepingHeader ==
    /\ At("reset")
    /\ dataConnection' = dataConnection + 1
    /\ lorieSetGpuDoneFd(None, dataFds)
    /\ dataFds' = {}
    /\ leases' = {}
    /\ Goto("register")
    /\ UNCHANGED <<pair, peerOpen, inbox, sentOn, headerOf, handler, early, registered, conn_fd, work>>

\* Lines 508-514: the generation, the completion descriptor, the data
\* exchange, the outputs and the partial header.
ResetConnection ==
    /\ At("reset")
    /\ dataConnection' = dataConnection + 1
    /\ lorieSetGpuDoneFd(None, dataFds)
    /\ dataFds' = {}
    /\ leases' = {}
    /\ headerOf' = None
    /\ Goto("register")
    /\ UNCHANGED <<pair, peerOpen, inbox, sentOn, handler, early, registered, conn_fd, work>>

\* InputThreadRegisterDev(): from here on the handler can run.
Register ==
    /\ At("register") /\ handler = "idle"
    /\ registered' = server.new
    /\ Goto("store")
    /\ UNCHANGED <<connectVars, headerOf, conn_fd, dataConnection, work, gpuDoneFd,
                   dataFds, closed, closedTwice>>

StoreConnFd ==
    /\ At("store")
    /\ conn_fd' = server.new
    /\ server' = Idle
    /\ UNCHANGED <<connectVars, registered, headerOf, dataConnection, work, gpuDoneFd,
                   dataFds, closed, closedTwice>>

-----------------------------------------------------------------------------

InputThread ==
    \/ ReceivePart
    \/ Receive
    \/ ReceiveError
    \/ ReceiveFails
    \/ ForgetConnection
    \/ AdvanceGeneration

ServerThread ==
    \/ OutputCommand
    \/ DataCommand
    \/ GpuDoneFd
    \/ Reset
    \/ BeginConnect
    \/ TestConnFd
    \/ ReadArgument
    \/ Unregister
    \/ CloseOld
    \/ ResetConnection
    \/ Register
    \/ StoreConnFd

Next ==
    \/ \E c \in Connections : lorieServerConnect(c) \/ PeerCloses(c)
    \/ \E c \in Connections, m \in Messages : PeerSends(c, m)
    \/ InputThread
    \/ ServerThread
    \/ \E d \in Descriptors : DataDone(d)
    \/ GpuDoneError

Spec == Init /\ [][Next]_vars

(***************************************************************************)
(* The kernel schedules both threads, poll() reports a readable or broken  *)
(* socket to the input thread, and the server's main loop runs queued work *)
(* because lorieWakeServer() follows every QueueWorkProc().  The host and  *)
(* the peer owe nothing.                                                   *)
(***************************************************************************)
FairSpec ==
    /\ Spec
    /\ WF_vars(InputThread)
    /\ WF_vars(ServerThread)

-----------------------------------------------------------------------------

Queued(d) == {k \in DOMAIN work : work[k].fd = d}
Unread(d) == {c \in Connections : \E k \in DOMAIN inbox[c] : inbox[c][k].fd = d}

\* cmdentrypoint.cpp:315-366 and 48-62: a descriptor that a message carried is
\* in exactly one place: in its socket, in queued work, in use as completion
\* or data descriptor, or closed.  None leaks and none is closed twice, on
\* failure paths, stale generations and replacements too.
DescriptorsAreOwnedOnce ==
    \A d \in Descriptors : sentOn[d] # None =>
        /\ d \notin closedTwice
        /\ Cardinality(Queued(d)) + Cardinality(Unread(d))
             + (IF gpuDoneFd = d THEN 1 ELSE 0)
             + (IF d \in dataFds THEN 1 ELSE 0)
             + (IF d \in closed THEN 1 ELSE 0) = 1

\* The connection of the current generation: what conn_fd is about to become
\* while it is being installed.
ResetPending ==
    \/ handler # "idle"
    \/ server.step \in {"close", "reset"}
    \/ \E k \in DOMAIN work : work[k].type = "reset" /\ work[k].generation = dataConnection

\* cmdentrypoint.cpp:323-330, 345-358: data and completion descriptors in use
\* came from the socket being listened to, unless the reset that closes them
\* is already on its way.  A command read from an older connection is never
\* applied to a newer one.
UsedDescriptorsAreCurrent ==
    \A d \in dataFds \cup ({gpuDoneFd} \ {None}) : sentOn[d] = registered \/ ResetPending

\* cmdentrypoint.cpp:164, 512: the bytes of a partly read header belong to the
\* socket they are continued from.
HeadersAreWhole == headerOf # None => headerOf = registered \/ server.step \in {"close", "reset"}

\* cmdentrypoint.cpp:163-167, 503-517: a socket is closed once, and conn_fd
\* names a socket that is open, except for one that failed between its
\* registration and the store to conn_fd.
SocketsAreClosedOnce ==
    /\ closedTwice \cap Connections \subseteq early
    /\ conn_fd \in closed => \/ conn_fd \in early
                             \/ handler = "forget"
                             \/ server.step \in {"reset", "register", "store"}

\* cmdentrypoint.cpp:503-520: keys and buttons held for a connection that
\* another one has replaced are released before the new one is heard.  The
\* exception: an output command of the old connection that the input thread
\* queued behind the replacement is applied after it.
LeasesAreCurrent == \A l \in leases : l[2] => registered \in {l[1], None} \/ ResetPending

\* cmdentrypoint.cpp:48-62, 163-167, 315-366, 503-517: every file that arrives,
\* sockets included, is closed once and by its owner.
FilesAreClosedOnce == DescriptorsAreOwnedOnce /\ SocketsAreClosedOnce

\* cmdentrypoint.cpp:164, 323-330, 345-358, 512: nothing read from one
\* connection, not even half a header, is taken for another's.
ConnectionsAreApart == UsedDescriptorsAreCurrent /\ HeadersAreWhole /\ LeasesAreCurrent

\* docs/embedding.md:187-188, "The server unregisters and closes its completion
\* FD on disconnect, replacement and shutdown": a completion descriptor whose
\* peer is gone does not stay in use.
CompletionFdIsClosed ==
    \A d \in Descriptors :
        (gpuDoneFd = d /\ sentOn[d] \notin peerOpen) ~> gpuDoneFd # d
=============================================================================
