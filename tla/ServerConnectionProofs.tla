----------------------- MODULE ServerConnectionProofs -----------------------
(***************************************************************************)
(* Proofs about the server's end of the renderer connection, for any       *)
(* connections, descriptors and bounds:                                    *)
(*                                                                         *)
(*   FilesCorrect        every file that arrives has one owner and is      *)
(*                       closed once;                                      *)
(*   ConnectionsCorrect  nothing read from one connection is taken for     *)
(*                       another's.                                        *)
(*                                                                         *)
(* The inductive invariant ServerInv says where each descriptor is, how a  *)
(* socket gets from the queue to conn_fd, and which generation the queued  *)
(* commands are of, at every step of the three threads.                    *)
(***************************************************************************)
EXTENDS ServerConnection, FiniteSetTheorems, TLAPS

-----------------------------------------------------------------------------
\* The inductive invariant.

\* A sequence of messages or of work carries a descriptor, in one element.
Carries(s, d) == \E k \in DOMAIN s : s[k].fd = d

Once(s, d) == \A j, k \in DOMAIN s : s[j].fd = d /\ s[k].fd = d => j = k

InSocket(d) == \E c \in Connections : Carries(inbox[c], d)

\* A descriptor was sent if and only if it is in one of five places, and it is
\* in no two of them.
PlacesOf(d) ==
    /\ (Carries(work, d) \/ InSocket(d) \/ gpuDoneFd = d \/ d \in dataFds \/ d \in closed)
       <=> sentOn[d] # None
    /\ Carries(work, d) => ~InSocket(d) /\ gpuDoneFd # d /\ d \notin dataFds /\ d \notin closed
    /\ InSocket(d) => gpuDoneFd # d /\ d \notin dataFds /\ d \notin closed
    /\ gpuDoneFd = d => d \notin dataFds /\ d \notin closed
    /\ d \in dataFds => d \notin closed

HasOnePlace(d) ==
    /\ PlacesOf(d)
    /\ Once(work, d)
    /\ \A c \in Connections : Once(inbox[c], d)
    /\ \A c \in Connections : Carries(inbox[c], d) => sentOn[d] = c
    /\ d \notin closedTwice

DescriptorsHaveOnePlace == \A d \in Descriptors : HasOnePlace(d)

Commands == {"output", "data", "gpu"}

\* An output message carries no descriptor, in its socket or in the queue; nor
\* does work that is no message.  Every command knows its connection.
WorkIsFormed ==
    /\ \A c \in Connections : \A k \in DOMAIN inbox[c] :
          inbox[c][k].type = "output" => inbox[c][k].fd = None
    /\ \A k \in DOMAIN work :
          /\ work[k].type \in {"output", "connect", "reset"} => work[k].fd = None
          /\ work[k].type \in Commands \cup {"connect"} => work[k].from \in Connections
          /\ work[k].fd # None => sentOn[work[k].fd] = work[k].from

\* A connection is queued once, installed once, and closed only after it was
\* registered.
Installing == server.step # "idle"

ConnectionsComeOnce ==
    /\ \A k \in DOMAIN work : work[k].type = "connect" => pair[work[k].from] = "queued"
    /\ \A j, k \in DOMAIN work :
          work[j].type = "connect" /\ work[k].type = "connect" /\ work[j].from = work[k].from => j = k
    /\ Installing => server.new \in Connections /\ pair[server.new] = "served"
    /\ \A c \in Connections : c \in closed \cup {conn_fd, registered} => pair[c] = "served"

\* Only the socket behind conn_fd, or the one about to be stored there, is
\* listened to, and it is open.
SocketsAreInstalled ==
    /\ registered # None => /\ handler = "idle"
                            /\ registered \notin closed
                            /\ IF server.step = "store" THEN registered = server.new
                                                        ELSE registered = conn_fd
    /\ server.step \in {"close", "reset", "register"} => registered = None
    /\ server.step = "close" => handler = "idle"
    /\ server.step \in {"unregister", "close"} => conn_fd \in {server.argument, None}
    /\ Installing => server.new # conn_fd
    /\ Installing /\ server.new \in closed => server.step = "store" /\ server.new \in early

\* Work is never of a later generation, and a command of the present one was
\* read from the socket that is listened to, until that is given up.
GenerationsMatch ==
    /\ \A k \in DOMAIN work :
          /\ work[k].generation <= dataConnection
          /\ work[k].type \in Commands /\ work[k].generation = dataConnection =>
                registered = work[k].from \/ handler # "idle" \/ server.step \in {"close", "reset"}
    /\ server.step \in {"register", "store"} => leases = {} /\ dataFds = {} /\ gpuDoneFd = None
    /\ \A l \in leases : l[2] => registered \in {l[1], None}

ServerInv ==
    /\ TypeOK
    /\ WorkIsFormed
    /\ DescriptorsHaveOnePlace
    /\ ConnectionsComeOnce
    /\ SocketsAreInstalled
    /\ SocketsAreClosedOnce
    /\ GenerationsMatch
    /\ UsedDescriptorsAreCurrent
    /\ HeadersAreWhole

-----------------------------------------------------------------------------
\* Sequences.

\* The elements of a sequence that got one more.
LEMMA AppendFacts ==
    ASSUME NEW S, NEW s \in Seq(S), NEW x \in S
    PROVE  /\ Append(s, x) \in Seq(S)
           /\ \A k \in DOMAIN s : k \in DOMAIN Append(s, x) /\ Append(s, x)[k] = s[k]
           /\ \A k \in DOMAIN Append(s, x) :
                 \/ k \in DOMAIN s /\ Append(s, x)[k] = s[k]
                 \/ k = Len(s) + 1 /\ k \notin DOMAIN s /\ Append(s, x)[k] = x
           /\ Len(s) + 1 \in DOMAIN Append(s, x) /\ Append(s, x)[Len(s) + 1] = x
           /\ Len(s) + 1 \notin DOMAIN s
  <1>1. /\ Append(s, x) \in Seq(S) /\ Len(s) \in Nat /\ DOMAIN s = 1..Len(s)
        /\ DOMAIN Append(s, x) = 1..(Len(s) + 1)
    OBVIOUS
  <1>2. \A k \in 1..Len(s) : Append(s, x)[k] = s[k]
    OBVIOUS
  <1>3. Append(s, x)[Len(s) + 1] = x
    OBVIOUS
  <1> QED  BY <1>1, <1>2, <1>3

\* The elements of a sequence that lost its first one.
LEMMA TailFacts ==
    ASSUME NEW S, NEW s \in Seq(S), s # <<>>
    PROVE  /\ Tail(s) \in Seq(S)
           /\ 1 \in DOMAIN s /\ Head(s) = s[1] /\ Head(s) \in S
           /\ \A k \in DOMAIN Tail(s) :
                 k \in Nat /\ k >= 1 /\ k + 1 \in DOMAIN s /\ Tail(s)[k] = s[k + 1]
           /\ \A k \in DOMAIN s : k = 1 \/ (k - 1 \in DOMAIN Tail(s) /\ Tail(s)[k - 1] = s[k])
  <1>1. /\ Tail(s) \in Seq(S) /\ Len(s) \in Nat /\ Len(s) >= 1 /\ DOMAIN s = 1..Len(s)
        /\ DOMAIN Tail(s) = 1..(Len(s) - 1)
    OBVIOUS
  <1>2. \A k \in 1..(Len(s) - 1) : Tail(s)[k] = s[k + 1]
    OBVIOUS
  <1>3. Head(s) = s[1]
    OBVIOUS
  <1>4. s[1] \in S
    BY <1>1
  <1>5. ASSUME NEW k \in 1..Len(s), k # 1
        PROVE  k - 1 \in 1..(Len(s) - 1) /\ Tail(s)[k - 1] = s[k]
    <2>1. k - 1 \in 1..(Len(s) - 1) /\ (k - 1) + 1 = k
      BY <1>1, <1>5
    <2> QED  BY <1>2, <2>1
  <1> QED  BY <1>1, <1>2, <1>3, <1>4, <1>5

\* A descriptor is carried by an appended element or by one before it.
LEMMA AppendCarries ==
    ASSUME NEW S, NEW s \in Seq(S), NEW x \in S, NEW d
    PROVE  /\ Carries(Append(s, x), d) <=> Carries(s, d) \/ x.fd = d
           /\ Once(s, d) /\ (Carries(s, d) => x.fd # d) => Once(Append(s, x), d)
  <1> DEFINE t == Append(s, x)
  <1>1. /\ \A k \in DOMAIN s : k \in DOMAIN t /\ t[k] = s[k]
        /\ \A k \in DOMAIN t : \/ k \in DOMAIN s /\ t[k] = s[k]
                               \/ k = Len(s) + 1 /\ k \notin DOMAIN s /\ t[k] = x
        /\ Len(s) + 1 \in DOMAIN t /\ t[Len(s) + 1] = x
    BY AppendFacts
  <1> HIDE DEF t
  <1>2. Carries(t, d) <=> Carries(s, d) \/ x.fd = d
    BY <1>1 DEF Carries
  <1>3. Once(s, d) /\ (Carries(s, d) => x.fd # d) => Once(t, d)
    BY <1>1 DEF Carries, Once
  <1> QED  BY <1>2, <1>3 DEF t

\* A descriptor is carried by the first element or by the others.
LEMMA TailCarries ==
    ASSUME NEW S, NEW s \in Seq(S), s # <<>>, NEW d
    PROVE  /\ Carries(s, d) <=> Head(s).fd = d \/ Carries(Tail(s), d)
           /\ Once(s, d) => Once(Tail(s), d) /\ (Head(s).fd = d => ~Carries(Tail(s), d))
  <1> DEFINE t == Tail(s)
  <1>1. /\ 1 \in DOMAIN s /\ Head(s) = s[1]
        /\ \A k \in DOMAIN t : k \in Nat /\ k >= 1 /\ k + 1 \in DOMAIN s /\ t[k] = s[k + 1]
        /\ \A k \in DOMAIN s : k = 1 \/ (k - 1 \in DOMAIN t /\ t[k - 1] = s[k])
    BY TailFacts
  <1> HIDE DEF t
  <1>2. Carries(s, d) <=> Head(s).fd = d \/ Carries(t, d)
    BY <1>1 DEF Carries
  <1>3. Once(s, d) => Once(t, d)
    <2> SUFFICES ASSUME Once(s, d), NEW j \in DOMAIN t, NEW k \in DOMAIN t,
                        t[j].fd = d, t[k].fd = d
                 PROVE  j = k
      BY DEF Once
    <2>1. j + 1 = k + 1
      BY <1>1 DEF Once
    <2> QED  BY <1>1, <2>1
  <1>4. Once(s, d) /\ Head(s).fd = d => ~Carries(t, d)
    <2> SUFFICES ASSUME Once(s, d), Head(s).fd = d, NEW k \in DOMAIN t, t[k].fd = d
                 PROVE  FALSE
      BY DEF Carries
    <2>1. k + 1 = 1
      BY <1>1 DEF Once
    <2> QED  BY <1>1, <2>1
  <1> QED  BY <1>2, <1>3, <1>4 DEF t

-----------------------------------------------------------------------------
\* What the threads take from the queue and from the socket.

\* The work at the head of the queue.
LEMMA HeadFacts ==
    ASSUME ServerInv, work # <<>>
    PROVE  /\ Head(work) \in Work /\ 1 \in DOMAIN work /\ Head(work) = work[1]
           /\ Head(work).fd \in MaybeDescriptor /\ Head(work).generation \in Nat
           /\ Head(work).type \in {"output", "connect", "reset"} => Head(work).fd = None
           /\ Head(work).type \in Commands \cup {"connect"} => Head(work).from \in Connections
           /\ Head(work).fd # None => sentOn[Head(work).fd] = Head(work).from
           /\ Tail(work) \in Seq(Work)
  <1>1. work \in Seq(Work)
    BY DEF ServerInv, TypeOK
  <1>2. /\ Head(work) \in Work /\ 1 \in DOMAIN work /\ Head(work) = work[1] /\ Tail(work) \in Seq(Work)
    BY <1>1, TailFacts
  <1>3. Head(work).fd \in MaybeDescriptor /\ Head(work).generation \in Nat
    BY <1>2 DEF Work
  <1> QED  BY <1>2, <1>3 DEF ServerInv, WorkIsFormed

\* The message at the head of a socket.
LEMMA InboxFacts ==
    ASSUME ServerInv, NEW c \in Connections, inbox[c] # <<>>
    PROVE  /\ inbox[c] \in Seq(Messages) /\ Tail(inbox[c]) \in Seq(Messages)
           /\ Head(inbox[c]) \in Messages
           /\ 1 \in DOMAIN inbox[c] /\ Head(inbox[c]) = inbox[c][1]
           /\ Head(inbox[c]).type \in Commands /\ Head(inbox[c]).fd \in MaybeDescriptor
           /\ Head(inbox[c]).type = "output" => Head(inbox[c]).fd = None
           /\ Head(inbox[c]).fd # None => sentOn[Head(inbox[c]).fd] = c
  <1>1. inbox[c] \in Seq(Messages)
    BY DEF ServerInv, TypeOK
  <1>2. /\ Head(inbox[c]) \in Messages /\ Tail(inbox[c]) \in Seq(Messages)
        /\ 1 \in DOMAIN inbox[c] /\ Head(inbox[c]) = inbox[c][1]
    BY <1>1, TailFacts
  <1>3. Head(inbox[c]).type \in Commands /\ Head(inbox[c]).fd \in MaybeDescriptor
    BY <1>2 DEF Messages, Commands
  <1>4. Head(inbox[c]).type = "output" => Head(inbox[c]).fd = None
    BY <1>2 DEF ServerInv, WorkIsFormed
  <1>5. Head(inbox[c]).fd # None => sentOn[Head(inbox[c]).fd] = c
    <2> SUFFICES ASSUME Head(inbox[c]).fd # None PROVE sentOn[Head(inbox[c]).fd] = c
      OBVIOUS
    <2>1. Head(inbox[c]).fd \in Descriptors
      BY <1>3 DEF MaybeDescriptor
    <2>2. Carries(inbox[c], Head(inbox[c]).fd)
      BY <1>2 DEF Carries
    <2> QED  BY <2>1, <2>2 DEF ServerInv, DescriptorsHaveOnePlace, HasOnePlace
  <1> QED  BY <1>1, <1>2, <1>3, <1>4, <1>5

\* What goes into the queue.
LEMMA ItemFacts ==
    ASSUME ServerInv, NEW type \in {"output", "data", "gpu", "connect", "reset"},
           NEW fd \in MaybeDescriptor, NEW from \in MaybeConnection
    PROVE  /\ Item(type, fd, from) \in Work
           /\ Item(type, fd, from).type = type /\ Item(type, fd, from).fd = fd
           /\ Item(type, fd, from).from = from
           /\ Item(type, fd, from).generation = dataConnection
  BY DEF ServerInv, TypeOK, Item, Work

\* The reset that the error path queues.
LEMMA ResetFacts ==
    ASSUME ServerInv
    PROVE  LET item == [Item("reset", None, None) EXCEPT !.generation = dataConnection + 1]
           IN  /\ item \in Work /\ item.type = "reset" /\ item.fd = None
               /\ item.from = None /\ item.generation = dataConnection + 1
  BY DEF ServerInv, TypeOK, Item, Work, MaybeDescriptor, MaybeConnection

\* The queue grows by one item, loses its head, or stays.
LEMMA WorkFrame ==
    ASSUME ServerInv, Next
    PROVE  \/ \E item \in Work :
                 /\ work' = Append(work, item)
                 /\ \/ \E c \in Connections : /\ lorieServerConnect(c)
                                              /\ item = Item("connect", None, c)
                    \/ /\ Receive /\ inbox[registered] # <<>> /\ registered \in Connections
                       /\ item = Item(Head(inbox[registered]).type, Head(inbox[registered]).fd, registered)
                    \/ /\ AdvanceGeneration /\ item.type = "reset" /\ item.fd = None
                       /\ item.from = None /\ item.generation = dataConnection + 1
           \/ /\ work # <<>> /\ server.step = "idle" /\ work' = Tail(work)
              /\ Head(work).type = "reset" => Reset
           \/ work' = work
  <1>1. ASSUME NEW c \in Connections, lorieServerConnect(c)
        PROVE  Item("connect", None, c) \in Work /\ work' = Append(work, Item("connect", None, c))
    BY <1>1, ItemFacts DEF lorieServerConnect, MaybeConnection, MaybeDescriptor
  <1>2. CASE Receive
    <2>1. /\ registered \in Connections /\ inbox[registered] # <<>>
          /\ work' = Append(work, Item(Head(inbox[registered]).type, Head(inbox[registered]).fd, registered))
      BY <1>2 DEF Receive, Listening, ServerInv, TypeOK, MaybeConnection
    <2>2. Item(Head(inbox[registered]).type, Head(inbox[registered]).fd, registered) \in Work
      BY <2>1, InboxFacts, ItemFacts DEF Commands, MaybeConnection
    <2> QED  BY <1>2, <2>1, <2>2
  <1>3. CASE AdvanceGeneration
    <2> DEFINE item == [Item("reset", None, None) EXCEPT !.generation = dataConnection + 1]
    <2>1. work' = Append(work, item)
      BY <1>3 DEF AdvanceGeneration
    <2>2. /\ item \in Work /\ item.type = "reset" /\ item.fd = None
          /\ item.from = None /\ item.generation = dataConnection + 1
      BY ResetFacts
    <2> HIDE DEF item
    <2> QED  BY <1>3, <2>1, <2>2
  <1>4. \/ \E c \in Connections : lorieServerConnect(c)
        \/ Receive \/ AdvanceGeneration
        \/ /\ work # <<>> /\ server.step = "idle" /\ work' = Tail(work)
           /\ Head(work).type = "reset" => Reset
        \/ work' = work
    BY DEF Next, InputThread, ServerThread, PeerCloses, PeerSends, ReceivePart, ReceiveError,
      ReceiveFails, ForgetConnection, OutputCommand, DataCommand, GpuDoneFd, Reset, BeginConnect,
      TestConnFd, ReadArgument, Unregister, CloseOld, ResetConnection, Register, StoreConnFd,
      DataDone, GpuDoneError, NextWork
  <1> QED  BY <1>1, <1>2, <1>3, <1>4

\* Sockets fill and empty from opposite ends.
LEMMA InboxFrame ==
    ASSUME ServerInv, Next
    PROVE  \/ \E c \in Connections, m \in Messages : PeerSends(c, m)
           \/ Receive \/ ReceiveFails
           \/ inbox' = inbox /\ sentOn' = sentOn
  BY DEF Next, InputThread, ServerThread, lorieServerConnect, PeerCloses, ReceivePart, ReceiveError,
    ForgetConnection, AdvanceGeneration, OutputCommand, DataCommand, GpuDoneFd, Reset,
    BeginConnect, TestConnFd, ReadArgument, Unregister, CloseOld, ResetConnection, Register,
    StoreConnFd, DataDone, GpuDoneError, inputVars, serverVars, connectVars

\* No action leaves the types.
LEMMA TypesStep ==
    ASSUME ServerInv, Next
    PROVE  TypeOK'
  <1>0. TypeOK
    BY DEF ServerInv
  <1>1. work' \in Seq(Work)
    <2>0. work \in Seq(Work)
      BY <1>0 DEF TypeOK
    <2>1. ASSUME NEW item \in Work, work' = Append(work, item) PROVE work' \in Seq(Work)
      BY <2>0, <2>1, AppendFacts
    <2>2. ASSUME work # <<>>, work' = Tail(work) PROVE work' \in Seq(Work)
      BY <2>0, <2>2, TailFacts
    <2> QED  BY <2>0, <2>1, <2>2, WorkFrame
  <1>2. inbox' \in [Connections -> Seq(Messages)] /\ sentOn' \in [Descriptors -> MaybeConnection]
    <2>1. ASSUME NEW c \in Connections, NEW m \in Messages, PeerSends(c, m)
          PROVE  inbox' \in [Connections -> Seq(Messages)] /\ sentOn' \in [Descriptors -> MaybeConnection]
      <3>1. Append(inbox[c], m) \in Seq(Messages)
        BY <1>0, AppendFacts DEF TypeOK
      <3> QED  BY <1>0, <2>1, <3>1 DEF PeerSends, TypeOK, MaybeConnection
    <2>2. CASE Receive \/ ReceiveFails
      <3>1. registered \in Connections /\ inbox[registered] # <<>>
        BY <1>0, <2>2 DEF Receive, ReceiveFails, Listening, TypeOK, MaybeConnection
      <3>2. Tail(inbox[registered]) \in Seq(Messages)
        BY <3>1, InboxFacts
      <3>3. inbox' = [inbox EXCEPT ![registered] = Tail(@)] /\ sentOn' = sentOn
        BY <2>2 DEF Receive, ReceiveFails, inputVars
      <3> QED  BY <1>0, <3>1, <3>2, <3>3 DEF TypeOK
    <2>3. CASE inbox' = inbox /\ sentOn' = sentOn
      BY <1>0, <2>3 DEF TypeOK
    <2> QED  BY <2>1, <2>2, <2>3, InboxFrame
  <1>3. registered \in MaybeConnection /\ conn_fd \in MaybeConnection /\ gpuDoneFd \in MaybeDescriptor
    BY <1>0 DEF TypeOK
  <1>4. server \in [step : ServerSteps, new : MaybeConnection, argument : MaybeConnection]
    BY <1>0 DEF TypeOK
  <1>5. work # <<>> => /\ Head(work).fd \in MaybeDescriptor
                       /\ Head(work).type = "connect" => Head(work).from \in Connections
                       /\ Head(work).type = "output" => Head(work).from \in Connections
    BY HeadFacts DEF Commands
  <1>6. registered # None /\ inbox[registered] # <<>> => Head(inbox[registered]).fd \in MaybeDescriptor
    BY <1>3, InboxFacts DEF MaybeConnection
  <1> USE DEF Next, InputThread, ServerThread, lorieServerConnect, PeerCloses, PeerSends,
      ReceivePart, Receive, ReceiveError, ReceiveFails, Fail, ForgetConnection, AdvanceGeneration,
      OutputCommand, DataCommand, GpuDoneFd, Reset, BeginConnect, TestConnFd, ReadArgument,
      Unregister, CloseOld, ResetConnection, Register, StoreConnFd, DataDone, GpuDoneError,
      Listening, NextWork, At, Goto, lorieSetGpuDoneFd, hostVars, inputVars, serverVars,
      connectVars, MaybeConnection, MaybeDescriptor
  <1>7. pair' \in [Connections -> {"unused", "queued", "served"}]
    BY <1>0 DEF TypeOK
  <1>8. peerOpen' \in SUBSET Connections
    BY <1>0 DEF TypeOK
  <1>9. dataConnection' \in Nat
    <2>1. dataConnection' = dataConnection \/ dataConnection' = dataConnection + 1
      OBVIOUS
    <2>2. dataConnection \in Nat
      BY <1>0 DEF TypeOK
    <2> QED  BY ONLY <2>1, <2>2
  <1>10. handler' \in HandlerSteps
    BY <1>0 DEF TypeOK, HandlerSteps
  <1>11. server' \in [step : ServerSteps, new : MaybeConnection, argument : MaybeConnection]
    <2>1. \/ server' = server \/ server' = Idle
          \/ /\ work # <<>> /\ Head(work).type = "connect"
             /\ server' = [step |-> "test", new |-> Head(work).from, argument |-> None]
          \/ \E step \in ServerSteps : server' = [server EXCEPT !.step = step]
          \/ server' = [server EXCEPT !.step = "unregister", !.argument = conn_fd]
      BY DEF ServerSteps
    <2>2. {"idle", "test", "unregister"} \subseteq ServerSteps
      BY DEF ServerSteps
    <2>3. \A step \in ServerSteps :
             /\ [server EXCEPT !.step = step]
                  \in [step : ServerSteps, new : MaybeConnection, argument : MaybeConnection]
             /\ [server EXCEPT !.step = step, !.argument = conn_fd]
                  \in [step : ServerSteps, new : MaybeConnection, argument : MaybeConnection]
      BY ONLY <1>3, <1>4
    <2>4. Idle \in [step : ServerSteps, new : MaybeConnection, argument : MaybeConnection]
      BY ONLY <2>2 DEF Idle, MaybeConnection
    <2>5. work # <<>> /\ Head(work).type = "connect" =>
             [step |-> "test", new |-> Head(work).from, argument |-> None]
                \in [step : ServerSteps, new : MaybeConnection, argument : MaybeConnection]
      BY ONLY <1>5, <2>2 DEF MaybeConnection
    <2> QED  BY ONLY <1>4, <2>1, <2>2, <2>3, <2>4, <2>5
  <1>12. registered' \in MaybeConnection
    BY <1>3, <1>4
  <1>13. headerOf' \in MaybeConnection
    BY <1>0, <1>3 DEF TypeOK
  <1>14. conn_fd' \in MaybeConnection
    BY <1>3, <1>4
  <1>15. gpuDoneFd' \in MaybeDescriptor
    BY <1>3, <1>5
  <1>16. dataFds' \in SUBSET Descriptors
    BY <1>0, <1>5 DEF TypeOK
  <1>17. leases' \in SUBSET (Connections \X BOOLEAN)
    <2>1. \/ leases' = leases \/ leases' = {}
          \/ /\ work # <<>> /\ Head(work).type = "output"
             /\ \/ leases' = leases \cup {<<Head(work).from, Current(Head(work))>>}
                \/ leases' = leases \ {<<Head(work).from, TRUE>>, <<Head(work).from, FALSE>>}
      OBVIOUS
    <2>2. leases \in SUBSET (Connections \X BOOLEAN) /\ Current(Head(work)) \in BOOLEAN
      BY <1>0 DEF TypeOK, Current
    <2>3. leases \cup {<<Head(work).from, Current(Head(work))>>} \in SUBSET (Connections \X BOOLEAN)
             \/ Head(work).from \notin Connections
      <3> DEFINE now == Current(Head(work))
      <3>1. now \in BOOLEAN /\ leases \in SUBSET (Connections \X BOOLEAN)
        BY <2>2
      <3> HIDE DEF now
      <3>2. leases \cup {<<Head(work).from, now>>} \in SUBSET (Connections \X BOOLEAN)
               \/ Head(work).from \notin Connections
        BY ONLY <3>1
      <3> QED  BY <3>2 DEF now
    <2> QED  BY ONLY <1>5, <2>1, <2>2, <2>3
  <1>18. early' \in SUBSET Connections
    BY <1>0, <1>3 DEF TypeOK
  <1>19. closed' \in SUBSET (Connections \cup Descriptors) /\ closedTwice' \in SUBSET (Connections \cup Descriptors)
    <2>1. \/ UNCHANGED <<closed, closedTwice>>
          \/ registered # None /\ Close({} \cup {registered})
          \/ /\ registered # None /\ inbox[registered] # <<>>
             /\ Close({Head(inbox[registered]).fd} \cup {registered})
          \/ work # <<>> /\ Close({Head(work).fd})
          \/ \E d \in Descriptors : Close({d})
          \/ work # <<>> /\ Close({} \cup {gpuDoneFd})
          \/ work # <<>> /\ Close({Head(work).fd} \cup {gpuDoneFd})
          \/ Close({} \cup {gpuDoneFd})
          \/ Close(dataFds \cup {gpuDoneFd})
          \/ Close({conn_fd})
      OBVIOUS
    <2>2. /\ closed \in SUBSET (Connections \cup Descriptors)
          /\ closedTwice \in SUBSET (Connections \cup Descriptors)
          /\ dataFds \in SUBSET Descriptors
      BY <1>0 DEF TypeOK
    <2> QED  BY ONLY <1>3, <1>5, <1>6, <2>1, <2>2 DEF Close, MaybeConnection, MaybeDescriptor
  <1> QED
    BY <1>1, <1>2, <1>7, <1>8, <1>9, <1>10, <1>11, <1>12, <1>13, <1>14, <1>15, <1>16, <1>17, <1>18,
      <1>19 DEF TypeOK

-----------------------------------------------------------------------------
\* Where the descriptors are.

\* A descriptor stays with the connection it was sent on.
LEMMA SentOnStays ==
    ASSUME ServerInv, Next, NEW d \in Descriptors, sentOn[d] # None
    PROVE  sentOn'[d] = sentOn[d]
  BY InboxFrame, ConnectionAssumption DEF PeerSends, Receive, ReceiveFails, inputVars

\* Messages and work keep their form.
LEMMA FormedStep ==
    ASSUME ServerInv, Next
    PROVE  WorkIsFormed'
  <1>1. ASSUME NEW c \in Connections, NEW k \in DOMAIN inbox'[c], inbox'[c][k].type = "output"
        PROVE  inbox'[c][k].fd = None
    <2>0. /\ \A j \in DOMAIN inbox[c] : inbox[c][j].type = "output" => inbox[c][j].fd = None
          /\ inbox \in [Connections -> Seq(Messages)]
      BY DEF ServerInv, WorkIsFormed, TypeOK
    <2>1. ASSUME NEW e \in Connections, NEW m \in Messages, PeerSends(e, m)
          PROVE  inbox'[c][k].fd = None
      <3>1. /\ inbox'[c] = IF c = e THEN Append(inbox[e], m) ELSE inbox[c]
            /\ m.type = "output" => m.fd = None
        BY <2>0, <2>1 DEF PeerSends
      <3>2. CASE c = e
        BY <1>1, <2>0, <3>1, <3>2, AppendFacts
      <3> QED  BY <1>1, <2>0, <3>1, <3>2
    <2>2. CASE Receive \/ ReceiveFails
      <3>1. /\ registered \in Connections /\ inbox[registered] # <<>>
            /\ inbox'[c] = IF c = registered THEN Tail(inbox[c]) ELSE inbox[c]
        BY <2>0, <2>2 DEF Receive, ReceiveFails, Listening, ServerInv, TypeOK, MaybeConnection
      <3>2. CASE c = registered
        BY <1>1, <2>0, <3>1, <3>2, TailFacts
      <3> QED  BY <1>1, <2>0, <3>1, <3>2
    <2>3. CASE inbox' = inbox
      BY <1>1, <2>0, <2>3
    <2> QED  BY <2>1, <2>2, <2>3, InboxFrame
  <1> DEFINE Formed(w) == /\ w.type \in {"output", "connect", "reset"} => w.fd = None
                          /\ w.type \in Commands \cup {"connect"} => w.from \in Connections
                          /\ w.fd # None => sentOn[w.fd] = w.from
             Formed2(w) == /\ w.type \in {"output", "connect", "reset"} => w.fd = None
                           /\ w.type \in Commands \cup {"connect"} => w.from \in Connections
                           /\ w.fd # None => sentOn'[w.fd] = w.from
  <1>2. \A w \in Work : Formed(w) => Formed2(w)
    <2> SUFFICES ASSUME NEW w \in Work, Formed(w), w.fd # None PROVE sentOn'[w.fd] = w.from
      OBVIOUS
    <2>1. w.fd \in Descriptors /\ w.type \in Commands
      BY DEF Work, MaybeDescriptor, Commands
    <2>2. sentOn[w.fd] = w.from /\ w.from \in Connections
      BY <2>1
    <2> QED  BY <2>1, <2>2, SentOnStays, ConnectionAssumption
  <1>3. work \in Seq(Work) /\ \A k \in DOMAIN work : Formed(work[k])
    BY DEF ServerInv, TypeOK, WorkIsFormed
  <1>4. \A k \in DOMAIN work : work[k] \in Work
    BY <1>3
  <1> HIDE DEF Formed
  <1>5. ASSUME NEW k \in DOMAIN work' PROVE Formed2(work'[k])
    <2>1. ASSUME NEW item \in Work, work' = Append(work, item), Formed2(item)
          PROVE  Formed2(work'[k])
      <3> HIDE DEF Formed2
      <3> QED  BY <1>2, <1>3, <1>4, <2>1, AppendFacts
    <2>2. ASSUME work # <<>>, work' = Tail(work)
          PROVE  Formed2(work'[k])
      <3> HIDE DEF Formed2
      <3> QED  BY <1>2, <1>3, <1>4, <2>2, TailFacts
    <2>3. CASE work' = work
      <3> HIDE DEF Formed2
      <3> QED  BY <1>2, <1>3, <1>4, <2>3
    <2>4. ASSUME NEW c \in Connections PROVE Formed2(Item("connect", None, c))
      BY ItemFacts, ConnectionAssumption DEF MaybeDescriptor, MaybeConnection
    <2>5. ASSUME Receive, inbox[registered] # <<>>, registered \in Connections
          PROVE  Formed2(Item(Head(inbox[registered]).type, Head(inbox[registered]).fd, registered))
      <3> DEFINE h == Head(inbox[registered])
      <3>1. /\ h.type \in Commands /\ h.fd \in MaybeDescriptor
            /\ h.type = "output" => h.fd = None
            /\ h.fd # None => sentOn[h.fd] = registered
        BY <2>5, InboxFacts
      <3>2. sentOn' = sentOn
        BY <2>5 DEF Receive, inputVars
      <3> HIDE DEF h
      <3>3. /\ Item(h.type, h.fd, registered).type = h.type /\ Item(h.type, h.fd, registered).fd = h.fd
            /\ Item(h.type, h.fd, registered).from = registered
        BY <2>5, <3>1, ItemFacts DEF Commands, MaybeConnection
      <3>4. Formed2(Item(h.type, h.fd, registered))
        BY <2>5, <3>1, <3>2, <3>3 DEF Commands
      <3> QED  BY <3>4 DEF h
    <2>6. ASSUME NEW item \in Work, item.type = "reset", item.fd = None PROVE Formed2(item)
      BY <2>6 DEF Commands
    <2> HIDE DEF Formed2
    <2> QED  BY <2>1, <2>2, <2>3, <2>4, <2>5, <2>6, WorkFrame
  <1> QED  BY <1>1, <1>5 DEF WorkIsFormed

\* A message leaves its socket.
LEMMA InboxPops ==
    ASSUME ServerInv, NEW r \in Connections, inbox[r] # <<>>,
           inbox' = [inbox EXCEPT ![r] = Tail(@)], NEW d \in Descriptors
    PROVE  /\ InSocket(d)' <=> InSocket(d) /\ Head(inbox[r]).fd # d
           /\ Head(inbox[r]).fd = d => InSocket(d)
           /\ \A c \in Connections : Once(inbox'[c], d)
           /\ \A c \in Connections : Carries(inbox'[c], d) => sentOn[d] = c
  <1>1. /\ \A c \in Connections : Once(inbox[c], d)
        /\ \A c \in Connections : Carries(inbox[c], d) => sentOn[d] = c
        /\ inbox \in [Connections -> Seq(Messages)]
    BY DEF ServerInv, DescriptorsHaveOnePlace, HasOnePlace, TypeOK
  <1>2. \A c \in Connections : inbox'[c] = IF c = r THEN Tail(inbox[r]) ELSE inbox[c]
    BY <1>1
  <1>3. /\ Carries(inbox[r], d) <=> Head(inbox[r]).fd = d \/ Carries(Tail(inbox[r]), d)
        /\ Once(Tail(inbox[r]), d) /\ (Head(inbox[r]).fd = d => ~Carries(Tail(inbox[r]), d))
    BY <1>1, TailCarries
  <1>4. \A c \in Connections : Carries(inbox'[c], d) <=>
           Carries(inbox[c], d) /\ (c = r => Head(inbox[r]).fd # d)
    BY <1>2, <1>3
  <1>5. InSocket(d)' <=> InSocket(d) /\ Head(inbox[r]).fd # d
    BY <1>1, <1>3, <1>4 DEF InSocket
  <1> QED  BY <1>1, <1>2, <1>3, <1>4, <1>5 DEF InSocket

\* An item leaves the queue.
LEMMA WorkPops ==
    ASSUME ServerInv, work # <<>>, work' = Tail(work), NEW d \in Descriptors
    PROVE  /\ Carries(work', d) <=> Carries(work, d) /\ Head(work).fd # d
           /\ Head(work).fd = d => Carries(work, d)
           /\ Once(work', d)
  <1>1. Once(work, d) /\ work \in Seq(Work)
    BY DEF ServerInv, DescriptorsHaveOnePlace, HasOnePlace, TypeOK
  <1> QED  BY <1>1, TailCarries

\* Closing what is open closes nothing twice.
LEMMA ClosingMoves ==
    ASSUME ServerInv, NEW d \in Descriptors, NEW S, Close(S), d \in S => d \notin closed
    PROVE  /\ d \in closed' <=> d \in closed \/ d \in S
           /\ d \notin closedTwice'
  BY ConnectionAssumption DEF Close, ServerInv, DescriptorsHaveOnePlace, HasOnePlace

\* Every step moves a descriptor from one place to another or leaves it alone.
LEMMA PlacesStep ==
    ASSUME ServerInv, Next
    PROVE  DescriptorsHaveOnePlace'
  <1> SUFFICES ASSUME NEW d \in Descriptors PROVE HasOnePlace(d)'
    BY DEF DescriptorsHaveOnePlace
  <1>0. HasOnePlace(d)
    BY DEF ServerInv, DescriptorsHaveOnePlace
  <1>d. d # None /\ d \notin Connections
    BY ConnectionAssumption
  <1>t. /\ work \in Seq(Work) /\ inbox \in [Connections -> Seq(Messages)]
        /\ registered \in MaybeConnection /\ conn_fd \in MaybeConnection
    BY DEF ServerInv, TypeOK
  <1>1. ASSUME NEW c \in Connections, NEW m \in Messages, PeerSends(c, m)
        PROVE  HasOnePlace(d)'
    <2>1. /\ UNCHANGED <<work, gpuDoneFd, dataFds, closed, closedTwice>>
          /\ sentOn'[d] = IF d = m.fd THEN c ELSE sentOn[d]
          /\ m.fd = d => sentOn[d] = None
          /\ \A e \in Connections : inbox'[e] = IF e = c THEN Append(inbox[c], m) ELSE inbox[e]
      BY <1>1, <1>d, <1>t DEF PeerSends, hostVars
    <2>2. /\ Carries(Append(inbox[c], m), d) <=> Carries(inbox[c], d) \/ m.fd = d
          /\ Once(inbox[c], d) /\ (Carries(inbox[c], d) => m.fd # d) => Once(Append(inbox[c], m), d)
      BY <1>t, AppendCarries
    <2>3. \A e \in Connections : Carries(inbox'[e], d) <=> Carries(inbox[e], d) \/ (e = c /\ m.fd = d)
      BY <2>1, <2>2
    <2>4. InSocket(d)' <=> InSocket(d) \/ m.fd = d
      BY <2>3 DEF InSocket
    <2>5. m.fd = d => \A e \in Connections : ~Carries(inbox[e], d)
      BY <1>0, <2>1 DEF HasOnePlace, PlacesOf, InSocket
    <2>6. \A e \in Connections : Once(inbox'[e], d)
      BY <1>0, <2>1, <2>2, <2>5 DEF HasOnePlace
    <2>7. \A e \in Connections : Carries(inbox'[e], d) => sentOn'[d] = e
      BY <1>0, <2>1, <2>3, <2>5 DEF HasOnePlace
    <2>8. c # None
      BY ConnectionAssumption
    <2>9. PlacesOf(d)'
      BY <1>0, <2>1, <2>4, <2>8 DEF HasOnePlace, PlacesOf
    <2> QED  BY <1>0, <2>1, <2>6, <2>7, <2>9 DEF HasOnePlace
  <1>2. CASE Receive
    <2>1. /\ registered \in Connections /\ inbox[registered] # <<>>
          /\ inbox' = [inbox EXCEPT ![registered] = Tail(@)]
          /\ UNCHANGED <<gpuDoneFd, dataFds, closed, closedTwice, sentOn>>
          /\ work' = Append(work, Item(Head(inbox[registered]).type, Head(inbox[registered]).fd, registered))
      BY <1>2, <1>t DEF Receive, Listening, MaybeConnection, inputVars
    <2> DEFINE h == Head(inbox[registered])
    <2>2. /\ InSocket(d)' <=> InSocket(d) /\ h.fd # d
          /\ h.fd = d => InSocket(d)
          /\ \A c \in Connections : Once(inbox'[c], d)
          /\ \A c \in Connections : Carries(inbox'[c], d) => sentOn[d] = c
      BY <2>1, InboxPops
    <2>3. h.type \in Commands /\ h.fd \in MaybeDescriptor
      BY <2>1, InboxFacts
    <2> HIDE DEF h
    <2>4. Item(h.type, h.fd, registered) \in Work /\ Item(h.type, h.fd, registered).fd = h.fd
      BY <2>1, <2>3, ItemFacts DEF Commands, MaybeConnection
    <2>5. /\ Carries(work', d) <=> Carries(work, d) \/ h.fd = d
          /\ Once(work, d) /\ (Carries(work, d) => h.fd # d) => Once(work', d)
      BY <1>t, <2>1, <2>4, AppendCarries DEF h
    <2>6. Once(work', d)
      BY <1>0, <2>2, <2>5 DEF HasOnePlace, PlacesOf
    <2>7. PlacesOf(d)'
      BY <1>0, <2>1, <2>2, <2>5 DEF HasOnePlace, PlacesOf
    <2> QED  BY <1>0, <2>1, <2>2, <2>6, <2>7 DEF HasOnePlace
  <1>3. CASE ReceiveFails
    <2>1. /\ registered \in Connections /\ inbox[registered] # <<>>
          /\ inbox' = [inbox EXCEPT ![registered] = Tail(@)]
          /\ UNCHANGED <<gpuDoneFd, dataFds, work, sentOn>>
          /\ Close({Head(inbox[registered]).fd} \cup {registered})
      BY <1>3, <1>t DEF ReceiveFails, Fail, Listening, MaybeConnection, inputVars
    <2> DEFINE h == Head(inbox[registered])
    <2>2. /\ InSocket(d)' <=> InSocket(d) /\ h.fd # d
          /\ h.fd = d => InSocket(d)
          /\ \A c \in Connections : Once(inbox'[c], d)
          /\ \A c \in Connections : Carries(inbox'[c], d) => sentOn[d] = c
      BY <2>1, InboxPops
    <2> HIDE DEF h
    <2>3. d \in {h.fd} \cup {registered} <=> h.fd = d
      BY <1>d, <2>1
    <2>4. d \in {h.fd} \cup {registered} => d \notin closed
      BY <1>0, <2>2, <2>3 DEF HasOnePlace, PlacesOf
    <2>5. (d \in closed' <=> d \in closed \/ h.fd = d) /\ d \notin closedTwice'
      BY <2>1, <2>3, <2>4, ClosingMoves DEF h
    <2>6. PlacesOf(d)'
      BY <1>0, <2>1, <2>2, <2>5 DEF HasOnePlace, PlacesOf
    <2> QED  BY <1>0, <2>1, <2>2, <2>5, <2>6 DEF HasOnePlace
  <1>4. ASSUME NEW item \in Work, work' = Append(work, item), item.fd = None,
               UNCHANGED <<inbox, sentOn, gpuDoneFd, dataFds, closed, closedTwice>>
        PROVE  HasOnePlace(d)'
    <2>1. (Carries(work', d) <=> Carries(work, d)) /\ (Once(work, d) => Once(work', d))
      BY <1>4, <1>d, <1>t, AppendCarries
    <2>2. InSocket(d)' <=> InSocket(d)
      BY <1>4 DEF InSocket
    <2>3. PlacesOf(d)'
      BY <1>0, <1>4, <2>1, <2>2 DEF HasOnePlace, PlacesOf
    <2> QED  BY <1>0, <1>4, <2>1, <2>3 DEF HasOnePlace
  \* Everything else: the sockets stay, the queue stays or loses its head.
  <1> DEFINE popped == IF work' = work THEN None ELSE Head(work).fd
             Moves(S) ==
                /\ UNCHANGED <<inbox, sentOn>>
                /\ work' = work \/ (work # <<>> /\ work' = Tail(work))
                /\ Close(S) \/ (S = {} /\ UNCHANGED <<closed, closedTwice>>)
                /\ d \in S => popped = d \/ gpuDoneFd = d \/ d \in dataFds
                /\ (popped = d \/ gpuDoneFd = d \/ d \in dataFds)
                      <=> (gpuDoneFd' = d \/ d \in dataFds' \/ d \in S)
                /\ gpuDoneFd' = d => d \notin dataFds' /\ d \notin S
                /\ d \in dataFds' => d \notin S
  <1>5. ASSUME NEW S, Moves(S)
        PROVE  HasOnePlace(d)'
    <2>1. /\ Carries(work', d) <=> Carries(work, d) /\ popped # d
          /\ popped = d => Carries(work, d)
          /\ Once(work', d)
      <3>1. CASE work' = work
        BY <1>0, <1>d, <3>1 DEF HasOnePlace
      <3>2. CASE work' # work
        BY <1>5, <3>2, WorkPops
      <3> QED  BY <3>1, <3>2
    <2> HIDE DEF popped
    <2>2. InSocket(d)' <=> InSocket(d)
      BY <1>5 DEF InSocket
    <2>3. d \in S => d \notin closed
      BY <1>0, <1>5, <2>1 DEF HasOnePlace, PlacesOf
    <2>4. (d \in closed' <=> d \in closed \/ d \in S) /\ d \notin closedTwice'
      <3>1. CASE Close(S)
        BY <2>3, <3>1, ClosingMoves
      <3>2. CASE S = {} /\ UNCHANGED <<closed, closedTwice>>
        BY <1>0, <3>2 DEF HasOnePlace
      <3> QED  BY <1>5, <3>1, <3>2
    <2>5. PlacesOf(d)'
      BY <1>0, <1>5, <2>1, <2>2, <2>4 DEF HasOnePlace, PlacesOf
    <2> QED  BY <1>0, <1>5, <2>1, <2>4, <2>5 DEF HasOnePlace
  <1>6. work # <<>> => Tail(work) # work
    <2> SUFFICES ASSUME work # <<>> PROVE Tail(work) # work
      OBVIOUS
    <2> DEFINE t == Tail(work)
               m == Len(work)
               n == Len(t)
    <2>1. n = m - 1 /\ m \in Nat
      BY <1>t
    <2>2. n # m
      <3> HIDE DEF m, n
      <3> QED  BY ONLY <2>1
    <2> QED  BY <2>2, Zenon
  <1>7. /\ work # <<>> /\ Head(work).fd = d => gpuDoneFd # d /\ d \notin dataFds
        /\ gpuDoneFd = d => d \notin dataFds
    BY <1>0, <1>t, TailCarries DEF HasOnePlace, PlacesOf
  <1>8. CASE UNCHANGED <<inbox, sentOn, work, gpuDoneFd, dataFds, closed, closedTwice>>
    <2>1. popped = None
      BY <1>8
    <2> HIDE DEF popped
    <2>2. Moves({})
      BY <1>7, <1>8, <1>d, <2>1
    <2> HIDE DEF Moves
    <2> QED  BY <1>5, <2>2
  <1>9. CASE ReceiveError
    <2>1. /\ UNCHANGED <<inbox, sentOn, work, gpuDoneFd, dataFds>> /\ Close({} \cup {registered})
          /\ registered \in Connections
      BY <1>9, <1>t DEF ReceiveError, Fail, Listening, inputVars, MaybeConnection
    <2>2. popped = None /\ d \notin {} \cup {registered}
      BY <1>d, <2>1
    <2> HIDE DEF popped
    <2>3. Moves({} \cup {registered})
      BY <1>7, <1>d, <2>1, <2>2
    <2> HIDE DEF Moves
    <2> QED  BY <1>5, <2>3
  <1>10. CASE CloseOld
    <2>1. UNCHANGED <<inbox, sentOn, work, gpuDoneFd, dataFds>> /\ Close({conn_fd})
      BY <1>10 DEF CloseOld, connectVars
    <2>2. popped = None /\ d \notin {conn_fd}
      BY <1>d, <1>t, <2>1 DEF MaybeConnection
    <2> HIDE DEF popped
    <2>3. Moves({conn_fd})
      BY <1>7, <1>d, <2>1, <2>2
    <2> HIDE DEF Moves
    <2> QED  BY <1>5, <2>3
  <1>11. ASSUME NEW e \in Descriptors, DataDone(e) PROVE HasOnePlace(d)'
    <2>1. /\ UNCHANGED <<inbox, sentOn, work, gpuDoneFd>> /\ Close({e})
          /\ e \in dataFds /\ dataFds' = dataFds \ {e}
      BY <1>11 DEF DataDone, serverVars
    <2>2. popped = None
      BY <2>1
    <2> HIDE DEF popped
    <2>3. Moves({e})
      BY <1>7, <1>d, <2>1, <2>2
    <2> HIDE DEF Moves
    <2> QED  BY <1>5, <2>3
  <1>12. CASE GpuDoneError
    <2>1. /\ UNCHANGED <<inbox, sentOn, work, dataFds>> /\ Close({} \cup {gpuDoneFd}) /\ gpuDoneFd' = None
      BY <1>12 DEF GpuDoneError, serverVars, lorieSetGpuDoneFd
    <2>2. popped = None
      BY <2>1
    <2> HIDE DEF popped
    <2>3. Moves({} \cup {gpuDoneFd})
      BY <1>7, <1>d, <2>1, <2>2
    <2> HIDE DEF Moves
    <2> QED  BY <1>5, <2>3
  <1>13. CASE ResetConnection
    <2>1. /\ UNCHANGED <<inbox, sentOn, work>> /\ Close(dataFds \cup {gpuDoneFd})
          /\ gpuDoneFd' = None /\ dataFds' = {}
      BY <1>13 DEF ResetConnection, lorieSetGpuDoneFd
    <2>2. popped = None
      BY <2>1
    <2> HIDE DEF popped
    <2>3. Moves(dataFds \cup {gpuDoneFd})
      BY <1>7, <1>d, <2>1, <2>2
    <2> HIDE DEF Moves
    <2> QED  BY <1>5, <2>3
  \* The work that runs from the queue.
  <1>14. ASSUME work # <<>>, work' = Tail(work)
         PROVE  popped = Head(work).fd
    BY <1>6, <1>14
  <1>15. CASE OutputCommand \/ BeginConnect
    <2>1. /\ work # <<>> /\ work' = Tail(work) /\ Head(work).type \in {"output", "connect"}
          /\ UNCHANGED <<inbox, sentOn, gpuDoneFd, dataFds, closed, closedTwice>>
      BY <1>15 DEF OutputCommand, BeginConnect, NextWork, serverVars
    <2>2. popped = None
      BY <1>14, <2>1, HeadFacts
    <2> HIDE DEF popped
    <2>3. Moves({})
      BY <1>7, <1>d, <2>1, <2>2
    <2> HIDE DEF Moves
    <2> QED  BY <1>5, <2>3
  <1>16. CASE DataCommand
    <2> DEFINE h == Head(work).fd
    <2>1. /\ work # <<>> /\ work' = Tail(work)
          /\ UNCHANGED <<inbox, sentOn, gpuDoneFd>>
          /\ \/ dataFds' = dataFds \cup ({h} \ {None}) /\ UNCHANGED <<closed, closedTwice>>
             \/ Close({h}) /\ dataFds' = dataFds
      BY <1>16 DEF DataCommand, NextWork, serverVars
    <2>2. popped = h /\ (h = d => gpuDoneFd # d /\ d \notin dataFds)
      BY <1>7, <1>14, <2>1
    <2> HIDE DEF popped, h
    <2>3. CASE dataFds' = dataFds \cup ({h} \ {None}) /\ UNCHANGED <<closed, closedTwice>>
      <3>1. Moves({})
        BY <1>7, <1>d, <2>1, <2>2, <2>3
      <3> HIDE DEF Moves
      <3> QED  BY <1>5, <3>1
    <2>4. CASE Close({h}) /\ dataFds' = dataFds
      <3>1. Moves({h})
        BY <1>7, <1>d, <2>1, <2>2, <2>4
      <3> HIDE DEF Moves
      <3> QED  BY <1>5, <3>1
    <2> QED  BY <2>1, <2>3, <2>4
  <1>17. CASE GpuDoneFd
    <2> DEFINE h == Head(work).fd
    <2>1. /\ work # <<>> /\ work' = Tail(work)
          /\ UNCHANGED <<inbox, sentOn, dataFds>>
          /\ \/ Close({} \cup {gpuDoneFd}) /\ gpuDoneFd' = h
             \/ Close({h} \cup {gpuDoneFd}) /\ gpuDoneFd' = None
             \/ Close({h}) /\ gpuDoneFd' = gpuDoneFd
      BY <1>17 DEF GpuDoneFd, NextWork, serverVars, lorieSetGpuDoneFd
    <2>2. popped = h /\ (h = d => gpuDoneFd # d /\ d \notin dataFds)
      BY <1>7, <1>14, <2>1
    <2> HIDE DEF popped, h
    <2>3. CASE Close({} \cup {gpuDoneFd}) /\ gpuDoneFd' = h
      <3>1. Moves({} \cup {gpuDoneFd})
        BY <1>7, <1>d, <2>1, <2>2, <2>3
      <3> HIDE DEF Moves
      <3> QED  BY <1>5, <3>1
    <2>4. CASE Close({h} \cup {gpuDoneFd}) /\ gpuDoneFd' = None
      <3>1. Moves({h} \cup {gpuDoneFd})
        BY <1>7, <1>d, <2>1, <2>2, <2>4
      <3> HIDE DEF Moves
      <3> QED  BY <1>5, <3>1
    <2>5. CASE Close({h}) /\ gpuDoneFd' = gpuDoneFd
      <3>1. Moves({h})
        BY <1>7, <1>d, <2>1, <2>2, <2>5
      <3> HIDE DEF Moves
      <3> QED  BY <1>5, <3>1
    <2> QED  BY <2>1, <2>3, <2>4, <2>5
  <1>18. CASE Reset
    <2>1. /\ work # <<>> /\ work' = Tail(work) /\ Head(work).type = "reset"
          /\ UNCHANGED <<inbox, sentOn>>
          /\ \/ Close(dataFds \cup {gpuDoneFd}) /\ gpuDoneFd' = None /\ dataFds' = {}
             \/ UNCHANGED <<gpuDoneFd, dataFds, closed, closedTwice>>
      BY <1>18 DEF Reset, NextWork, serverVars, lorieSetGpuDoneFd
    <2>2. popped = None
      BY <1>14, <2>1, HeadFacts
    <2> HIDE DEF popped
    <2>3. CASE Close(dataFds \cup {gpuDoneFd}) /\ gpuDoneFd' = None /\ dataFds' = {}
      <3>1. Moves(dataFds \cup {gpuDoneFd})
        BY <1>7, <1>d, <2>1, <2>2, <2>3
      <3> HIDE DEF Moves
      <3> QED  BY <1>5, <3>1
    <2>4. CASE UNCHANGED <<gpuDoneFd, dataFds, closed, closedTwice>>
      <3>1. Moves({})
        BY <1>7, <1>d, <2>1, <2>2, <2>4
      <3> HIDE DEF Moves
      <3> QED  BY <1>5, <3>1
    <2> QED  BY <2>1, <2>3, <2>4
  <1>19. ASSUME NEW c \in Connections, lorieServerConnect(c) PROVE HasOnePlace(d)'
    <2>1. Item("connect", None, c) \in Work /\ Item("connect", None, c).fd = None
      BY ItemFacts DEF MaybeConnection, MaybeDescriptor
    <2>2. /\ work' = Append(work, Item("connect", None, c))
          /\ UNCHANGED <<inbox, sentOn, gpuDoneFd, dataFds, closed, closedTwice>>
      BY <1>19 DEF lorieServerConnect, hostVars
    <2> QED  BY <1>4, <2>1, <2>2
  <1>20. CASE AdvanceGeneration
    <2> DEFINE item == [Item("reset", None, None) EXCEPT !.generation = dataConnection + 1]
    <2>1. /\ work' = Append(work, item)
          /\ UNCHANGED <<inbox, sentOn, gpuDoneFd, dataFds, closed, closedTwice>>
      BY <1>20 DEF AdvanceGeneration, inputVars
    <2>2. item \in Work /\ item.fd = None
      BY ResetFacts
    <2> HIDE DEF item
    <2> QED  BY <1>4, <2>1, <2>2
  <1>21. ASSUME \/ \E c \in Connections : PeerCloses(c)
                \/ ReceivePart \/ ForgetConnection \/ TestConnFd \/ ReadArgument \/ Unregister
                \/ Register \/ StoreConnFd
         PROVE  UNCHANGED <<inbox, sentOn, work, gpuDoneFd, dataFds, closed, closedTwice>>
    BY <1>21 DEF PeerCloses, ReceivePart, ForgetConnection, TestConnFd, ReadArgument, Unregister,
      Register, StoreConnFd, hostVars, inputVars, connectVars
  <1> HIDE DEF popped, Moves
  <1> QED
    BY <1>1, <1>2, <1>3, <1>8, <1>9, <1>10, <1>11, <1>12, <1>13, <1>15, <1>16, <1>17, <1>18,
      <1>19, <1>20, <1>21 DEF Next, InputThread, ServerThread

-----------------------------------------------------------------------------
\* How a socket gets from the queue to conn_fd, and how it is closed.

SameSockets ==
    \A c \in Connections : (c \in closed' <=> c \in closed) /\ (c \in closedTwice' <=> c \in closedTwice)

ClosesSocket(s) ==
    \A c \in Connections : /\ c \in closed' <=> c \in closed \/ c = s
                           /\ c \in closedTwice' <=> c \in closedTwice \/ (c = s /\ c \in closed)

\* Only the error path and the replacement close a socket.
LEMMA SocketFrame ==
    ASSUME ServerInv, Next
    PROVE  \/ UNCHANGED <<registered, handler, conn_fd, server, early>> /\ SameSockets
           \/ (ReceiveError \/ ReceiveFails) /\ ClosesSocket(registered)
           \/ CloseOld /\ ClosesSocket(conn_fd)
           \/ /\ \/ ForgetConnection \/ AdvanceGeneration \/ BeginConnect \/ TestConnFd \/ ReadArgument
                 \/ Unregister \/ ResetConnection \/ Register \/ StoreConnFd
              /\ SameSockets
  <1>t. /\ registered \in MaybeConnection /\ gpuDoneFd \in MaybeDescriptor
        /\ dataFds \in SUBSET Descriptors
    BY DEF ServerInv, TypeOK
  <1>h. work # <<>> => Head(work).fd \in MaybeDescriptor
    BY HeadFacts
  <1>1. ASSUME NEW S, Close(S), S \in SUBSET MaybeDescriptor PROVE SameSockets
    BY <1>1, ConnectionAssumption DEF Close, SameSockets, MaybeDescriptor
  <1>2. ASSUME NEW S, NEW s, Close(S \cup {s}), S \in SUBSET MaybeDescriptor, s \in MaybeConnection
        PROVE  ClosesSocket(s)
    BY <1>2, ConnectionAssumption DEF Close, ClosesSocket, MaybeDescriptor, MaybeConnection
  <1>3. UNCHANGED <<closed, closedTwice>> => SameSockets
    BY DEF SameSockets
  <1>4. ReceiveError => ClosesSocket(registered)
    <2>1. ReceiveError => Close({} \cup {registered})
      BY DEF ReceiveError, Fail
    <2> QED  BY <1>t, <2>1, ConnectionAssumption DEF Close, ClosesSocket, MaybeConnection
  <1>5. ReceiveFails => ClosesSocket(registered)
    <2> SUFFICES ASSUME ReceiveFails PROVE ClosesSocket(registered)
      OBVIOUS
    <2>1. Close({Head(inbox[registered]).fd} \cup {registered}) /\ inbox[registered] # <<>>
          /\ registered \in Connections
      BY <1>t DEF ReceiveFails, Fail, Listening, MaybeConnection
    <2>2. {Head(inbox[registered]).fd} \in SUBSET MaybeDescriptor
      BY <2>1, InboxFacts
    <2> QED  BY <1>2, <1>t, <2>1, <2>2
  <1>6. CloseOld => ClosesSocket(conn_fd)
    <2>1. CloseOld => Close({conn_fd}) /\ conn_fd \in MaybeConnection
      BY DEF CloseOld, ServerInv, TypeOK
    <2> QED  BY <2>1, ConnectionAssumption DEF Close, ClosesSocket, MaybeConnection
  <1>7. DataCommand => SameSockets
    <2>1. DataCommand => work # <<>> /\ (UNCHANGED <<closed, closedTwice>> \/ Close({Head(work).fd}))
      BY DEF DataCommand, NextWork
    <2> QED  BY <1>1, <1>3, <1>h, <2>1
  <1>8. \A d \in Descriptors : DataDone(d) => SameSockets
    BY <1>1 DEF DataDone, MaybeDescriptor
  <1>9. GpuDoneFd => SameSockets
    <2> SUFFICES ASSUME GpuDoneFd PROVE SameSockets
      OBVIOUS
    <2>1. work # <<>> /\ ( \/ Close({} \cup {gpuDoneFd})
                           \/ Close({Head(work).fd} \cup {gpuDoneFd})
                           \/ Close({Head(work).fd}) )
      BY DEF GpuDoneFd, NextWork, lorieSetGpuDoneFd
    <2>2. /\ {} \cup {gpuDoneFd} \in SUBSET MaybeDescriptor
          /\ {Head(work).fd} \cup {gpuDoneFd} \in SUBSET MaybeDescriptor
          /\ {Head(work).fd} \in SUBSET MaybeDescriptor
      BY <1>h, <1>t, <2>1
    <2> QED  BY <1>1, <2>1, <2>2
  <1>10. GpuDoneError \/ Reset \/ ResetConnection => SameSockets
    <2> SUFFICES ASSUME GpuDoneError \/ Reset \/ ResetConnection PROVE SameSockets
      OBVIOUS
    <2>1. \/ Close({} \cup {gpuDoneFd}) \/ Close(dataFds \cup {gpuDoneFd})
          \/ UNCHANGED <<closed, closedTwice>>
      BY DEF GpuDoneError, Reset, ResetConnection, lorieSetGpuDoneFd
    <2>2. /\ {} \cup {gpuDoneFd} \in SUBSET MaybeDescriptor
          /\ dataFds \cup {gpuDoneFd} \in SUBSET MaybeDescriptor
      BY <1>t DEF MaybeDescriptor
    <2> QED  BY <1>1, <1>3, <2>1, <2>2
  <1>11. ASSUME \/ \E c \in Connections : lorieServerConnect(c) \/ PeerCloses(c)
                \/ \E c \in Connections, m \in Messages : PeerSends(c, m)
                \/ ReceivePart \/ Receive \/ OutputCommand \/ ForgetConnection \/ AdvanceGeneration
                \/ BeginConnect \/ TestConnFd \/ ReadArgument \/ Unregister \/ Register \/ StoreConnFd
         PROVE  SameSockets
    <2>1. UNCHANGED <<closed, closedTwice>>
      BY <1>11 DEF lorieServerConnect, PeerCloses, PeerSends, ReceivePart, Receive, OutputCommand,
        ForgetConnection, AdvanceGeneration, BeginConnect, TestConnFd, ReadArgument, Unregister,
        Register, StoreConnFd, hostVars
    <2> QED  BY <1>3, <2>1
  <1>12. ASSUME \/ \E c \in Connections : lorieServerConnect(c) \/ PeerCloses(c)
                \/ \E c \in Connections, m \in Messages : PeerSends(c, m)
                \/ ReceivePart \/ Receive \/ OutputCommand \/ DataCommand \/ GpuDoneFd \/ Reset
                \/ \E d \in Descriptors : DataDone(d)
                \/ GpuDoneError
         PROVE  UNCHANGED <<registered, handler, conn_fd, server, early>>
    BY <1>12 DEF lorieServerConnect, PeerCloses, PeerSends, ReceivePart, Receive, OutputCommand,
      DataCommand, GpuDoneFd, Reset, DataDone, GpuDoneError, hostVars, inputVars, serverVars
  <1> QED
    BY <1>4, <1>5, <1>6, <1>7, <1>8, <1>9, <1>10, <1>11, <1>12 DEF Next, InputThread, ServerThread

\* The steps of the threads on the sockets, field by field.
LEMMA SocketSteps ==
    ASSUME ServerInv
    PROVE  /\ ReceiveError \/ ReceiveFails =>
                 /\ handler = "idle" /\ registered \in Connections
                 /\ handler' = "forget" /\ registered' = None /\ headerOf' = None
                 /\ early' = IF server.step = "store" THEN early \cup {registered} ELSE early
                 /\ UNCHANGED <<conn_fd, server, pair, dataConnection, work, leases, dataFds, gpuDoneFd>>
           /\ ForgetConnection =>
                 /\ handler = "forget" /\ handler' = "advance" /\ conn_fd' = None
                 /\ UNCHANGED <<registered, server, early, pair, headerOf, dataConnection, work, leases,
                                dataFds, gpuDoneFd>>
           /\ AdvanceGeneration =>
                 /\ handler = "advance" /\ handler' = "idle" /\ dataConnection' = dataConnection + 1
                 /\ UNCHANGED <<registered, conn_fd, server, early, pair, headerOf, leases, dataFds, gpuDoneFd>>
           /\ BeginConnect =>
                 /\ server.step = "idle" /\ work # <<>> /\ Head(work).type = "connect"
                 /\ server'.step = "test" /\ server'.new = Head(work).from /\ work' = Tail(work)
                 /\ pair' = [pair EXCEPT ![Head(work).from] = "served"]
                 /\ UNCHANGED <<registered, handler, conn_fd, early, headerOf, dataConnection, leases,
                                dataFds, gpuDoneFd>>
           /\ TestConnFd =>
                 /\ server.step = "test"
                 /\ server'.step = IF conn_fd # None THEN "argument" ELSE "reset"
                 /\ server'.new = server.new
                 /\ UNCHANGED <<registered, handler, conn_fd, early, pair, headerOf, dataConnection, work,
                                leases, dataFds, gpuDoneFd>>
           /\ ReadArgument =>
                 /\ server.step = "argument" /\ server'.step = "unregister"
                 /\ server'.argument = conn_fd /\ server'.new = server.new
                 /\ UNCHANGED <<registered, handler, conn_fd, early, pair, headerOf, dataConnection, work,
                                leases, dataFds, gpuDoneFd>>
           /\ Unregister =>
                 /\ server.step = "unregister" /\ handler = "idle" /\ server'.step = "close"
                 /\ registered' = IF registered = server.argument THEN None ELSE registered
                 /\ server'.argument = server.argument /\ server'.new = server.new
                 /\ UNCHANGED <<handler, conn_fd, early, pair, headerOf, dataConnection, work, leases,
                                dataFds, gpuDoneFd>>
           /\ CloseOld =>
                 /\ server.step = "close" /\ server'.step = "reset" /\ server'.new = server.new
                 /\ UNCHANGED <<registered, handler, conn_fd, early, pair, headerOf, dataConnection, work,
                                leases, dataFds, gpuDoneFd>>
           /\ ResetConnection =>
                 /\ server.step = "reset" /\ server'.step = "register" /\ server'.new = server.new
                 /\ dataConnection' = dataConnection + 1 /\ headerOf' = None
                 /\ leases' = {} /\ dataFds' = {} /\ gpuDoneFd' = None
                 /\ UNCHANGED <<registered, handler, conn_fd, early, pair, work>>
           /\ Register =>
                 /\ server.step = "register" /\ handler = "idle" /\ server'.step = "store"
                 /\ registered' = server.new /\ server'.new = server.new
                 /\ UNCHANGED <<handler, conn_fd, early, pair, headerOf, dataConnection, work, leases,
                                dataFds, gpuDoneFd>>
           /\ StoreConnFd =>
                 /\ server.step = "store" /\ server'.step = "idle" /\ conn_fd' = server.new
                 /\ UNCHANGED <<registered, handler, early, pair, headerOf, dataConnection, work, leases,
                                dataFds, gpuDoneFd>>
  <1>1. server \in [step : ServerSteps, new : MaybeConnection, argument : MaybeConnection]
        /\ registered \in MaybeConnection
    BY DEF ServerInv, TypeOK
  <1>2. \A x : LET t == [server EXCEPT !.step = x]
               IN  t.step = x /\ t.new = server.new /\ t.argument = server.argument
    BY <1>1
  <1>3. \A x, y : LET t == [server EXCEPT !.step = x, !.argument = y]
                  IN  t.step = x /\ t.new = server.new /\ t.argument = y
    BY <1>1
  <1> USE DEF At, Goto, inputVars, connectVars
  <1>4. ReceiveError \/ ReceiveFails =>
                 /\ handler = "idle" /\ registered \in Connections
                 /\ handler' = "forget" /\ registered' = None /\ headerOf' = None
                 /\ early' = IF server.step = "store" THEN early \cup {registered} ELSE early
                 /\ UNCHANGED <<conn_fd, server, pair, dataConnection, work, leases, dataFds, gpuDoneFd>>
    BY <1>1 DEF ReceiveError, ReceiveFails, Fail, Listening, MaybeConnection
  <1>5. ForgetConnection \/ AdvanceGeneration =>
           UNCHANGED <<registered, server, early, pair, headerOf, leases, dataFds, gpuDoneFd>>
    BY DEF ForgetConnection, AdvanceGeneration
  <1>6. BeginConnect => server'.step = "test" /\ server'.new = Head(work).from
    BY DEF BeginConnect
  <1>7. TestConnFd => /\ server'.step = IF conn_fd # None THEN "argument" ELSE "reset"
                      /\ server'.new = server.new
    BY <1>2 DEF TestConnFd
  <1>8. ReadArgument => /\ server'.step = "unregister"
                        /\ server'.argument = conn_fd /\ server'.new = server.new
    BY <1>3 DEF ReadArgument
  <1>9. Unregister => server'.step = "close" /\ server'.argument = server.argument /\ server'.new = server.new
    BY <1>2 DEF Unregister
  <1>10. CloseOld => server'.step = "reset" /\ server'.new = server.new
    BY <1>2 DEF CloseOld
  <1>11. ResetConnection => server'.step = "register" /\ server'.new = server.new /\ gpuDoneFd' = None
    BY <1>2 DEF ResetConnection, lorieSetGpuDoneFd
  <1>12. Register => server'.step = "store" /\ server'.new = server.new
    BY <1>2 DEF Register
  <1>13. StoreConnFd => server'.step = "idle"
    BY DEF StoreConnFd, Idle
  <1> QED
    BY <1>4, <1>5, <1>6, <1>7, <1>8, <1>9, <1>10, <1>11, <1>12, <1>13 DEF ForgetConnection,
      AdvanceGeneration, BeginConnect, TestConnFd, ReadArgument, Unregister, CloseOld,
      ResetConnection, Register, StoreConnFd, NextWork

\* A connection is queued, installed, registered and stored in this order.
LEMMA ComeOnceStep ==
    ASSUME ServerInv, Next
    PROVE  ConnectionsComeOnce'
  <1>i. ConnectionsComeOnce
    BY DEF ServerInv
  <1>t. /\ work \in Seq(Work) /\ pair \in [Connections -> {"unused", "queued", "served"}]
        /\ registered \in MaybeConnection /\ conn_fd \in MaybeConnection
    BY DEF ServerInv, TypeOK
  <1>s. \A c \in Connections : pair[c] = "served" => pair'[c] = "served"
    BY <1>t DEF Next, InputThread, ServerThread, lorieServerConnect, PeerCloses, PeerSends, ReceivePart,
      Receive, ReceiveError, ReceiveFails, ForgetConnection, AdvanceGeneration, OutputCommand,
      DataCommand, GpuDoneFd, Reset, BeginConnect, TestConnFd, ReadArgument, Unregister, CloseOld,
      ResetConnection, Register, StoreConnFd, DataDone, GpuDoneError, inputVars, serverVars, connectVars
  <1>p. \/ \E c \in Connections : lorieServerConnect(c)
        \/ BeginConnect
        \/ pair' = pair /\ server' = server
        \/ /\ pair' = pair
           /\ server.step # "idle" /\ (server'.new = server.new \/ server'.step = "idle")
    <2>1. \/ \E c \in Connections : lorieServerConnect(c)
          \/ BeginConnect \/ TestConnFd \/ ReadArgument \/ Unregister \/ CloseOld \/ ResetConnection
          \/ Register \/ StoreConnFd
          \/ pair' = pair /\ server' = server
      BY DEF Next, InputThread, ServerThread, PeerCloses, PeerSends, ReceivePart,
        Receive, ReceiveError, ReceiveFails, ForgetConnection, AdvanceGeneration, OutputCommand,
        DataCommand, GpuDoneFd, Reset, DataDone, GpuDoneError, hostVars, inputVars, serverVars
    <2> QED  BY <2>1, SocketSteps
  <1> DEFINE ComeOnce ==
                /\ \A k \in DOMAIN work' : work'[k].type = "connect" => pair'[work'[k].from] = "queued"
                /\ \A j, k \in DOMAIN work' :
                      work'[j].type = "connect" /\ work'[k].type = "connect" /\ work'[j].from = work'[k].from
                         => j = k
  <1>1. ComeOnce
    <2>1. ASSUME NEW c \in Connections, lorieServerConnect(c)
          PROVE  ComeOnce
      <3> DEFINE item == Item("connect", None, c)
      <3>1. item \in Work /\ item.type = "connect" /\ item.from = c
        BY ItemFacts DEF MaybeConnection, MaybeDescriptor
      <3>2. /\ work' = Append(work, item) /\ pair[c] = "unused"
            /\ pair'[c] = "queued" /\ \A e \in Connections : e # c => pair'[e] = pair[e]
        BY <1>t, <2>1 DEF lorieServerConnect
      <3> HIDE DEF item
      <3>3. \A k \in DOMAIN work : work[k].type = "connect" =>
                 work[k].from \in Connections /\ pair[work[k].from] = "queued" /\ work[k].from # c
        BY <1>i, <3>2 DEF ConnectionsComeOnce, ServerInv, WorkIsFormed
      <3>4. \A k \in DOMAIN work' : \/ k \in DOMAIN work /\ work'[k] = work[k]
                                    \/ k = Len(work) + 1 /\ work'[k] = item
        BY <1>t, <3>1, <3>2, AppendFacts
      <3> QED  BY <1>i, <3>1, <3>2, <3>3, <3>4 DEF ConnectionsComeOnce
    <2>2. ASSUME NEW item \in Work, work' = Append(work, item), item.type # "connect", pair' = pair
          PROVE  ComeOnce
      <3>1. \A k \in DOMAIN work' : \/ k \in DOMAIN work /\ work'[k] = work[k]
                                    \/ work'[k] = item
        BY <1>t, <2>2, AppendFacts
      <3> QED  BY <1>i, <2>2, <3>1 DEF ConnectionsComeOnce
    <2>3. ASSUME work # <<>>, work' = Tail(work), pair' = pair \/ BeginConnect
          PROVE  ComeOnce
      <3>1. /\ \A k \in DOMAIN work' : k \in Nat /\ k >= 1 /\ k + 1 \in DOMAIN work /\ work'[k] = work[k + 1]
            /\ 1 \in DOMAIN work /\ Head(work) = work[1]
        BY <1>t, <2>3, TailFacts
      <3>2. \A k \in DOMAIN work' : work'[k].type = "connect" =>
                 /\ pair[work'[k].from] = "queued" /\ work'[k].from \in Connections
                 /\ Head(work).type = "connect" => work'[k].from # Head(work).from
        <4> SUFFICES ASSUME NEW k \in DOMAIN work', work'[k].type = "connect"
                     PROVE  /\ pair[work'[k].from] = "queued" /\ work'[k].from \in Connections
                            /\ Head(work).type = "connect" => work'[k].from # Head(work).from
          OBVIOUS
        <4>1. k + 1 \in DOMAIN work /\ work'[k] = work[k + 1] /\ k + 1 # 1
          BY <3>1
        <4> QED  BY <1>i, <3>1, <4>1 DEF ConnectionsComeOnce, ServerInv, WorkIsFormed
      <3>3. \A k \in DOMAIN work' : work'[k].type = "connect" => pair'[work'[k].from] = "queued"
        BY <1>t, <2>3, <3>2 DEF BeginConnect, NextWork
      <3>4. ASSUME NEW j \in DOMAIN work', NEW k \in DOMAIN work',
                   work'[j].type = "connect", work'[k].type = "connect", work'[j].from = work'[k].from
            PROVE  j = k
        <4>1. j + 1 = k + 1
          BY <1>i, <3>1, <3>4 DEF ConnectionsComeOnce
        <4> QED  BY <3>1, <4>1
      <3> QED  BY <3>3, <3>4
    <2>4. CASE work' = work /\ pair' = pair
      BY <1>i, <2>4 DEF ConnectionsComeOnce
    <2>5. ASSUME Receive, inbox[registered] # <<>>, registered \in Connections
          PROVE  Item(Head(inbox[registered]).type, Head(inbox[registered]).fd, registered).type # "connect"
      BY <2>5, InboxFacts, ItemFacts DEF Commands, MaybeConnection
    <2>6. (Receive \/ AdvanceGeneration => pair' = pair) /\ (BeginConnect => work # <<>> /\ work' = Tail(work))
      BY DEF Receive, AdvanceGeneration, inputVars, BeginConnect, NextWork
    <2> HIDE DEF ComeOnce
    <2> QED  BY <1>p, <2>1, <2>2, <2>3, <2>4, <2>5, <2>6, WorkFrame
  <1>2. server'.step # "idle" => server'.new \in Connections /\ pair'[server'.new] = "served"
    <2>1. CASE BeginConnect
      <3>1. Head(work).from \in Connections /\ server'.new = Head(work).from
            /\ pair' = [pair EXCEPT ![Head(work).from] = "served"]
        BY <2>1, SocketSteps, HeadFacts
      <3> QED  BY <1>t, <3>1
    <2>2. (\E c \in Connections : lorieServerConnect(c)) => server' = server
      BY DEF lorieServerConnect, hostVars
    <2> QED  BY <1>i, <1>p, <1>s, <2>1, <2>2 DEF ConnectionsComeOnce, Installing
  <1>3. ASSUME NEW c \in Connections, c \in closed' \cup {conn_fd', registered'}
        PROVE  pair'[c] = "served"
    <2>1. c \in closed \cup {conn_fd, registered} \/ (server.step # "idle" /\ c = server.new)
      <3>1. c # None
        BY ConnectionAssumption
      <3> QED  BY <1>3, <3>1, SocketFrame, SocketSteps DEF SameSockets, ClosesSocket
    <2> QED  BY <1>i, <1>s, <2>1 DEF ConnectionsComeOnce, Installing
  <1> QED  BY <1>1, <1>2, <1>3 DEF ConnectionsComeOnce, Installing

\* One socket is listened to, and it is conn_fd's or about to be.
LEMMA InstalledStep ==
    ASSUME ServerInv, Next
    PROVE  SocketsAreInstalled'
  <1>i. SocketsAreInstalled /\ ConnectionsComeOnce
    BY DEF ServerInv
  <1>t. /\ registered \in MaybeConnection /\ conn_fd \in MaybeConnection
        /\ None \notin Connections /\ None \notin closed
    BY ConnectionAssumption DEF ServerInv, TypeOK
  <1>n. Installing => server.new \in Connections
    BY <1>i DEF ConnectionsComeOnce
  <1> USE DEF SocketsAreInstalled, Installing
  <1>1. CASE UNCHANGED <<registered, handler, conn_fd, server, early>> /\ SameSockets
    BY <1>1, <1>i, <1>t, <1>n DEF SameSockets, MaybeConnection
  <1>2. CASE (ReceiveError \/ ReceiveFails) /\ ClosesSocket(registered)
    <2>1. /\ handler = "idle" /\ registered \in Connections
          /\ handler' = "forget" /\ registered' = None
          /\ early' = IF server.step = "store" THEN early \cup {registered} ELSE early
          /\ UNCHANGED <<conn_fd, server>>
      BY <1>2, SocketSteps
    <2> QED  BY <1>2, <1>i, <1>t, <1>n, <2>1 DEF ClosesSocket
  <1>3. CASE CloseOld /\ ClosesSocket(conn_fd)
    <2>1. /\ server.step = "close" /\ server'.step = "reset" /\ server'.new = server.new
          /\ UNCHANGED <<registered, handler, conn_fd, early>>
      BY <1>3, SocketSteps
    <2> QED  BY <1>3, <1>i, <1>t, <1>n, <2>1 DEF ClosesSocket
  <1>4. CASE ForgetConnection /\ SameSockets
    <2>1. /\ handler = "forget" /\ handler' = "advance" /\ conn_fd' = None
          /\ UNCHANGED <<registered, server, early>>
      BY <1>4, SocketSteps
    <2> QED  BY <1>4, <1>i, <1>t, <1>n, <2>1 DEF SameSockets
  <1>5. CASE AdvanceGeneration /\ SameSockets
    <2>1. /\ handler = "advance" /\ handler' = "idle"
          /\ UNCHANGED <<registered, conn_fd, server, early>>
      BY <1>5, SocketSteps
    <2> QED  BY <1>5, <1>i, <1>t, <1>n, <2>1 DEF SameSockets
  <1>6. CASE BeginConnect /\ SameSockets
    <2>1. /\ server.step = "idle" /\ server'.step = "test" /\ server'.new = Head(work).from
          /\ Head(work).from \in Connections /\ pair[Head(work).from] = "queued"
          /\ UNCHANGED <<registered, handler, conn_fd, early>>
      BY <1>6, <1>i, SocketSteps, HeadFacts DEF ConnectionsComeOnce
    <2>2. server'.new # conn_fd /\ server'.new \notin closed
      BY <1>i, <2>1 DEF ConnectionsComeOnce
    <2> QED  BY <1>6, <1>i, <1>t, <2>1, <2>2 DEF SameSockets, MaybeConnection
  <1>7. CASE TestConnFd /\ SameSockets
    <2>1. /\ server.step = "test" /\ server'.new = server.new
          /\ server'.step = IF conn_fd # None THEN "argument" ELSE "reset"
          /\ UNCHANGED <<registered, handler, conn_fd, early>>
      BY <1>7, SocketSteps
    <2> QED  BY <1>7, <1>i, <1>t, <1>n, <2>1 DEF SameSockets, MaybeConnection
  <1>8. CASE ReadArgument /\ SameSockets
    <2>1. /\ server.step = "argument" /\ server'.step = "unregister"
          /\ server'.argument = conn_fd /\ server'.new = server.new
          /\ UNCHANGED <<registered, handler, conn_fd, early>>
      BY <1>8, SocketSteps
    <2> QED  BY <1>8, <1>i, <1>t, <1>n, <2>1 DEF SameSockets, MaybeConnection
  <1>9. CASE Unregister /\ SameSockets
    <2>1. /\ server.step = "unregister" /\ handler = "idle" /\ server'.step = "close"
          /\ registered' = IF registered = server.argument THEN None ELSE registered
          /\ server'.argument = server.argument /\ server'.new = server.new
          /\ UNCHANGED <<handler, conn_fd, early>>
      BY <1>9, SocketSteps
    <2> QED  BY <1>9, <1>i, <1>t, <1>n, <2>1 DEF SameSockets, MaybeConnection
  <1>10. CASE ResetConnection /\ SameSockets
    <2>1. /\ server.step = "reset" /\ server'.step = "register" /\ server'.new = server.new
          /\ UNCHANGED <<registered, handler, conn_fd, early>>
      BY <1>10, SocketSteps
    <2> QED  BY <1>10, <1>i, <1>t, <1>n, <2>1 DEF SameSockets, MaybeConnection
  <1>11. CASE Register /\ SameSockets
    <2>1. /\ server.step = "register" /\ handler = "idle" /\ server'.step = "store"
          /\ registered' = server.new /\ server'.new = server.new
          /\ UNCHANGED <<handler, conn_fd, early>>
      BY <1>11, SocketSteps
    <2> QED  BY <1>11, <1>i, <1>t, <1>n, <2>1 DEF SameSockets, MaybeConnection
  <1>12. CASE StoreConnFd /\ SameSockets
    <2>1. /\ server.step = "store" /\ server'.step = "idle" /\ conn_fd' = server.new
          /\ UNCHANGED <<registered, handler, early>>
      BY <1>12, SocketSteps
    <2> QED  BY <1>12, <1>i, <1>t, <1>n, <2>1 DEF SameSockets, MaybeConnection
  <1> QED
    BY <1>1, <1>2, <1>3, <1>4, <1>5, <1>6, <1>7, <1>8, <1>9, <1>10, <1>11, <1>12, SocketFrame

\* A socket is closed once, and conn_fd does not keep a closed one.
LEMMA ClosedOnceStep ==
    ASSUME ServerInv, Next
    PROVE  SocketsAreClosedOnce'
  <1>i. SocketsAreClosedOnce /\ SocketsAreInstalled /\ ConnectionsComeOnce
    BY DEF ServerInv
  <1>t. /\ conn_fd \in MaybeConnection /\ registered \in MaybeConnection
        /\ conn_fd' \in MaybeConnection
        /\ None \notin Connections /\ None \notin closed'
    BY TypesStep, ConnectionAssumption DEF ServerInv, TypeOK
  <1>1. /\ \A c \in Connections : c \in closedTwice => c \in early
        /\ conn_fd \in closed => conn_fd \in early \/ handler = "forget"
                                    \/ server.step \in {"reset", "register", "store"}
        /\ Installing /\ server.new \in closed => server.new \in early
    BY <1>i DEF SocketsAreClosedOnce, SocketsAreInstalled
  <1>2. early \subseteq early'
    BY SocketFrame, SocketSteps
  <1>3. ASSUME NEW c \in Connections, c \in closedTwice' PROVE c \in early'
    <2>1. (ReceiveError \/ ReceiveFails) => registered \notin closed
      BY <1>i, SocketSteps, ConnectionAssumption DEF SocketsAreInstalled
    <2>2. CloseOld /\ conn_fd \in closed => conn_fd \in early
      BY <1>1, <1>i, SocketSteps DEF SocketsAreInstalled
    <2>3. c \in closedTwice \/ c \in early
      BY <1>3, <2>1, <2>2, SocketFrame DEF SameSockets, ClosesSocket
    <2> QED  BY <1>1, <1>2, <2>3
  <1>4. conn_fd' \in closed' => conn_fd' \in early' \/ handler' = "forget"
                                   \/ server'.step \in {"reset", "register", "store"}
    <2> SUFFICES ASSUME conn_fd' \in closed'
                 PROVE  conn_fd' \in early' \/ handler' = "forget"
                           \/ server'.step \in {"reset", "register", "store"}
      OBVIOUS
    <2>0. conn_fd' \in Connections
      BY <1>t DEF MaybeConnection
    <2>1. CASE ReceiveError \/ ReceiveFails
      BY <2>1, SocketSteps
    <2>2. CASE CloseOld
      BY <2>2, SocketSteps
    <2>3. CASE SameSockets
      <3>1. conn_fd' \in closed
        BY <2>0, <2>3 DEF SameSockets
      <3>2. CASE StoreConnFd
        BY <1>1, <1>2, <3>1, <3>2, SocketSteps DEF Installing
      <3>3. CASE ForgetConnection
        BY <1>t, <3>3, SocketSteps
      <3>4. CASE ~StoreConnFd /\ ~ForgetConnection
        <4>1. /\ conn_fd' = conn_fd
              /\ handler = "forget" => handler' = "forget"
              /\ server.step \in {"reset", "register", "store"} =>
                    server'.step \in {"reset", "register", "store"}
          BY <3>4, SocketFrame, SocketSteps
        <4> QED  BY <1>1, <1>2, <3>1, <4>1
      <3> QED  BY <3>2, <3>3, <3>4
    <2> QED  BY <2>1, <2>2, <2>3, SocketFrame
  <1> QED  BY <1>3, <1>4 DEF SocketsAreClosedOnce

\* Half a header is continued from its own socket or thrown away.
LEMMA HeadersStep ==
    ASSUME ServerInv, Next
    PROVE  HeadersAreWhole'
  <1>i. HeadersAreWhole /\ SocketsAreInstalled
    BY DEF ServerInv
  <1>t. server.step = "register" => registered = None
    BY <1>i DEF SocketsAreInstalled
  <1>1. \/ headerOf' = headerOf
        \/ headerOf' = None
        \/ ReceivePart /\ headerOf' = registered
    BY DEF Next, InputThread, ServerThread, lorieServerConnect, PeerCloses, PeerSends, ReceivePart,
      Receive, ReceiveError, ReceiveFails, Fail, ForgetConnection, AdvanceGeneration, OutputCommand,
      DataCommand, GpuDoneFd, Reset, BeginConnect, TestConnFd, ReadArgument, Unregister, CloseOld,
      ResetConnection, Register, StoreConnFd, DataDone, GpuDoneError, hostVars, serverVars
  <1>2. ReceivePart => registered' = registered
    BY DEF ReceivePart
  <1>3. ASSUME headerOf' = headerOf, headerOf # None
        PROVE  headerOf' = registered' \/ server'.step \in {"close", "reset"}
    BY <1>3, <1>i, <1>t, SocketFrame, SocketSteps DEF HeadersAreWhole
  <1> QED  BY <1>1, <1>2, <1>3 DEF HeadersAreWhole

-----------------------------------------------------------------------------
\* Generations.

\* The generation advances when a connection fails or is replaced.
LEMMA GenerationFrame ==
    ASSUME ServerInv, Next
    PROVE  \/ AdvanceGeneration
           \/ ResetConnection
           \/ ~AdvanceGeneration /\ ~ResetConnection /\ dataConnection' = dataConnection
  BY DEF Next, InputThread, ServerThread, lorieServerConnect, PeerCloses, PeerSends, ReceivePart,
    Receive, ReceiveError, ReceiveFails, ForgetConnection, OutputCommand, DataCommand, GpuDoneFd,
    Reset, BeginConnect, TestConnFd, ReadArgument, Unregister, CloseOld, Register, StoreConnFd,
    DataDone, GpuDoneError, hostVars

\* What is held changes between replacements, or is given up by one.
LEMMA HeldFrame ==
    ASSUME ServerInv, Next
    PROVE  /\ \/ UNCHANGED <<leases, dataFds, gpuDoneFd>>
              \/ ResetConnection
              \/ server.step = "idle" /\ UNCHANGED <<server, registered, handler, sentOn, dataConnection>>
           /\ leases' = leases \/ ResetConnection \/ OutputCommand
  BY DEF Next, InputThread, ServerThread, lorieServerConnect, PeerCloses, PeerSends, ReceivePart,
    Receive, ReceiveError, ReceiveFails, ForgetConnection, AdvanceGeneration, OutputCommand,
    DataCommand, GpuDoneFd, Reset, BeginConnect, TestConnFd, ReadArgument, Unregister, CloseOld,
    Register, StoreConnFd, DataDone, GpuDoneError, hostVars, inputVars, serverVars, connectVars, NextWork

\* Queued commands are of the connection and of the generation they were read in.
LEMMA GenerationsStep ==
    ASSUME ServerInv, Next
    PROVE  GenerationsMatch'
  <1>i. GenerationsMatch /\ SocketsAreInstalled /\ WorkIsFormed
    BY DEF ServerInv
  <1>t. /\ work \in Seq(Work) /\ dataConnection \in Nat /\ None \notin Connections
        /\ registered \in MaybeConnection
    BY ConnectionAssumption DEF ServerInv, TypeOK
  <1> DEFINE Heard(c) == registered = c \/ handler # "idle" \/ server.step \in {"close", "reset"}
             Heard2(c) == registered' = c \/ handler' # "idle" \/ server'.step \in {"close", "reset"}
             Matches(w) == /\ w.generation <= dataConnection
                           /\ w.type \in Commands /\ w.generation = dataConnection => Heard(w.from)
             Matches2(w) == /\ w.generation <= dataConnection'
                            /\ w.type \in Commands /\ w.generation = dataConnection' => Heard2(w.from)
  <1>1. ASSUME NEW c \in Connections, Heard(c), dataConnection' = dataConnection PROVE Heard2(c)
    <2>1. ~AdvanceGeneration /\ ~ResetConnection
      BY <1>1, <1>t, SocketSteps
    <2>2. ~Register \/ ~Heard(c)
      BY <1>i, <1>t, SocketSteps DEF SocketsAreInstalled
    <2> QED  BY <1>1, <2>1, <2>2, SocketFrame, SocketSteps
  <1>2. ASSUME NEW k \in DOMAIN work PROVE Matches2(work[k])
    <2>0. work[k] \in Work
      BY <1>t
    <2>1. work[k].generation \in Nat
      BY <2>0 DEF Work
    <2>2. Matches(work[k]) /\ (work[k].type \in Commands => work[k].from \in Connections)
      BY <1>i DEF GenerationsMatch, WorkIsFormed
    <2>3. CASE dataConnection' = dataConnection
      BY <1>1, <2>2, <2>3
    <2>4. CASE dataConnection' = dataConnection + 1
      BY <1>t, <2>1, <2>2, <2>4
    <2> QED  BY <2>3, <2>4, GenerationFrame, SocketSteps
  <1>3. ASSUME NEW k \in DOMAIN work' PROVE Matches2(work'[k])
    <2>1. ASSUME NEW item \in Work, work' = Append(work, item), Matches2(item) PROVE Matches2(work'[k])
      <3> HIDE DEF Matches2
      <3> QED  BY <1>2, <1>t, <2>1, AppendFacts
    <2>2. ASSUME work # <<>>, work' = Tail(work) PROVE Matches2(work'[k])
      <3> HIDE DEF Matches2
      <3> QED  BY <1>2, <1>t, <2>2, TailFacts
    <2>3. CASE work' = work
      <3> HIDE DEF Matches2
      <3> QED  BY <1>2, <2>3
    <2>4. ASSUME NEW c \in Connections, lorieServerConnect(c) PROVE Matches2(Item("connect", None, c))
      <3>1. dataConnection' = dataConnection
        BY <2>4 DEF lorieServerConnect, hostVars
      <3>2. Item("connect", None, c).type = "connect" /\ Item("connect", None, c).generation = dataConnection
        BY ItemFacts DEF MaybeConnection, MaybeDescriptor
      <3> QED  BY <1>t, <3>1, <3>2 DEF Commands
    <2>5. ASSUME Receive, inbox[registered] # <<>>, registered \in Connections
          PROVE  Matches2(Item(Head(inbox[registered]).type, Head(inbox[registered]).fd, registered))
      <3> DEFINE h == Head(inbox[registered])
      <3>1. h.type \in Commands /\ h.fd \in MaybeDescriptor
        BY <2>5, InboxFacts
      <3>2. dataConnection' = dataConnection /\ registered' = registered
        BY <2>5 DEF Receive
      <3> HIDE DEF h
      <3>3. /\ Item(h.type, h.fd, registered).from = registered
            /\ Item(h.type, h.fd, registered).generation = dataConnection
        BY <2>5, <3>1, ItemFacts DEF Commands, MaybeConnection
      <3>4. Matches2(Item(h.type, h.fd, registered))
        BY <1>t, <3>2, <3>3
      <3> QED  BY <3>4 DEF h
    <2>6. ASSUME AdvanceGeneration, NEW item \in Work, item.type = "reset",
                 item.generation = dataConnection + 1
          PROVE  Matches2(item)
      BY <1>t, <2>6, SocketSteps DEF Commands
    <2> HIDE DEF Matches2
    <2> QED  BY <2>1, <2>2, <2>3, <2>4, <2>5, <2>6, WorkFrame
  <1>4. server'.step \in {"register", "store"} => leases' = {} /\ dataFds' = {} /\ gpuDoneFd' = None
    <2>1. server'.step \in {"register", "store"} => ResetConnection \/ server.step \in {"register", "store"}
      BY SocketFrame, SocketSteps
    <2> QED  BY <1>i, <2>1, HeldFrame, SocketSteps DEF GenerationsMatch
  <1>5. ASSUME NEW l \in leases', l[2] PROVE registered' \in {l[1], None}
    <2>1. CASE l \in leases
      <3>1. registered \in {l[1], None}
        BY <1>5, <1>i, <2>1 DEF GenerationsMatch
      <3>2. ~Register
        BY <1>i, <2>1, SocketSteps DEF GenerationsMatch
      <3> QED  BY <3>1, <3>2, SocketFrame, SocketSteps
    <2>2. CASE l \notin leases
      <3>1. OutputCommand
        BY <1>5, <2>2, HeldFrame, SocketSteps
      <3>2. /\ work # <<>> /\ Head(work).type = "output" /\ registered' = registered
            /\ server.step = "idle"
            /\ l = <<Head(work).from, Current(Head(work))>>
        BY <1>5, <2>2, <3>1 DEF OutputCommand, NextWork, serverVars
      <3>3. l[1] = Head(work).from /\ Current(Head(work))
        BY <1>5, <3>2
      <3>4. Heard(Head(work).from)
        BY <1>i, <3>2, <3>3, HeadFacts DEF GenerationsMatch, Current, Commands
      <3> QED  BY <1>i, <3>2, <3>3, <3>4 DEF SocketsAreInstalled
    <2> QED  BY <2>1, <2>2
  <1> QED  BY <1>3, <1>4, <1>5 DEF GenerationsMatch

\* A reset that is on its way arrives.
LEMMA ResetStays ==
    ASSUME ServerInv, Next, ResetPending,
           ~ResetConnection, ~(Reset /\ Current(Head(work)))
    PROVE  ResetPending'
  <1>t. work \in Seq(Work) /\ dataConnection \in Nat
    BY DEF ServerInv, TypeOK
  <1>1. CASE AdvanceGeneration
    <2>1. PICK item \in Work : /\ work' = Append(work, item) /\ item.type = "reset"
                               /\ item.generation = dataConnection + 1
      BY <1>1, ResetFacts DEF AdvanceGeneration
    <2>2. Len(work) + 1 \in DOMAIN work' /\ work'[Len(work) + 1] = item
      BY <1>t, <2>1, AppendFacts
    <2> QED  BY <1>1, <2>1, <2>2, SocketSteps DEF ResetPending
  <1>2. CASE ~AdvanceGeneration /\ handler # "idle"
    <2>1. handler' # "idle"
      BY <1>2, SocketFrame, SocketSteps
    <2> QED  BY <2>1 DEF ResetPending
  <1>3. CASE server.step \in {"close", "reset"}
    <2>1. server'.step \in {"close", "reset"}
      BY <1>3, SocketFrame, SocketSteps
    <2> QED  BY <2>1 DEF ResetPending
  <1>4. ASSUME NEW k \in DOMAIN work, work[k].type = "reset", work[k].generation = dataConnection,
               ~AdvanceGeneration
        PROVE  ResetPending'
    <2>0. dataConnection' = dataConnection
      BY <1>4, GenerationFrame
    <2>1. ASSUME NEW item \in Work, work' = Append(work, item) PROVE ResetPending'
      <3>1. k \in DOMAIN work' /\ work'[k] = work[k]
        BY <1>t, <2>1, AppendFacts
      <3> QED  BY <1>4, <2>0, <3>1 DEF ResetPending
    <2>2. ASSUME work # <<>>, work' = Tail(work), Head(work).type = "reset" => Reset
          PROVE  ResetPending'
      <3>1. Head(work) = work[1] /\ (k = 1 \/ (k - 1 \in DOMAIN work' /\ work'[k - 1] = work[k]))
        BY <1>t, <2>2, TailFacts
      <3>2. k # 1
        BY <1>4, <2>2, <3>1 DEF Current
      <3> QED  BY <1>4, <2>0, <3>1, <3>2 DEF ResetPending
    <2>3. CASE work' = work
      BY <1>4, <2>0, <2>3 DEF ResetPending
    <2> QED  BY <2>1, <2>2, <2>3, WorkFrame
  <1> QED  BY <1>1, <1>2, <1>3, <1>4 DEF ResetPending

\* Descriptors in use are the listening connection's, or about to be closed.
LEMMA UsedStep ==
    ASSUME ServerInv, Next
    PROVE  UsedDescriptorsAreCurrent'
  <1>i. /\ UsedDescriptorsAreCurrent /\ GenerationsMatch /\ SocketsAreInstalled
        /\ DescriptorsHaveOnePlace
    BY DEF ServerInv
  <1>t. dataFds \in SUBSET Descriptors /\ gpuDoneFd \in MaybeDescriptor
    BY DEF ServerInv, TypeOK
  <1> SUFFICES ASSUME NEW d \in dataFds' \cup ({gpuDoneFd'} \ {None})
               PROVE  sentOn'[d] = registered' \/ ResetPending'
    BY DEF UsedDescriptorsAreCurrent
  <1>d. d # None
    BY ConnectionAssumption, TypesStep DEF TypeOK
  <1>1. ~ResetConnection
    BY SocketSteps
  <1>2. ~(Reset /\ Current(Head(work)))
    BY DEF Reset, lorieSetGpuDoneFd
  <1>3. ResetPending => ResetPending'
    BY <1>1, <1>2, ResetStays
  <1>4. CASE d \in dataFds \cup ({gpuDoneFd} \ {None})
    <2>1. d \in Descriptors /\ sentOn[d] # None
      <3>1. d \in Descriptors
        BY <1>4, <1>t DEF MaybeDescriptor
      <3> QED  BY <1>4, <1>i, <3>1 DEF DescriptorsHaveOnePlace, HasOnePlace, PlacesOf
    <2>2. sentOn'[d] = sentOn[d]
      BY <2>1, SentOnStays
    <2>3. CASE ResetPending
      BY <1>3, <2>3
    <2>4. CASE sentOn[d] = registered
      <3>1. CASE ReceiveError \/ ReceiveFails
        BY <3>1, SocketSteps DEF ResetPending
      <3>2. CASE Unregister
        BY <3>2, SocketSteps DEF ResetPending
      <3>3. ~Register
        BY <1>4, <1>i, SocketSteps DEF GenerationsMatch
      <3>4. CASE registered' = registered
        BY <2>2, <2>4, <3>4
      <3> QED  BY <3>1, <3>2, <3>3, <3>4, SocketFrame, SocketSteps
    <2> QED  BY <1>4, <1>i, <2>3, <2>4 DEF UsedDescriptorsAreCurrent
  <1>5. CASE d \notin dataFds \cup ({gpuDoneFd} \ {None})
    <2>1. /\ work # <<>> /\ server.step = "idle" /\ Head(work).type \in {"data", "gpu"}
          /\ Current(Head(work)) /\ d = Head(work).fd
          /\ UNCHANGED <<sentOn, registered, handler>>
      <3>1. DataCommand \/ GpuDoneFd
        BY <1>5, <1>d DEF Next, InputThread, ServerThread, lorieServerConnect, PeerCloses, PeerSends, ReceivePart,
          Receive, ReceiveError, ReceiveFails, ForgetConnection, AdvanceGeneration, OutputCommand,
          Reset, BeginConnect, TestConnFd, ReadArgument, Unregister, CloseOld, ResetConnection,
          Register, StoreConnFd, DataDone, GpuDoneError, hostVars, inputVars, serverVars,
          connectVars, lorieSetGpuDoneFd
      <3> QED  BY <1>5, <1>d, <3>1 DEF DataCommand, GpuDoneFd, NextWork, serverVars, lorieSetGpuDoneFd
    <2>2. sentOn[d] = Head(work).from
      BY <1>d, <2>1, HeadFacts
    <2>3. registered = Head(work).from \/ handler # "idle"
      BY <1>i, <2>1, HeadFacts DEF GenerationsMatch, Current, Commands
    <2> QED  BY <2>1, <2>2, <2>3 DEF ResetPending
  <1> QED  BY <1>4, <1>5

-----------------------------------------------------------------------------
\* The invariant and what follows from it.

\* The program starts without connections or descriptors.
LEMMA ServerInit ==
    ASSUME Init
    PROVE  ServerInv
  <1>e. DOMAIN <<>> = {}
    OBVIOUS
  <1>1. TypeOK
    <2>1. inbox \in [Connections -> Seq(Messages)] /\ work \in Seq(Work)
      BY DEF Init
    <2>2. server \in [step : ServerSteps, new : MaybeConnection, argument : MaybeConnection]
      BY DEF Init, Idle, ServerSteps, MaybeConnection
    <2> QED  BY <2>1, <2>2 DEF Init, TypeOK, MaybeConnection, MaybeDescriptor, HandlerSteps
  <1>2. (DOMAIN work = {}) /\ \A c \in Connections : DOMAIN inbox[c] = {}
    BY <1>e DEF Init
  <1>3. server.step = "idle"
    BY DEF Init, Idle
  <1>4. WorkIsFormed
    BY <1>2 DEF WorkIsFormed
  <1>5. DescriptorsHaveOnePlace
    <2> SUFFICES ASSUME NEW d \in Descriptors PROVE HasOnePlace(d)
      BY DEF DescriptorsHaveOnePlace
    <2>1. /\ d # None /\ sentOn[d] = None /\ gpuDoneFd = None /\ dataFds = {} /\ closed = {} /\ closedTwice = {}
      BY ConnectionAssumption DEF Init
    <2> QED  BY <1>2, <2>1 DEF HasOnePlace, PlacesOf, Carries, Once, InSocket
  <1>6. ConnectionsComeOnce
    BY <1>2, <1>3, ConnectionAssumption DEF ConnectionsComeOnce, Installing, Init
  <1>7. SocketsAreInstalled /\ SocketsAreClosedOnce /\ HeadersAreWhole
    BY <1>3 DEF SocketsAreInstalled, SocketsAreClosedOnce, HeadersAreWhole, Installing, Init
  <1>8. GenerationsMatch /\ UsedDescriptorsAreCurrent
    BY <1>2, <1>3 DEF GenerationsMatch, UsedDescriptorsAreCurrent, Init
  <1> QED  BY <1>1, <1>4, <1>5, <1>6, <1>7, <1>8 DEF ServerInv

\* Every step of the host, the peer and the two threads keeps the invariant.
LEMMA ServerStep ==
    ASSUME ServerInv, [Next]_vars
    PROVE  ServerInv'
  <1>1. CASE Next
    BY <1>1, TypesStep, FormedStep, PlacesStep, ComeOnceStep, InstalledStep, ClosedOnceStep,
      GenerationsStep, UsedStep, HeadersStep DEF ServerInv
  <1>2. CASE UNCHANGED vars
    BY <1>2 DEF vars, ServerInv, TypeOK, WorkIsFormed, DescriptorsHaveOnePlace, HasOnePlace, PlacesOf,
      InSocket, ConnectionsComeOnce, Installing, SocketsAreInstalled, SocketsAreClosedOnce,
      GenerationsMatch, UsedDescriptorsAreCurrent, ResetPending, HeadersAreWhole
  <1> QED  BY <1>1, <1>2

\* The invariant holds in every reachable state, for any number of connections
\* and descriptors and any bounds.
THEOREM ServerInvariant == Spec => []ServerInv
  BY ServerInit, ServerStep, PTL DEF Spec

\* Five places, of which the descriptor is in one, count to one.
LEMMA OnePlaceCounts ==
    ASSUME ServerInv
    PROVE  DescriptorsAreOwnedOnce
  <1> SUFFICES ASSUME NEW d \in Descriptors, sentOn[d] # None
               PROVE  /\ d \notin closedTwice
                      /\ Cardinality(Queued(d)) + Cardinality(Unread(d))
                           + (IF gpuDoneFd = d THEN 1 ELSE 0)
                           + (IF d \in dataFds THEN 1 ELSE 0)
                           + (IF d \in closed THEN 1 ELSE 0) = 1
    BY DEF DescriptorsAreOwnedOnce
  <1>0. HasOnePlace(d)
    BY DEF ServerInv, DescriptorsHaveOnePlace
  <1>1. Cardinality(Queued(d)) = IF Carries(work, d) THEN 1 ELSE 0
    <2>1. CASE Carries(work, d)
      <3>1. PICK k \in DOMAIN work : work[k].fd = d
        BY <2>1 DEF Carries
      <3>2. Queued(d) = {k}
        BY <1>0, <3>1 DEF Queued, HasOnePlace, Once
      <3> QED  BY <2>1, <3>2, FS_Singleton
    <2>2. CASE ~Carries(work, d)
      <3>1. Queued(d) = {}
        BY <2>2 DEF Queued, Carries
      <3> QED  BY <2>2, <3>1, FS_EmptySet
    <2> QED  BY <2>1, <2>2
  <1>2. Cardinality(Unread(d)) = IF InSocket(d) THEN 1 ELSE 0
    <2>1. CASE InSocket(d)
      <3>1. PICK c \in Connections : Carries(inbox[c], d)
        BY <2>1 DEF InSocket
      <3>2. \A e \in Connections : Carries(inbox[e], d) => e = c
        BY <1>0, <3>1 DEF HasOnePlace
      <3>3. Unread(d) = {c}
        BY <3>1, <3>2 DEF Unread, Carries
      <3> QED  BY <2>1, <3>3, FS_Singleton
    <2>2. CASE ~InSocket(d)
      <3>1. Unread(d) = {}
        BY <2>2 DEF Unread, InSocket, Carries
      <3> QED  BY <2>2, <3>1, FS_EmptySet
    <2> QED  BY <2>1, <2>2
  <1> QED  BY <1>0, <1>1, <1>2 DEF HasOnePlace, PlacesOf

\* cmdentrypoint.cpp:48-62, 163-167, 315-366, 503-517: whatever the order of
\* failures, replacements and stale work, every descriptor a peer sends has one
\* owner and is closed once, and a socket is closed once unless it failed
\* between its registration and the store to conn_fd.
THEOREM FilesCorrect == Spec => []FilesAreClosedOnce
  <1>1. ServerInv => FilesAreClosedOnce
    BY OnePlaceCounts DEF FilesAreClosedOnce, ServerInv
  <1> QED  BY <1>1, ServerInvariant, PTL

\* cmdentrypoint.cpp:164, 323-330, 345-358, 512: no descriptor, header byte or
\* held key of one connection is taken for another's.
THEOREM ConnectionsCorrect == Spec => []ConnectionsAreApart
  <1>1. ServerInv => ConnectionsAreApart
    BY DEF ConnectionsAreApart, LeasesAreCurrent, ServerInv, GenerationsMatch
  <1> QED  BY <1>1, ServerInvariant, PTL
=============================================================================
