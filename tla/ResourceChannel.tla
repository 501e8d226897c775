-------------------------- MODULE ResourceChannel --------------------------
(***************************************************************************)
(* Admission of X clients and the channel through which a client's shared  *)
(* memory is fetched from its resource broker (lorie/resource_channel.c).  *)
(*                                                                         *)
(* Everything runs in the server's event loop: a request of a client, a    *)
(* readable or writable descriptor, a timer.  A callback that finds        *)
(* nothing to read or no room to write returns and is not an action.  The  *)
(* broker is external: it answers each request at most once, in order,     *)
(* with a grant, a refusal or garbage, as late as it likes, or hangs up.   *)
(***************************************************************************)
EXTENDS Naturals, Sequences, FiniteSets

CONSTANTS
    Connections,     \* sockets handed to lorieResourcesAccept()
    Ids,             \* a segment's id with its read-only flag
    NoId,            \* no request
    MaxAdmissions    \* MAXCLIENTS

ASSUME ChannelAssumption == NoId \notin Ids /\ MaxAdmissions \in Nat \ {0}

VARIABLES
    stage,        \* what became of each socket
    admissions,   \* the counter of that name
    installed,    \* the descriptors this process has open
    resources,    \* the resource_client of each client that has one
    awaits,       \* the request at the head of a client's queue, if postponed
    asleep,       \* clients under IgnoreClient()
    asked,        \* requests in the channel, per connection
    answers,      \* replies in the channel, per connection
    hungUp,       \* connections whose broker closed its end
    segments      \* the attachments a client was given: id and descriptors

channelVars == <<stage, admissions, installed, resources, awaits, asleep, asked, answers,
                 hungUp, segments>>

Socket(c) == <<"socket", c>>

Endpoint(c) == <<"endpoint", c>>

\* The backing descriptor and the lifetime lease of a grant.
Rights(c, i) == {<<"backing", c, i>>, <<"lease", c, i>>}

Replies == {"grant", "refusal", "garbage"}

NoChannel == [open |-> FALSE, fd |-> FALSE, watched |-> FALSE, timer |-> FALSE,
              pending |-> FALSE, ready |-> FALSE, sent |-> FALSE, rights |-> {},
              request |-> NoId]

ChannelInit ==
    /\ stage = [c \in Connections |-> "new"]
    /\ admissions = 0
    /\ installed = {}
    /\ resources = [c \in Connections |-> NoChannel]
    /\ awaits = [c \in Connections |-> NoId]
    /\ asleep = {}
    /\ asked = [c \in Connections |-> <<>>]
    /\ answers = [c \in Connections |-> <<>>]
    /\ hungUp = {}
    /\ segments = [c \in Connections |-> {}]

-----------------------------------------------------------------------------
\* Admission: the first byte decides what a socket is.

\* lorieResourcesAccept(): over the limit, or out of memory, the socket is
\* closed at once; a timer or watch that cannot be had discards the admission.
Accept(c, ok) ==
    /\ stage[c] = "new"
    /\ IF ok /\ admissions < MaxAdmissions
       THEN /\ stage' = [stage EXCEPT ![c] = "admission"]
            /\ admissions' = admissions + 1
            /\ installed' = installed \cup {Socket(c)}
       ELSE /\ stage' = [stage EXCEPT ![c] = "gone"]
            /\ UNCHANGED <<admissions, installed>>
    /\ UNCHANGED <<resources, awaits, asleep, asked, answers, hungUp, segments>>

\* discard_admission() with its socket: end of file, an unknown byte, a
\* preface without exactly one SOCK_SEQPACKET endpoint, or no memory.
discard_admission(c) ==
    /\ stage' = [stage EXCEPT ![c] = "gone"]
    /\ admissions' = admissions - 1
    /\ installed' = installed \ {Socket(c)}
    /\ UNCHANGED <<resources, awaits, asleep, asked, answers, hungUp, segments>>

Reject(c) == stage[c] = "admission" /\ discard_admission(c)

admission_expired(c) == stage[c] = "admission" /\ discard_admission(c)

\* admit() of an ordinary client (preface FALSE) or of one that brings an
\* endpoint; the X server may be out of clients and closes the socket then.
admit(c, preface, accepted) ==
    /\ stage[c] = "admission"
    /\ admissions' = admissions - 1
    /\ stage' = [stage EXCEPT ![c] = IF accepted THEN "client" ELSE "gone"]
    /\ installed' = IF accepted THEN installed \cup (IF preface THEN {Endpoint(c)} ELSE {})
                    ELSE installed \ {Socket(c)}
    /\ resources' = IF accepted /\ preface
                    THEN [resources EXCEPT ![c] = [NoChannel EXCEPT !.open = TRUE, !.fd = TRUE]]
                    ELSE resources
    /\ UNCHANGED <<awaits, asleep, asked, answers, hungUp, segments>>

-----------------------------------------------------------------------------
\* The channel of an admitted client.

\* disconnect() closes the endpoint: what is in the channel is lost.
Disconnected(r) == [r EXCEPT !.fd = FALSE, !.watched = FALSE]

\* mutant: an expired request keeps the channel.
FinishKeepingChannel(c, r, error) ==
    /\ resources' = [resources EXCEPT ![c] =
                        [(IF error THEN [r EXCEPT !.rights = {}] ELSE r)
                         EXCEPT !.timer = FALSE, !.watched = FALSE, !.ready = TRUE]]
    /\ installed' = (installed \cup r.rights) \ (IF error THEN r.rights ELSE {})
    /\ asleep' = IF r.pending THEN asleep \ {c} ELSE asleep

\* mutant: the client is left asleep when its request fails.
FinishAsleep(c, r, error) ==
    /\ resources' = [resources EXCEPT ![c] =
                        [(IF error THEN [Disconnected(r) EXCEPT !.rights = {}] ELSE r)
                         EXCEPT !.timer = FALSE, !.watched = FALSE, !.ready = TRUE]]
    /\ installed' = (installed \cup r.rights) \ (IF error THEN r.rights \cup {Endpoint(c)} ELSE {})
    /\ asleep' = IF r.pending /\ ~error THEN asleep \ {c} ELSE asleep

\* finish(): the channel's record becomes r and is ready; a failure closes the
\* endpoint and the rights that came.  The waiting client is dispatched again.
finish(c, r, error) ==
    /\ resources' = [resources EXCEPT ![c] =
                        [(IF error THEN [Disconnected(r) EXCEPT !.rights = {}] ELSE r)
                         EXCEPT !.timer = FALSE, !.watched = FALSE, !.ready = TRUE]]
    /\ installed' = (installed \cup r.rights) \ (IF error THEN r.rights \cup {Endpoint(c)} ELSE {})
    /\ asleep' = IF r.pending THEN asleep \ {c} ELSE asleep

\* ProcShmAttach() with lorieResourcesShm() returning -EAGAIN: the request is
\* put back and the client sleeps.
Postponed(c, i) ==
    /\ awaits' = [awaits EXCEPT ![c] = i]
    /\ asleep' = asleep \cup {c}

\* The same with any other answer: the request is over.
Answered(c, r, S) ==
    /\ resources' = [resources EXCEPT ![c] = r]
    /\ segments' = [segments EXCEPT ![c] = @ \cup S]
    /\ awaits' = [awaits EXCEPT ![c] = NoId]
    /\ UNCHANGED asleep

\* lorieResourcesShm() of an awake client that comes with a new request, or
\* again with the one it slept on.  fails: no timer or no watch to be had; the
\* timer may then be armed although the channel is closed.
lorieResourcesShm(c, i, fails, armed) ==
    /\ stage[c] = "client" /\ c \notin asleep /\ resources[c].open
    /\ awaits[c] \in {i, NoId}
    /\ LET r == resources[c]
           heard == [r EXCEPT !.ready = FALSE, !.pending = FALSE]
           idle == ~r.ready /\ r.fd /\ ~r.pending
       IN  \/ /\ r.ready /\ r.request # i                          \* -EPROTO
              /\ installed' = installed \ (r.rights \cup {Endpoint(c)})
              /\ Answered(c, [Disconnected(heard) EXCEPT !.rights = {}], {})
           \/ /\ r.ready /\ r.request = i /\ r.rights = {}         \* reply.error
              /\ Answered(c, heard, {})
              /\ UNCHANGED installed
           \/ /\ r.ready /\ r.request = i /\ r.rights # {}
              /\ Answered(c, [heard EXCEPT !.rights = {}], {<<i, r.rights>>})
              /\ UNCHANGED installed
           \/ /\ ~r.ready /\ ~r.fd                                 \* -EPIPE
              /\ Answered(c, r, {})
              /\ UNCHANGED installed
           \/ /\ idle /\ fails                                     \* -ENOMEM
              /\ installed' = installed \ {Endpoint(c)}
              /\ Answered(c, [Disconnected(r) EXCEPT !.request = i, !.sent = FALSE, !.timer = armed], {})
           \/ /\ idle /\ ~fails
              /\ resources' = [resources EXCEPT ![c] =
                                 [r EXCEPT !.request = i, !.sent = FALSE, !.timer = TRUE,
                                           !.watched = TRUE, !.pending = TRUE]]
              /\ Postponed(c, i)
              /\ UNCHANGED <<installed, segments>>
    /\ UNCHANGED <<stage, admissions, asked, answers, hungUp>>

Working(c) == stage[c] = "client" /\ resources[c].watched

\* progress() while the request is unsent: it leaves, or the broker is gone,
\* or the descriptor cannot be watched for the reply.
SendRequest(c, fails) ==
    /\ Working(c) /\ ~resources[c].sent
    /\ IF c \in hungUp
       THEN finish(c, resources[c], TRUE) /\ UNCHANGED asked
       ELSE /\ asked' = [asked EXCEPT ![c] = Append(@, resources[c].request)]
            /\ LET r == [resources[c] EXCEPT !.sent = TRUE, !.rights = {}]
               IN  IF fails THEN finish(c, r, TRUE)
                   ELSE /\ resources' = [resources EXCEPT ![c] = r]
                        /\ UNCHANGED <<installed, asleep>>
    /\ UNCHANGED <<stage, admissions, awaits, answers, hungUp, segments>>

\* progress() with a reply to read: its descriptors are kept only with a
\* well-formed grant, and end of file is a failure.
ReadReply(c) ==
    /\ Working(c) /\ resources[c].sent
    /\ \/ /\ answers[c] # <<>>
          /\ answers' = [answers EXCEPT ![c] = Tail(@)]
          /\ LET m == Head(answers[c])
                 r == [resources[c] EXCEPT !.rights = m.rights]
             IN  finish(c, r, m.kind = "garbage")
       \/ /\ answers[c] = <<>> /\ c \in hungUp
          /\ finish(c, resources[c], TRUE)
          /\ UNCHANGED answers
    /\ UNCHANGED <<stage, admissions, awaits, asked, hungUp, segments>>

\* expired(): the deadline of a request, or of one that failed at once.
expired(c) ==
    /\ stage[c] = "client" /\ resources[c].timer
    /\ finish(c, resources[c], TRUE)
    /\ UNCHANGED <<stage, admissions, awaits, asked, answers, hungUp, segments>>

\* mutant: the rights of an unread grant are forgotten with the client.
ClientGoneQuietly(c) ==
    /\ stage[c] = "client"
    /\ stage' = [stage EXCEPT ![c] = "gone"]
    /\ resources' = [resources EXCEPT ![c] = NoChannel]
    /\ installed' = installed \ ({Socket(c), Endpoint(c)}
                                 \cup UNION {s[2] : s \in segments[c]})
    /\ segments' = [segments EXCEPT ![c] = {}]
    /\ awaits' = [awaits EXCEPT ![c] = NoId]
    /\ asleep' = asleep \ {c}
    /\ UNCHANGED <<admissions, asked, answers, hungUp>>

\* client_state(): the client is gone; the X server drops its segments.
client_state(c) ==
    /\ stage[c] = "client"
    /\ stage' = [stage EXCEPT ![c] = "gone"]
    /\ resources' = [resources EXCEPT ![c] = NoChannel]
    /\ installed' = installed \ ({Socket(c), Endpoint(c)} \cup resources[c].rights
                                 \cup UNION {s[2] : s \in segments[c]})
    /\ segments' = [segments EXCEPT ![c] = {}]
    /\ awaits' = [awaits EXCEPT ![c] = NoId]
    /\ asleep' = asleep \ {c}
    /\ UNCHANGED <<admissions, asked, answers, hungUp>>

\* The broker answers the oldest request it has not answered; garbage may
\* carry rights too.
BrokerAnswers(c, kind, rights) ==
    /\ asked[c] # <<>> /\ c \notin hungUp
    /\ LET i == Head(asked[c])
       IN  /\ kind = "grant" => rights = Rights(c, i)
           /\ kind = "refusal" => rights = {}
           /\ kind = "garbage" => rights \in SUBSET Rights(c, i)
           /\ answers' = [answers EXCEPT ![c] =
                 Append(@, [kind |-> kind, rights |-> rights])]
    /\ asked' = [asked EXCEPT ![c] = Tail(@)]
    /\ UNCHANGED <<stage, admissions, installed, resources, awaits, asleep, hungUp, segments>>

BrokerHangsUp(c) ==
    /\ c \notin hungUp
    /\ hungUp' = hungUp \cup {c}
    /\ UNCHANGED <<stage, admissions, installed, resources, awaits, asleep, asked, answers, segments>>

\* A client asks for an id at most once: the descriptors are told apart by it.
Fresh(c, i) == i \notin {s[1] : s \in segments[c]}

Attach(c, i) == \E fails, armed \in BOOLEAN : Fresh(c, i) /\ lorieResourcesShm(c, i, fails, armed)

ChannelNext ==
    \E c \in Connections :
        \/ \E ok \in BOOLEAN : Accept(c, ok)
        \/ Reject(c)
        \/ admission_expired(c)
        \/ \E preface, accepted \in BOOLEAN : admit(c, preface, accepted)
        \/ \E i \in Ids : Attach(c, i)
        \/ \E fails \in BOOLEAN : SendRequest(c, fails)
        \/ ReadReply(c)
        \/ expired(c)
        \/ client_state(c)
        \/ \E k \in Replies : \E R \in SUBSET UNION {Rights(c, i) : i \in Ids} : BrokerAnswers(c, k, R)
        \/ BrokerHangsUp(c)

\* Timers fire, and a client that is awake is dispatched.
ChannelFairness ==
    \A c \in Connections :
        /\ WF_channelVars(admission_expired(c))
        /\ WF_channelVars(expired(c))
        /\ WF_channelVars(awaits[c] # NoId /\ Attach(c, awaits[c]))

ChannelSpec == ChannelInit /\ [][ChannelNext]_channelVars /\ ChannelFairness

-----------------------------------------------------------------------------

\* The descriptors the structures of connection c own.
OwnedBy(c) ==
    (IF stage[c] \in {"admission", "client"} THEN {Socket(c)} ELSE {})
    \cup (IF resources[c].fd THEN {Endpoint(c)} ELSE {})
    \cup resources[c].rights
    \cup UNION {s[2] : s \in segments[c]}

\* resource_channel.c:28-29 "Every malformed/truncated packet closes installed
\* rights", 54-70, 87-110 and 124-129: through refusals, deadlines, failures and
\* clients that vanish in any order, each open descriptor has one owner, no
\* descriptor is lost or closed under its owner, and the admission counter that
\* gates lorieResourcesAccept() counts the admissions there are.  Replies carry
\* no id, so a channel that missed a deadline is closed: a client attaches the
\* backing and the lease of the very segment it asked for, however late the
\* broker answers.
RightsAreOwnedOnce ==
    /\ installed = UNION {OwnedBy(c) : c \in Connections}
    /\ \A c \in Connections : \A s \in segments[c] :
         s[2] = Rights(c, s[1]) /\ s[2] \cap resources[c].rights = {}
    /\ admissions = Cardinality({c \in Connections : stage[c] = "admission"})
    /\ admissions <= MaxAdmissions

\* resource_channel.c:115-117 "Expiry fails the attachment and disables this
\* channel; other clients keep dispatching" and 164-165: a client put to sleep
\* on its broker is dispatched again, a postponed request is answered, and no
\* silent socket stays in admission.
SleepersAreServed ==
    \A c \in Connections :
        awaits[c] # NoId \/ stage[c] = "admission" ~>
            c \notin asleep /\ awaits[c] = NoId /\ stage[c] # "admission"
=============================================================================
