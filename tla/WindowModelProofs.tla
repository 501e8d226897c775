------------------------- MODULE WindowModelProofs -------------------------
(***************************************************************************)
(* Proofs about the window catalog and the window-state protocol.          *)
(*                                                                         *)
(* ModelInv is inductive.  To the types and AtomsShowConfirmedState it     *)
(* adds what the records, the catalog, the serials and the inputs have to  *)
(* do with each other: a record that is published and not marked is the    *)
(* one the host has; a clean model has no stale record; a serial is drawn  *)
(* once, so that the same serial in a record, the catalog or a command in  *)
(* flight means the same window and the same request; and the server's     *)
(* stamp of the last input is that of the input nobody has used.           *)
(*                                                                         *)
(* Most actions obtain a record with recordFor and amend it (Amends); the  *)
(* proofs go from what an action amends to what every step does to the     *)
(* records (CoreStep), to the serials (SerialsMove), to the commands       *)
(* (CommandsCome) and to the requests (AnswersFit, ActivationsFit).        *)
(***************************************************************************)
EXTENDS WindowModel, Integers, FiniteSetTheorems, TLAPS

-----------------------------------------------------------------------------
(* Arithmetic of serials and times *)

\* A number is its quotient times the divisor and its remainder.
LEMMA Division ==
    ASSUME NEW M \in Nat \ {0}, NEW a \in Int
    PROVE  /\ a = M * (a \div M) + (a % M)
           /\ a % M \in 0..(M - 1)
           /\ a \div M \in Int
  OBVIOUS

\* Zero is the only multiple of M that is nearer to zero than M.
LEMMA SmallMultiple ==
    ASSUME NEW M \in Nat \ {0}, NEW q \in Int, NEW r \in Int, M * q = r, -M < r, r < M
    PROVE  q = 0
  <1>1. CASE q >= 1
    <2>1. M * q >= M * 1  BY <1>1
    <2> QED  BY <2>1
  <1>2. CASE q <= -1
    <2>1. M * (-q) >= M * 1  BY <1>2
    <2>2. M * (-q) = -(M * q)  OBVIOUS
    <2> QED  BY <2>1, <2>2
  <1> QED  BY <1>1, <1>2

\* The remainder is what is left below the divisor.
LEMMA Remainder ==
    ASSUME NEW M \in Nat \ {0}, NEW a \in Int, NEW q \in Int, NEW r \in 0..(M - 1), a = M * q + r
    PROVE  a % M = r
  <1> DEFINE p == a \div M
             t == a % M
  <1>1. a = M * p + t /\ t \in 0..(M - 1) /\ p \in Int
    BY Division
  <1> HIDE DEF p, t
  <1>2. M * (p - q) = M * p - M * q
    BY <1>1
  <1>3. M * (p - q) = r - t
    BY <1>1, <1>2
  <1>4. p - q = 0
    <2> DEFINE d == p - q
               e == r - t
    <2>1. d \in Int /\ e \in Int /\ M * d = e /\ -M < e /\ e < M
      BY <1>1, <1>3
    <2> HIDE DEF d, e
    <2>2. d = 0
      BY <2>1, SmallMultiple
    <2> QED  BY <2>2 DEF d
  <1>5. t = r
    BY <1>1, <1>4
  <1> QED  BY <1>5 DEF t

\* The remainders of two numbers differ by the numbers' difference, if that is below the divisor.
LEMMA RemaindersDiffer ==
    ASSUME NEW M \in Nat \ {0}, NEW a \in Int, NEW b \in Int, b - a \in 0..(M - 1)
    PROVE  ((b % M) - (a % M)) % M = b - a
  <1> DEFINE p == a \div M  s == a % M  q == b \div M  t == b % M
  <1>1. a = M * p + s /\ s \in Int /\ p \in Int
    BY Division
  <1>2. b = M * q + t /\ t \in Int /\ q \in Int
    BY Division
  <1> HIDE DEF p, s, q, t
  <1>3. M * (p - q) = M * p - M * q
    BY <1>1, <1>2
  <1>4. t - s = M * (p - q) + (b - a)
    BY <1>1, <1>2, <1>3
  <1>5. (t - s) % M = b - a
    <2> DEFINE x == t - s  n == p - q  d == b - a
    <2>1. x \in Int /\ n \in Int /\ d \in 0..(M - 1) /\ x = M * n + d
      BY <1>1, <1>2, <1>4
    <2> HIDE DEF x, n, d
    <2>2. x % M = d
      BY <2>1, Remainder
    <2> QED  BY <2>2 DEF x, d
  <1> QED  BY <1>5 DEF t, s

-----------------------------------------------------------------------------
(* The inductive invariant *)

\* A command from the host: an observe, or an answer of its kind.
Commands == {[kind |-> "observe"]}
            \cup [kind : Aspects, id : Windows, serial : Serials, value : SUBSET (Atoms \cup Flags),
                  inc : Nat, epoch : Nat]

\* What is in flight is commands, and an answer is one the host may give.
CommandsAreFormed ==
    /\ toServer \in Seq(Commands)
    /\ \A i \in 1..Len(toServer) : toServer[i].kind \in Aspects => toServer[i].value \in Answers[toServer[i].kind]

\* A record is of the window that has the XID now.
RecordsAreCurrent ==
    /\ IsFiniteSet(DOMAIN window) /\ IsFiniteSet(dead)
    /\ \A x \in DOMAIN records : records[x].inc = window[x].inc

\* The server's stamp of the last input is that of the input nobody has used.
InputIsAuthority ==
    lastInputTime # 0 =>
        /\ authority # None
        /\ authority.window = lastInputWindow
        /\ authority.at <= clock
        /\ lastInputTime = (StartTime + authority.at) % TimeModulus

\* The last thing the host was told of a record that is not marked since.
Sent(x, r) ==
    [inc |-> window[x].inc, mapped |-> r.mapped, title |-> r.title, size |-> window[x].size,
     managed |-> managed, fullscreen |-> r.fullscreen, maximized |-> r.maximized,
     interaction |-> r.interaction]

\* Before a host observes, nothing is published and nothing is in flight.
SessionsAreApart ==
    /\ link \in {"down", "up"} => /\ toServer = <<>> /\ ~observing
                                  /\ \A x \in DOMAIN records : ~records[x].published
                                  /\ \A d \in dead : ~d.published
    /\ link # "observed" => DOMAIN catalog = {}

\* What is marked published is what the host has, less what was destroyed since.
PublishedIsKnown ==
    /\ link = "observed" => \A x \in DOMAIN records : records[x].published =>
          /\ x \in DOMAIN catalog /\ x \notin doubtful
          /\ ~records[x].changed => catalog[x] = Sent(x, records[x])
    /\ \A x \in DOMAIN catalog \ doubtful :
          \/ x \in DOMAIN records /\ records[x].published
          \/ \E d \in dead : d.id = x /\ d.published
    /\ \A d \in dead : d.published /\ d.id \in DOMAIN records => ~records[d.id].published

\* Nothing to publish: every window that is shown has a record, and none is stale.
CleanIsPublished ==
    ~dirty => /\ observing /\ dead = {}
              /\ \A x \in DOMAIN window : window[x].realized /\ window[x].application => x \in DOMAIN records
              /\ \A x \in DOMAIN records : ~Stale(x, records[x])

\* How many serials had been drawn when this one was.
Drawn(serial) == (serial - StartSerial) % (SerialModulus - 1)

\* No record, catalog entry or command shows a serial that was not drawn yet.
SerialsAreDrawn ==
    /\ Drawn(stateSerial) <= MaxSerials
    /\ \A x \in DOMAIN records : \A kind \in Aspects : Drawn(records[x][kind].serial) <= Drawn(stateSerial)
    /\ \A x \in DOMAIN catalog : \A kind \in Aspects : Drawn(catalog[x][kind].serial) <= Drawn(stateSerial)
    /\ \A i \in 1..Len(toServer) : toServer[i].kind \in Aspects =>
          Drawn(toServer[i].serial) <= Drawn(stateSerial)

\* A serial identifies the window and the request it was drawn for.
SerialsIdentify ==
    \A x \in DOMAIN records : \A kind \in Aspects :
        LET a == records[x][kind]
        IN /\ x \in DOMAIN catalog /\ catalog[x][kind].serial = a.serial =>
                 catalog[x].inc = records[x].inc /\ catalog[x][kind].epoch = a.epoch
           /\ \A i \in 1..Len(toServer) :
                 toServer[i].kind = kind /\ toServer[i].id = x /\ toServer[i].serial = a.serial =>
                    toServer[i].inc = records[x].inc /\ toServer[i].epoch = a.epoch

\* The inductive invariant.
ModelInv ==
    /\ TypeOK
    /\ CommandsAreFormed
    /\ RecordsAreCurrent
    /\ AtomsShowConfirmedState
    /\ InputIsAuthority
    /\ SessionsAreApart
    /\ PublishedIsKnown
    /\ CleanIsPublished
    /\ SerialsAreDrawn
    /\ SerialsIdentify


-----------------------------------------------------------------------------
(* Serials *)

\* The serials are a ring without its zero.
LEMMA Ring ==
    /\ SerialModulus \in Nat /\ SerialModulus - 1 \in Nat \ {0} /\ MaxSerials \in Nat
    /\ MaxSerials =< SerialModulus - 2 /\ StartSerial \in Serials
  BY ConstantsAssumption DEF Serials

\* Drawing k serials moves the counter on by k, over the wrap that skips zero.
LEMMA SerialsAdvance ==
    ASSUME NEW s \in Serials, NEW k \in Nat, Drawn(s) + k =< MaxSerials
    PROVE  /\ SerialAfter(s, k) \in Serials
           /\ Drawn(SerialAfter(s, k)) = Drawn(s) + k
           /\ Drawn(s) \in Nat
  <1> DEFINE M == SerialModulus - 1
             S == StartSerial
             d == (s - S) % M
             p == (s - S) \div M
  <1>0. M \in Nat \ {0} /\ S \in Int /\ s \in Int /\ s - S \in Int /\ SerialModulus = M + 1
    BY Ring DEF Serials
  <1>1. s - S = M * p + d /\ d \in 0..(M - 1) /\ p \in Int
    BY <1>0, Division
  <1>2. Drawn(s) = d
    BY DEF Drawn
  <1>3. d + k \in 0..(M - 1)
    BY <1>1, <1>2, <1>0, Ring
  <1>4. CASE k = 0
    BY <1>4, <1>1, <1>2, <1>0 DEF SerialAfter
  <1>5. CASE k # 0
    <2> DEFINE a == s + k - 1
               q == a \div M
               r == a % M
    <2>0. a \in Int
      BY <1>0
    <2>1. a = M * q + r /\ r \in 0..(M - 1) /\ q \in Int
      BY <1>0, <2>0, Division
    <2>2. SerialAfter(s, k) = r + 1
      BY <1>5 DEF SerialAfter
    <2>3. Drawn(SerialAfter(s, k)) = ((r + 1) - S) % M
      BY <2>2 DEF Drawn
    <2>4. a = s + k - 1
      OBVIOUS
    <2> HIDE DEF a, q, r, M, S, d, p
    <2>5. M * (p - q) = M * p - M * q
      BY <1>0, <1>1, <2>1
    <2>6. (r + 1) - S = M * (p - q) + (d + k)
      BY <1>0, <1>1, <2>1, <2>4, <2>5
    <2>7. ((r + 1) - S) % M = d + k
      <3> DEFINE x == (r + 1) - S  n == p - q  e == d + k
      <3>1. x \in Int /\ n \in Int /\ e \in 0..(M - 1) /\ x = M * n + e
        BY <1>0, <1>1, <1>3, <2>1, <2>6
      <3> HIDE DEF x, n, e
      <3>2. x % M = e
        BY <3>1, <1>0, Remainder
      <3> QED  BY <3>2 DEF x, e
    <2>8. r + 1 \in Serials
      BY <2>1, <1>0 DEF Serials
    <2> QED  BY <2>2, <2>3, <2>7, <2>8, <1>1, <1>2
  <1> QED  BY <1>4, <1>5

\* Drawn counts.
LEMMA DrawnIsNatural == \A s \in Serials : Drawn(s) \in Nat
  <1> SUFFICES ASSUME NEW s \in Serials PROVE Drawn(s) \in Nat
    OBVIOUS
  <1> DEFINE M == SerialModulus - 1
             a == s - StartSerial
  <1>1. M \in Nat \ {0} /\ a \in Int
    BY Ring DEF Serials
  <1> HIDE DEF M, a
  <1>2. a % M \in 0..(M - 1)
    BY <1>1, Division
  <1> QED  BY <1>1, <1>2 DEF Drawn, M, a

-----------------------------------------------------------------------------
(* Commands in flight *)

\* A step leaves the commands, takes the first, adds one, or drops them all.
LEMMA CommandsMove ==
    ASSUME ModelInv, [Next]_vars
    PROVE  \/ toServer' = toServer
           \/ toServer # <<>> /\ toServer' = Tail(toServer)
           \/ toServer' = <<>>
           \/ \E c \in Commands :
                /\ toServer' = Append(toServer, c)
                /\ c.kind \in Aspects =>
                     /\ c.value \in Answers[c.kind]
                     /\ c.id \in DOMAIN catalog
                     /\ c.serial = catalog[c.id][c.kind].serial
                     /\ c.epoch = catalog[c.id][c.kind].epoch
                     /\ c.inc = catalog[c.id].inc
                /\ link \in {"up", "observed"}
                /\ link' = "observed"
  <1>1. CASE observe
    <2>1. toServer' = Append(toServer, [kind |-> "observe"]) /\ link \in {"up", "observed"} /\ link' = "observed"
      BY <1>1 DEF observe
    <2> QED  BY <2>1 DEF Commands, Aspects
  <1>2. ASSUME NEW x \in Windows, answer(x)
        PROVE  \E c \in Commands :
                /\ toServer' = Append(toServer, c)
                /\ c.kind \in Aspects =>
                     /\ c.value \in Answers[c.kind]
                     /\ c.id \in DOMAIN catalog
                     /\ c.serial = catalog[c.id][c.kind].serial
                     /\ c.epoch = catalog[c.id][c.kind].epoch
                     /\ c.inc = catalog[c.id].inc
                /\ link \in {"up", "observed"}
                /\ link' = "observed"
    <2>1. PICK kind \in Aspects : \E value \in Answers[kind] :
             toServer' = Append(toServer,
                [kind |-> kind, id |-> x, serial |-> catalog[x][kind].serial, value |-> value,
                 inc |-> catalog[x].inc, epoch |-> catalog[x][kind].epoch])
      BY <1>2 DEF answer
    <2>2. PICK value \in Answers[kind] :
             toServer' = Append(toServer,
                [kind |-> kind, id |-> x, serial |-> catalog[x][kind].serial, value |-> value,
                 inc |-> catalog[x].inc, epoch |-> catalog[x][kind].epoch])
      BY <2>1
    <2>3. x \in DOMAIN catalog /\ catalog[x] \in Management /\ link = "observed" /\ link' = link
      BY <1>2 DEF answer, ModelInv, TypeOK
    <2>4. catalog[x][kind].serial \in Serials /\ catalog[x][kind].epoch \in Nat /\ catalog[x].inc \in Nat
      BY <2>3 DEF Management, Aspects, State, Interaction
    <2>5. value \in SUBSET (Atoms \cup Flags)
      BY <2>2, ConstantsAssumption DEF Aspects, Atoms, Fullscreen, Axes
    <2> DEFINE c == [kind |-> kind, id |-> x, serial |-> catalog[x][kind].serial, value |-> value,
                     inc |-> catalog[x].inc, epoch |-> catalog[x][kind].epoch]
    <2>6. c \in Commands
      BY <2>4, <2>5, <2>3 DEF Commands
    <2>7. /\ c.kind = kind /\ c.value = value /\ c.id = x /\ c.serial = catalog[x][kind].serial
          /\ c.epoch = catalog[x][kind].epoch /\ c.inc = catalog[x].inc
      OBVIOUS
    <2> HIDE DEF c
    <2>8. toServer' = Append(toServer, c)
      BY <2>2 DEF c
    <2> QED  BY <2>2, <2>3, <2>6, <2>7, <2>8
  <1>3. CASE ~observe /\ ~(\E x \in Windows : answer(x))
    BY <1>3 DEF Next, CreateWindow, onRealize, onDestroy, propertyChanged, onPosition, hintsChanged,
        stateMessage, activateMessage, minimizeMessage, lorieWindowUserInput, managerChanged,
        lorieWindowModelRefresh, receiveObserve, receiveConfirm, connect, hangUp, disconnect, tick, vars, serverVars
  <1> QED  BY <1>1, <1>2, <1>3

\* Every command was in flight before, or is an observe or an answer from the catalog.
CommandsCome ==
    \A i \in 1..Len(toServer') :
        \/ \E j \in 1..Len(toServer) : toServer'[i] = toServer[j]
        \/ toServer'[i].kind \notin Aspects
        \/ LET m == toServer'[i]
           IN /\ m.value \in Answers[m.kind] /\ m.id \in DOMAIN catalog
              /\ m.serial = catalog[m.id][m.kind].serial
              /\ m.epoch = catalog[m.id][m.kind].epoch
              /\ m.inc = catalog[m.id].inc

\* Commands stay formed, and come from the queue or the catalog.
LEMMA CommandsStep ==
    ASSUME ModelInv, [Next]_vars
    PROVE  CommandsAreFormed' /\ CommandsCome
  <1>0. toServer \in Seq(Commands)
    BY DEF ModelInv, CommandsAreFormed
  <1>1. CASE toServer' = toServer
    <2>1. CommandsCome
      BY <1>1 DEF CommandsCome
    <2> QED  BY <1>1, <2>1 DEF ModelInv, CommandsAreFormed
  <1>2. CASE toServer # <<>> /\ toServer' = Tail(toServer)
    <2>1. /\ toServer' \in Seq(Commands)
          /\ \A i \in 1..Len(toServer') : i + 1 \in 1..Len(toServer) /\ toServer'[i] = toServer[i + 1]
      BY <1>0, <1>2
    <2>2. CommandsCome
      BY <2>1 DEF CommandsCome
    <2> QED  BY <2>1, <2>2 DEF ModelInv, CommandsAreFormed
  <1>3. CASE toServer' = <<>>
    BY <1>3 DEF CommandsCome, CommandsAreFormed
  <1>4. ASSUME NEW c \in Commands, toServer' = Append(toServer, c),
               c.kind \in Aspects =>
                     /\ c.value \in Answers[c.kind]
                     /\ c.id \in DOMAIN catalog
                     /\ c.serial = catalog[c.id][c.kind].serial
                     /\ c.epoch = catalog[c.id][c.kind].epoch
                     /\ c.inc = catalog[c.id].inc
        PROVE  CommandsAreFormed' /\ CommandsCome
    <2>1. /\ toServer' \in Seq(Commands)
          /\ \A i \in 1..Len(toServer') : \/ i \in 1..Len(toServer) /\ toServer'[i] = toServer[i]
                                          \/ toServer'[i] = c
      BY <1>0, <1>4
    <2>2. CommandsCome
      BY <1>4, <2>1 DEF CommandsCome
    <2>3. CommandsAreFormed'
      BY <1>4, <2>1 DEF ModelInv, CommandsAreFormed
    <2> QED  BY <2>2, <2>3
  <1> QED  BY <1>1, <1>2, <1>3, <1>4, CommandsMove

-----------------------------------------------------------------------------
(* The input that activation needs *)

\* A new input is the authority, and an activation uses both up.
LEMMA InputStep ==
    ASSUME ModelInv, [Next]_vars
    PROVE  InputIsAuthority'
  <1>0. clock \in Nat /\ InputIsAuthority /\ (authority # None => authority.at \in Nat)
    BY ConstantsAssumption DEF ModelInv, TypeOK
  <1>1. CASE UNCHANGED <<lastInputWindow, lastInputTime, authority, clock>>
    BY <1>0, <1>1 DEF InputIsAuthority
  <1>2. ASSUME NEW x \in Windows, activateMessage(x) PROVE InputIsAuthority'
    BY <1>2 DEF activateMessage, InputIsAuthority
  <1>3. ASSUME NEW x \in Windows, lorieWindowUserInput(x) PROVE InputIsAuthority'
    <2>1. /\ lastInputWindow' = x /\ lastInputTime' = Now /\ authority' = [window |-> x, at |-> clock] /\ clock' = clock
      BY <1>3 DEF lorieWindowUserInput
    <2>2. authority' # None
      <3>1. authority' \in [window : Windows, at : Nat]
        BY <2>1, <1>0
      <3> QED  BY <3>1, ConstantsAssumption
    <2> QED  BY <1>0, <2>1, <2>2 DEF InputIsAuthority, Now
  <1>4. CASE tick
    BY <1>0, <1>4 DEF tick, serverVars, InputIsAuthority
  <1>5. CASE ~UNCHANGED <<lastInputWindow, lastInputTime, authority, clock>>
    BY <1>2, <1>3, <1>4, <1>5 DEF Next, CreateWindow, onRealize, onDestroy, propertyChanged, onPosition, hintsChanged,
        stateMessage, minimizeMessage, managerChanged, observe, answer,
        lorieWindowModelRefresh, receiveObserve, receiveConfirm, connect, hangUp, disconnect, vars, serverVars
  <1> QED  BY <1>1, <1>5

-----------------------------------------------------------------------------
(* Records that handlers obtain and amend *)

\* What AtomsShowConfirmedState says of one record.
Shows(atoms, r) ==
    /\ r.fullscreen.actual \subseteq atoms
    /\ r.maximized.actual \subseteq atoms
    /\ "MINIMIZED" \in r.interaction.actual => "HIDDEN" \in atoms
    /\ "ATTENTION" \in r.interaction.actual => "ATTENTION" \in atoms

\* AtomsShowConfirmedState, record by record.
LEMMA AtomsShown == AtomsShowConfirmedState <=> \A x \in DOMAIN records : Shows(window[x].atoms, records[x])
  BY DEF AtomsShowConfirmedState, Shows

\* A record recordFor makes after serial s is well formed and has the next three serials.
LEMMA FreshFacts ==
    ASSUME TypeOK, NEW x \in DOMAIN window, NEW s \in Serials, Drawn(s) + 3 =< MaxSerials
    PROVE  LET r == FreshRecord(x, s)
           IN /\ r \in Record /\ r.inc = window[x].inc /\ ~r.published /\ Shows(window[x].atoms, r)
              /\ \A kind \in Aspects : /\ Drawn(s) < Drawn(r[kind].serial)
                                       /\ Drawn(r[kind].serial) =< Drawn(s) + 3
              /\ r.interaction.action # "activate"
  <1> DEFINE r == FreshRecord(x, s)
  <1>0. window[x] \in Window /\ managed \in BOOLEAN /\ Drawn(s) \in Nat
    BY DrawnIsNatural DEF TypeOK
  <1>1. /\ SerialAfter(s, 1) \in Serials /\ Drawn(SerialAfter(s, 1)) = Drawn(s) + 1
        /\ SerialAfter(s, 2) \in Serials /\ Drawn(SerialAfter(s, 2)) = Drawn(s) + 2
        /\ SerialAfter(s, 3) \in Serials /\ Drawn(SerialAfter(s, 3)) = Drawn(s) + 3
    <2>1. Drawn(s) + 1 =< MaxSerials /\ Drawn(s) + 2 =< MaxSerials /\ Drawn(s) + 3 =< MaxSerials
      BY <1>0, Ring
    <2> QED  BY <2>1, SerialsAdvance
  <1>2. /\ r.inc = window[x].inc /\ r.mapped = FALSE /\ r.title = FALSE /\ r.changed = FALSE /\ r.published = FALSE
        /\ r.fullscreen.serial = SerialAfter(s, 1) /\ r.fullscreen.actual = {}
        /\ r.maximized.serial = SerialAfter(s, 2) /\ r.maximized.actual = {}
        /\ r.interaction.serial = SerialAfter(s, 3) /\ r.interaction.actual = {}
        /\ r.interaction.action \in {"none", "minimize"}
    BY DEF FreshRecord
  <1>3. r.fullscreen \in State(Fullscreen)
    BY <1>0, <1>1 DEF FreshRecord, State, Window
  <1>4. r.maximized \in State(Axes)
    BY <1>0, <1>1 DEF FreshRecord, State, Window
  <1>5. r.interaction \in Interaction
    <2> DEFINE a == managed /\ ("urgent" \in window[x].hints \/ "ATTENTION" \in window[x].atoms)
    <2>1. a \in BOOLEAN
      BY <1>0
    <2>2. r.interaction = [serial |-> SerialAfter(s, 3), epoch |-> 1,
             action |-> IF managed /\ "iconic" \in window[x].hints THEN "minimize" ELSE "none",
             attention |-> a, actual |-> {}]
      BY DEF FreshRecord
    <2> HIDE DEF a, r
    <2> QED  BY <1>1, <2>1, <2>2 DEF Interaction
  <1>6. r \in Record
    <2>1. r = [inc |-> r.inc, mapped |-> r.mapped, title |-> r.title, changed |-> r.changed, published |-> r.published,
               fullscreen |-> r.fullscreen, maximized |-> r.maximized, interaction |-> r.interaction]
      BY DEF FreshRecord
    <2>2. window[x].inc \in Nat
      BY <1>0 DEF Window
    <2> HIDE DEF r
    <2> QED  BY <1>2, <1>3, <1>4, <1>5, <2>1, <2>2 DEF Record
  <1>7. Shows(window[x].atoms, r)
    <2> HIDE DEF r
    <2> QED  BY <1>2 DEF Shows
  <1> HIDE DEF r
  <1>8. ASSUME NEW kind \in Aspects
        PROVE  Drawn(s) < Drawn(r[kind].serial) /\ Drawn(r[kind].serial) =< Drawn(s) + 3
    BY <1>0, <1>1, <1>2 DEF Aspects
  <1>9. /\ r \in Record /\ r.inc = window[x].inc /\ ~r.published /\ Shows(window[x].atoms, r)
        /\ \A kind \in Aspects : /\ Drawn(s) < Drawn(r[kind].serial)
                                 /\ Drawn(r[kind].serial) =< Drawn(s) + 3
        /\ r.interaction.action # "activate"
    BY <1>2, <1>6, <1>7, <1>8
  <1> QED  BY <1>9 DEF r

\* The serials a record shows, if it was known, or new ones.
SerialsKept(x, r, s) ==
    \A kind \in Aspects :
        /\ Drawn(r[kind].serial) =< Drawn(s)
        /\ \/ Drawn(stateSerial) < Drawn(r[kind].serial)
           \/ /\ x \in DOMAIN records /\ r.inc = records[x].inc
              /\ r[kind].serial = records[x][kind].serial
              /\ r[kind].epoch = records[x][kind].epoch

\* What a handler gets from recordFor.
LEMMA ObtainedFacts ==
    ASSUME ModelInv, NEW x \in Windows, Found(x), NEW k \in Nat,
           Allocated + k + (IF x \in DOMAIN records THEN 0 ELSE 3) =< MaxSerials
    PROVE  /\ RecordFor(x) \in Record /\ RecordFor(x).inc = window[x].inc
           /\ Shows(window[x].atoms, RecordFor(x))
           /\ SerialFor(x) \in Serials
           /\ Drawn(SerialFor(x)) \in Nat
           /\ Drawn(stateSerial) =< Drawn(SerialFor(x))
           /\ Drawn(SerialFor(x)) + k =< MaxSerials
           /\ SerialsKept(x, RecordFor(x), SerialFor(x))
           /\ x \notin DOMAIN records => ~RecordFor(x).published /\ RecordFor(x).interaction.action # "activate"
           /\ x \in DOMAIN window /\ window[x] \in Window
  <1>0. /\ TypeOK /\ x \in DOMAIN window /\ stateSerial \in Serials /\ Allocated = Drawn(stateSerial)
        /\ Drawn(stateSerial) \in Nat /\ window[x] \in Window
    BY DrawnIsNatural DEF ModelInv, TypeOK, Found, Allocated, Drawn
  <1>1. CASE x \in DOMAIN records
    <2>1. RecordFor(x) = records[x] /\ SerialFor(x) = stateSerial
      BY <1>1 DEF RecordFor, SerialFor
    <2>2. records[x] \in Record /\ records[x].inc = window[x].inc /\ Shows(window[x].atoms, records[x])
      BY <1>0, <1>1, AtomsShown DEF ModelInv, TypeOK, RecordsAreCurrent
    <2>3. SerialsKept(x, records[x], stateSerial)
      BY <1>1 DEF SerialsKept, ModelInv, SerialsAreDrawn
    <2>4. Drawn(stateSerial) + k =< MaxSerials
      BY <1>0, <1>1, Ring
    <2> QED  BY <1>0, <1>1, <2>1, <2>2, <2>3, <2>4
  <1>2. CASE x \notin DOMAIN records
    <2>1. RecordFor(x) = FreshRecord(x, stateSerial) /\ SerialFor(x) = SerialAfter(stateSerial, 3)
      BY <1>2 DEF RecordFor, SerialFor
    <2>2. Drawn(stateSerial) + 3 =< MaxSerials /\ (Drawn(stateSerial) + 3) + k =< MaxSerials
      BY <1>0, <1>2, Ring
    <2>3. SerialFor(x) \in Serials /\ Drawn(SerialFor(x)) = Drawn(stateSerial) + 3
      BY <1>0, <2>1, <2>2, SerialsAdvance
    <2> DEFINE r == FreshRecord(x, stateSerial)
    <2>4. /\ r \in Record /\ r.inc = window[x].inc /\ ~r.published /\ Shows(window[x].atoms, r)
          /\ \A kind \in Aspects : /\ Drawn(stateSerial) < Drawn(r[kind].serial)
                                   /\ Drawn(r[kind].serial) =< Drawn(stateSerial) + 3
          /\ r.interaction.action # "activate"
      BY <1>0, <2>2, FreshFacts
    <2>5. RecordFor(x) = r
      BY <2>1
    <2> HIDE DEF r
    <2>6. SerialsKept(x, r, SerialFor(x))
      BY <2>3, <2>4 DEF SerialsKept
    <2> QED  BY <1>0, <1>2, <2>2, <2>3, <2>4, <2>5, <2>6
  <1> QED  BY <1>1, <1>2

\* A request replaces what is requested, under its serial, and leaves what was confirmed.
LEMMA AskFacts ==
    ASSUME NEW atoms, NEW state \in State(atoms), NEW action \in Int, NEW named \in SUBSET atoms, NEW serial \in Serials
    PROVE  /\ Ask(state, action, named, serial) \in State(atoms)
           /\ Ask(state, action, named, serial).serial = serial
           /\ Ask(state, action, named, serial).actual = state.actual
           /\ Ask(state, action, named, serial).epoch = state.epoch + 1
  <1>1. Requested(state.requested, action, named) \in SUBSET atoms
    <2>1. state.requested \in SUBSET atoms
      BY DEF State
    <2>2. CASE action = 0
      BY <2>1, <2>2 DEF Requested
    <2>3. CASE action = 1
      BY <2>1, <2>3 DEF Requested
    <2>4. CASE action = 2
      BY <2>1, <2>4 DEF Requested
    <2>5. CASE action \notin {0, 1, 2}
      <3>1. Requested(state.requested, action, named) = state.requested
        BY <2>5 DEF Requested
      <3> QED  BY <3>1, <2>1
    <2> QED  BY <2>2, <2>3, <2>4, <2>5
  <1> DEFINE q == Requested(state.requested, action, named)
  <1> HIDE DEF q
  <1>2. Ask(state, action, named, serial) = [state EXCEPT !.requested = q, !.serial = serial, !.epoch = @ + 1]
    BY DEF Ask, q
  <1>3. q \in SUBSET atoms
    BY <1>1 DEF q
  <1> DEFINE new == Ask(state, action, named, serial)
  <1>4. state.epoch + 1 \in Nat
    BY DEF State
  <1>5. /\ new \in [serial : Serials, epoch : Nat, requested : SUBSET atoms, actual : SUBSET atoms]
        /\ new.serial = serial /\ new.actual = state.actual /\ new.epoch = state.epoch + 1
    BY <1>2, <1>3, <1>4 DEF State
  <1>6. new \in State(atoms)
    BY <1>5 DEF State
  <1> HIDE DEF new
  <1>7. /\ new \in State(atoms) /\ new.serial = serial /\ new.actual = state.actual
        /\ new.epoch = state.epoch + 1
    BY <1>5, <1>6
  <1> QED  BY <1>7 DEF new

\* An interaction that is asked for, under its serial, leaves what was confirmed.
LEMMA AskInteractionFacts ==
    ASSUME NEW state \in Interaction, NEW action \in {"none", "activate", "minimize"},
           NEW attention \in BOOLEAN, NEW serial \in Serials
    PROVE  LET new == AskInteraction(state, action, attention, serial)
           IN /\ new \in Interaction /\ new.serial = serial /\ new.actual = state.actual
              /\ new.epoch = state.epoch + 1 /\ new.action = action
  <1> DEFINE new == AskInteraction(state, action, attention, serial)
  <1>1. state.epoch + 1 \in Nat /\ state \in [serial : Serials, epoch : Nat, action : {"none", "activate", "minimize"},
                attention : BOOLEAN, actual : SUBSET Flags]
    BY DEF Interaction
  <1>2. new \in Interaction
    BY <1>1 DEF AskInteraction, Interaction
  <1>3. new.serial = serial /\ new.actual = state.actual /\ new.epoch = state.epoch + 1 /\ new.action = action
    BY <1>1 DEF AskInteraction
  <1> QED  BY <1>2, <1>3

\* The windows are the same, but for the atoms of one.
Dressed(x) ==
    /\ DOMAIN window' = DOMAIN window
    /\ \A y \in DOMAIN window :
          /\ window'[y] \in Window
          /\ window'[y].inc = window[y].inc /\ window'[y].realized = window[y].realized
          /\ window'[y].application = window[y].application
          /\ window'[y].title = window[y].title /\ window'[y].size = window[y].size
          /\ y # x => window'[y] = window[y]

\* What a handler may make of the record o that recordFor gave it, drawing k serials.
Amended(x, o, r, k) ==
    /\ r.inc = o.inc /\ r.mapped = o.mapped /\ r.title = o.title /\ r.published = o.published
    /\ \A kind \in Aspects :
          \/ r[kind].serial = o[kind].serial /\ r[kind].epoch = o[kind].epoch
          \/ \E j \in 1..k : r[kind].serial = SerialAfter(SerialFor(x), j)
    /\ \/ r.changed /\ dirty' = TRUE
       \/ /\ r.changed = o.changed /\ dirty' = dirty
          /\ r.fullscreen = o.fullscreen /\ r.maximized = o.maximized /\ r.interaction = o.interaction

\* A handler that calls recordFor(x) and amends that record only.
Amends(x) ==
    /\ Found(x)
    /\ \E r \in Record : \E k \in Nat :
          /\ Update(x, r, k)
          /\ Amended(x, RecordFor(x), r, k)
          /\ Shows(window'[x].atoms, r)
    /\ Dressed(x)
    /\ UNCHANGED <<dead, observing, managed, link, catalog, doubtful>>

\* A request leaves an aspect of the record as it was or asks for it anew.
Asked(o, r) == \A kind \in Aspects : r[kind] = o[kind] \/ r[kind].epoch = o[kind].epoch + 1

\* The record asks for no activation that it did not ask for before.
NotActivated(o, r) == r.interaction = o.interaction \/ r.interaction.action # "activate"

\* What ActivationNeedsInput asks of an activation.
Entitled(x) ==
    /\ authority # None
    /\ ClientOf[authority.window] = ClientOf[x]
    /\ clock - authority.at =< MaxInputAge
    /\ authority' = None

\* An update concerns one record.
LEMMA UpdateFacts ==
    ASSUME NEW x, NEW r, NEW k, Update(x, r, k)
    PROVE  /\ DOMAIN records' = DOMAIN records \cup {x} /\ records'[x] = r
           /\ \A y \in DOMAIN records : y # x => records'[y] = records[y]
  BY DEF Update, With

\* Input that the server's clock calls recent is recent, though the clock wraps.
LEMMA InputEntitles ==
    ASSUME ModelInv, NEW x \in Windows, NEW time, ClientOf[lastInputWindow] = ClientOf[x],
           lorieActivationTimestamp(time, lastInputTime, Now), authority' = None
    PROVE  Entitled(x)
  <1>1. /\ authority # None /\ authority.window = lastInputWindow /\ authority.at =< clock
        /\ lastInputTime = (StartTime + authority.at) % TimeModulus
    BY DEF lorieActivationTimestamp, ModelInv, InputIsAuthority
  <1>2. authority.at \in Nat /\ clock \in 0..MaxTime
    BY <1>1 DEF ModelInv, TypeOK
  <1> DEFINE a == StartTime + authority.at
             b == StartTime + clock
  <1>3. TimeModulus \in Nat \ {0} /\ a \in Int /\ b \in Int /\ b - a = clock - authority.at
        /\ b - a \in 0..(TimeModulus - 1)
    BY <1>1, <1>2, ConstantsAssumption
  <1>4. ((b % TimeModulus) - (a % TimeModulus)) % TimeModulus =< MaxInputAge
    BY <1>1 DEF lorieActivationTimestamp, Now
  <1> HIDE DEF a, b
  <1>5. b - a =< MaxInputAge
    BY <1>3, <1>4, RemaindersDiffer
  <1> QED  BY <1>1, <1>3, <1>5 DEF Entitled

\* A handler that leaves the windows alone and the confirmed states as they were.
LEMMA RequestAmends ==
    ASSUME ModelInv, NEW x \in Windows, Found(x), NEW r \in Record, NEW k \in Nat, Update(x, r, k),
           Amended(x, RecordFor(x), r, k),
           r.fullscreen.actual = RecordFor(x).fullscreen.actual,
           r.maximized.actual = RecordFor(x).maximized.actual,
           r.interaction.actual = RecordFor(x).interaction.actual,
           UNCHANGED <<window, dead, observing, managed, link, catalog, doubtful>>
    PROVE  Amends(x)
  <1>1. Allocated + k + (IF x \in DOMAIN records THEN 0 ELSE 3) =< MaxSerials
    BY DEF Update
  <1>2. Shows(window[x].atoms, RecordFor(x))
    BY <1>1, ObtainedFacts
  <1>3. Shows(window'[x].atoms, r)
    BY <1>2 DEF Shows
  <1>4. Dressed(x)
    BY DEF Dressed, ModelInv, TypeOK
  <1> QED  BY <1>3, <1>4 DEF Amends

\* sendEvent, WM_CHANGE_STATE
LEMMA MinimizeAmends ==
    ASSUME ModelInv, NEW x \in Windows, minimizeMessage(x)
    PROVE  Amends(x) /\ Asked(RecordFor(x), records'[x]) /\ NotActivated(RecordFor(x), records'[x])
  <1> DEFINE o == RecordFor(x)
             s == SerialAfter(SerialFor(x), 1)
             i == AskInteraction(o.interaction, "minimize", o.interaction.attention, s)
             r == [o EXCEPT !.interaction = i, !.changed = TRUE]
  <1>1. /\ Found(x) /\ Update(x, r, 1) /\ dirty' = TRUE
        /\ UNCHANGED <<window, dead, observing, managed, link, catalog, doubtful>>
    BY DEF minimizeMessage
  <1>2. Allocated + 1 + (IF x \in DOMAIN records THEN 0 ELSE 3) =< MaxSerials
    BY <1>1 DEF Update
  <1>3. o \in Record /\ SerialFor(x) \in Serials /\ Drawn(SerialFor(x)) + 1 =< MaxSerials
    BY <1>1, <1>2, ObtainedFacts
  <1>4. s \in Serials
    BY <1>3, SerialsAdvance
  <1>5. o.interaction \in Interaction /\ o.interaction.attention \in BOOLEAN
    BY <1>3 DEF Record, Interaction
  <1> HIDE DEF o, s
  <1>6. i \in Interaction /\ i.serial = s /\ i.actual = o.interaction.actual /\ i.epoch = o.interaction.epoch + 1
        /\ i.action = "minimize"
    BY <1>4, <1>5, AskInteractionFacts
  <1> HIDE DEF i
  <1>7. /\ r \in Record /\ r.inc = o.inc /\ r.mapped = o.mapped /\ r.title = o.title /\ r.published = o.published
        /\ r.fullscreen = o.fullscreen /\ r.maximized = o.maximized /\ r.interaction = i /\ r.changed = TRUE
    BY <1>3, <1>6 DEF Record
  <1> HIDE DEF r
  <1>8. Amended(x, o, r, 1)
    <2>1. \E j \in 1..1 : r.interaction.serial = SerialAfter(SerialFor(x), j)
      BY <1>6, <1>7 DEF s
    <2>2. ASSUME NEW kind \in Aspects
          PROVE  \/ r[kind].serial = o[kind].serial /\ r[kind].epoch = o[kind].epoch
                 \/ \E j \in 1..1 : r[kind].serial = SerialAfter(SerialFor(x), j)
      BY <1>7, <2>1 DEF Aspects
    <2> QED  BY <1>1, <1>7, <2>2 DEF Amended
  <1>9. Amends(x)
    BY <1>1, <1>6, <1>7, <1>8, RequestAmends DEF o
  <1>10. records'[x] = r
    BY <1>1, UpdateFacts
  <1>11. Asked(o, r)
    BY <1>6, <1>7 DEF Asked, Aspects
  <1>12. NotActivated(o, r)
    BY <1>6, <1>7 DEF NotActivated
  <1> QED  BY <1>9, <1>10, <1>11, <1>12 DEF o

\* sendEvent, _NET_ACTIVE_WINDOW: an activation is asked for on input that entitles to it.
LEMMA ActivateAmends ==
    ASSUME ModelInv, NEW x \in Windows, activateMessage(x)
    PROVE  /\ Amends(x) /\ Asked(RecordFor(x), records'[x])
           /\ NotActivated(RecordFor(x), records'[x]) \/ Entitled(x)
  <1>0. PICK time \in 0..(TimeModulus - 1) :
          LET r == RecordFor(x)
              allowed == /\ lastInputWindow \in DOMAIN window
                         /\ ClientOf[lastInputWindow] = ClientOf[x]
                         /\ lorieActivationTimestamp(time, lastInputTime, Now)
          IN Update(x,
                 [r EXCEPT
                    !.interaction = AskInteraction(@, IF allowed THEN "activate" ELSE "none",
                                        @.attention \/ ~allowed, SerialAfter(SerialFor(x), 1)),
                    !.changed = TRUE],
                 1)
    BY DEF activateMessage
  <1> DEFINE o == RecordFor(x)
             s == SerialAfter(SerialFor(x), 1)
             allowed == /\ lastInputWindow \in DOMAIN window
                        /\ ClientOf[lastInputWindow] = ClientOf[x]
                        /\ lorieActivationTimestamp(time, lastInputTime, Now)
             what == IF allowed THEN "activate" ELSE "none"
             attention == o.interaction.attention \/ ~allowed
             i == AskInteraction(o.interaction, what, attention, s)
             r == [o EXCEPT !.interaction = i, !.changed = TRUE]
  <1>1. /\ Found(x) /\ Update(x, r, 1) /\ dirty' = TRUE
        /\ UNCHANGED <<window, dead, observing, managed, link, catalog, doubtful>>
    BY <1>0 DEF activateMessage
  <1>2. Allocated + 1 + (IF x \in DOMAIN records THEN 0 ELSE 3) =< MaxSerials
    BY <1>1 DEF Update
  <1>3. o \in Record /\ SerialFor(x) \in Serials /\ Drawn(SerialFor(x)) + 1 =< MaxSerials
    BY <1>1, <1>2, ObtainedFacts
  <1>4. s \in Serials
    BY <1>3, SerialsAdvance
  <1>5. o.interaction \in Interaction /\ what \in {"none", "activate", "minimize"} /\ attention \in BOOLEAN
    BY <1>3 DEF Record, Interaction
  <1> HIDE DEF o, s, what, attention
  <1>6. i \in Interaction /\ i.serial = s /\ i.actual = o.interaction.actual /\ i.epoch = o.interaction.epoch + 1
        /\ i.action = what
    BY <1>4, <1>5, AskInteractionFacts
  <1> HIDE DEF i
  <1>7. /\ r \in Record /\ r.inc = o.inc /\ r.mapped = o.mapped /\ r.title = o.title /\ r.published = o.published
        /\ r.fullscreen = o.fullscreen /\ r.maximized = o.maximized /\ r.interaction = i /\ r.changed = TRUE
    BY <1>3, <1>6 DEF Record
  <1> HIDE DEF r
  <1>8. Amended(x, o, r, 1)
    <2>1. \E j \in 1..1 : r.interaction.serial = SerialAfter(SerialFor(x), j)
      BY <1>6, <1>7 DEF s
    <2>2. ASSUME NEW kind \in Aspects
          PROVE  \/ r[kind].serial = o[kind].serial /\ r[kind].epoch = o[kind].epoch
                 \/ \E j \in 1..1 : r[kind].serial = SerialAfter(SerialFor(x), j)
      BY <1>7, <2>1 DEF Aspects
    <2> QED  BY <1>1, <1>7, <2>2 DEF Amended
  <1>9. Amends(x)
    BY <1>1, <1>6, <1>7, <1>8, RequestAmends DEF o
  <1>10. records'[x] = r
    BY <1>1, UpdateFacts
  <1>11. Asked(o, r)
    BY <1>6, <1>7 DEF Asked, Aspects
  <1>12. CASE allowed
    <2>1. Entitled(x)
      BY <1>12, InputEntitles DEF activateMessage
    <2> QED  BY <2>1, <1>9, <1>10, <1>11 DEF o
  <1>13. CASE ~allowed
    <2>1. NotActivated(o, r)
      BY <1>6, <1>7, <1>13 DEF NotActivated, what
    <2> QED  BY <2>1, <1>9, <1>10, <1>11 DEF o
  <1> QED  BY <1>12, <1>13

\* sendEvent, _NET_WM_STATE: up to three aspects, each under a serial of its own.
LEMMA StateMessageAmends ==
    ASSUME ModelInv, NEW x \in Windows, stateMessage(x)
    PROVE  Amends(x) /\ Asked(RecordFor(x), records'[x]) /\ NotActivated(RecordFor(x), records'[x])
  <1> DEFINE o == RecordFor(x)
             count(b) == IF b THEN 1 ELSE 0
             full(action, named) == action =< 2 /\ Fullscreen \subseteq named
             attention(action, named) == action =< 2 /\ "ATTENTION" \in named
             axes(action, named) == action =< 2 /\ named \cap Axes # {}
             first(action, named) == count(full(action, named))
             second(action, named) == first(action, named) + count(attention(action, named))
             drawn(action, named) == second(action, named) + count(axes(action, named))
             serial(k) == SerialAfter(SerialFor(x), k)
  <1>0. PICK action \in 0..3, named \in Messages :
          /\ Update(x,
                [o EXCEPT
                   !.fullscreen = IF full(action, named) THEN Ask(@, action, Fullscreen, serial(first(action, named))) ELSE @,
                   !.interaction =
                      IF attention(action, named)
                      THEN AskInteraction(@, "none",
                               IF action = 2 THEN ~@.attention ELSE action = 1, serial(second(action, named)))
                      ELSE @,
                   !.maximized =
                      IF axes(action, named) THEN Ask(@, action, named \cap Axes, serial(drawn(action, named))) ELSE @,
                   !.changed = @ \/ drawn(action, named) > 0],
                drawn(action, named))
          /\ dirty' = (dirty \/ drawn(action, named) > 0)
    BY DEF stateMessage
  <1> DEFINE isFull == full(action, named)
             isAttention == attention(action, named)
             isAxes == axes(action, named)
             a == first(action, named)
             b == second(action, named)
             k == drawn(action, named)
             wanted == IF action = 2 THEN ~o.interaction.attention ELSE action = 1
             f == IF isFull THEN Ask(o.fullscreen, action, Fullscreen, serial(a)) ELSE o.fullscreen
             i == IF isAttention THEN AskInteraction(o.interaction, "none", wanted, serial(b)) ELSE o.interaction
             m == IF isAxes THEN Ask(o.maximized, action, named \cap Axes, serial(k)) ELSE o.maximized
             c == o.changed \/ k > 0
             r == [o EXCEPT !.fullscreen = f, !.interaction = i, !.maximized = m, !.changed = c]
  <1>1. /\ Found(x) /\ Update(x, r, k) /\ dirty' = (dirty \/ k > 0)
        /\ UNCHANGED <<window, dead, observing, managed, link, catalog, doubtful>>
    BY <1>0 DEF stateMessage
  <1>2. /\ k \in Nat /\ (isFull => a \in 1..k) /\ (isAttention => b \in 1..k) /\ (isAxes => k \in 1..k)
        /\ k > 0 \/ (~isFull /\ ~isAttention /\ ~isAxes)
    OBVIOUS
  <1>3. Allocated + k + (IF x \in DOMAIN records THEN 0 ELSE 3) =< MaxSerials
    BY <1>1 DEF Update
  <1>4. o \in Record /\ SerialFor(x) \in Serials /\ Drawn(SerialFor(x)) \in Nat /\ Drawn(SerialFor(x)) + k =< MaxSerials
    <2> HIDE DEF k
    <2> QED  BY <1>1, <1>2, <1>3, ObtainedFacts
  <1>5. \A j \in 1..k : serial(j) \in Serials
    <2> HIDE DEF k
    <2> SUFFICES ASSUME NEW j \in 1..k PROVE serial(j) \in Serials
      OBVIOUS
    <2>1. j \in Nat /\ Drawn(SerialFor(x)) + j =< MaxSerials
      BY <1>2, <1>4, Ring
    <2> QED  BY <1>4, <2>1, SerialsAdvance
  <1>6. /\ o.fullscreen \in State(Fullscreen) /\ o.maximized \in State(Axes) /\ o.interaction \in Interaction
        /\ o.changed \in BOOLEAN /\ o.interaction.attention \in BOOLEAN
    BY <1>4 DEF Record, Interaction
  <1>7. wanted \in BOOLEAN /\ c \in BOOLEAN /\ dirty \in BOOLEAN
    BY <1>6 DEF ModelInv, TypeOK
  <1> HIDE DEF o, isFull, isAttention, isAxes, a, b, k, wanted, c, serial
  <1>8. /\ f \in State(Fullscreen) /\ f.actual = o.fullscreen.actual
        /\ isFull => f.serial = serial(a) /\ f.epoch = o.fullscreen.epoch + 1
        /\ ~isFull => f = o.fullscreen
    <2>1. CASE isFull
      <3>1. serial(a) \in Serials /\ Fullscreen \in SUBSET Fullscreen /\ action \in Int
        BY <1>2, <1>5, <2>1
      <3>2. /\ Ask(o.fullscreen, action, Fullscreen, serial(a)) \in State(Fullscreen)
            /\ Ask(o.fullscreen, action, Fullscreen, serial(a)).serial = serial(a)
            /\ Ask(o.fullscreen, action, Fullscreen, serial(a)).actual = o.fullscreen.actual
            /\ Ask(o.fullscreen, action, Fullscreen, serial(a)).epoch = o.fullscreen.epoch + 1
        BY <1>6, <3>1, AskFacts
      <3> QED  BY <2>1, <3>2
    <2>2. CASE ~isFull
      BY <1>6, <2>2
    <2> QED  BY <2>1, <2>2
  <1>9. /\ m \in State(Axes) /\ m.actual = o.maximized.actual
        /\ isAxes => m.serial = serial(k) /\ m.epoch = o.maximized.epoch + 1
        /\ ~isAxes => m = o.maximized
    <2>1. CASE isAxes
      <3> DEFINE n == named \cap Axes
      <3>1. serial(k) \in Serials /\ n \in SUBSET Axes /\ action \in Int
        BY <1>2, <1>5, <2>1
      <3> HIDE DEF n
      <3>2. /\ Ask(o.maximized, action, n, serial(k)) \in State(Axes)
            /\ Ask(o.maximized, action, n, serial(k)).serial = serial(k)
            /\ Ask(o.maximized, action, n, serial(k)).actual = o.maximized.actual
            /\ Ask(o.maximized, action, n, serial(k)).epoch = o.maximized.epoch + 1
        BY <1>6, <3>1, AskFacts
      <3> QED  BY <2>1, <3>2 DEF n
    <2>2. CASE ~isAxes
      BY <1>6, <2>2
    <2> QED  BY <2>1, <2>2
  <1>10. /\ i \in Interaction /\ i.actual = o.interaction.actual
         /\ isAttention => i.serial = serial(b) /\ i.action = "none" /\ i.epoch = o.interaction.epoch + 1
         /\ ~isAttention => i = o.interaction
    <2>1. CASE isAttention
      <3>1. serial(b) \in Serials
        BY <1>2, <1>5, <2>1
      <3> DEFINE n == AskInteraction(o.interaction, "none", wanted, serial(b))
      <3>2. /\ n \in Interaction /\ n.serial = serial(b) /\ n.actual = o.interaction.actual /\ n.action = "none"
            /\ n.epoch = o.interaction.epoch + 1
        <4> DEFINE t == o.interaction
                   s == serial(b)
        <4>1. t \in Interaction /\ wanted \in BOOLEAN /\ s \in Serials /\ "none" \in {"none", "activate", "minimize"}
          BY <1>6, <1>7, <3>1
        <4> HIDE DEF t, s
        <4>2. /\ AskInteraction(t, "none", wanted, s) \in Interaction
              /\ AskInteraction(t, "none", wanted, s).serial = s
              /\ AskInteraction(t, "none", wanted, s).actual = t.actual
              /\ AskInteraction(t, "none", wanted, s).action = "none"
              /\ AskInteraction(t, "none", wanted, s).epoch = t.epoch + 1
          BY ONLY <4>1, AskInteractionFacts
        <4> QED  BY <4>2 DEF t, s
      <3>3. i = n
        BY <2>1
      <3> HIDE DEF n, i
      <3> QED  BY <2>1, <3>2, <3>3
    <2>2. CASE ~isAttention
      BY <1>6, <2>2
    <2> QED  BY <2>1, <2>2
  <1> HIDE DEF f, i, m
  <1>11. /\ r \in Record /\ r.inc = o.inc /\ r.mapped = o.mapped /\ r.title = o.title /\ r.published = o.published
         /\ r.fullscreen = f /\ r.maximized = m /\ r.interaction = i /\ r.changed = c
    BY <1>4, <1>7, <1>8, <1>9, <1>10 DEF Record
  <1> HIDE DEF r
  <1>12. Amended(x, o, r, k)
    <2>1. ASSUME NEW kind \in Aspects
          PROVE  \/ r[kind].serial = o[kind].serial /\ r[kind].epoch = o[kind].epoch
                 \/ \E j \in 1..k : r[kind].serial = SerialAfter(SerialFor(x), j)
      <3>1. CASE kind = "fullscreen"
        BY <1>2, <1>8, <1>11, <3>1 DEF serial
      <3>2. CASE kind = "maximized"
        BY <1>2, <1>9, <1>11, <3>2 DEF serial
      <3>3. CASE kind = "interaction"
        BY <1>2, <1>10, <1>11, <3>3 DEF serial
      <3> QED  BY <3>1, <3>2, <3>3 DEF Aspects
    <2>2. CASE k > 0
      <3>1. r.changed /\ dirty' = TRUE
        BY <1>1, <1>11, <2>2 DEF c
      <3> QED  BY <1>11, <2>1, <3>1 DEF Amended
    <2>3. CASE ~(k > 0)
      <3>1. r.fullscreen = o.fullscreen /\ r.maximized = o.maximized /\ r.interaction = o.interaction
        BY <1>2, <1>8, <1>9, <1>10, <1>11, <2>3
      <3>2. r.changed = o.changed /\ dirty' = dirty
        BY <1>1, <1>6, <1>7, <1>11, <2>3 DEF c
      <3> QED  BY <1>11, <2>1, <3>1, <3>2 DEF Amended
    <2> QED  BY <2>2, <2>3
  <1>13. Amends(x)
    BY <1>1, <1>2, <1>8, <1>9, <1>10, <1>11, <1>12, RequestAmends DEF o
  <1>14. records'[x] = r
    BY <1>1, UpdateFacts
  <1>15. Asked(o, r)
    BY <1>8, <1>9, <1>10, <1>11 DEF Asked, Aspects
  <1>16. NotActivated(o, r)
    BY <1>10, <1>11 DEF NotActivated
  <1> QED  BY <1>13, <1>14, <1>15, <1>16 DEF o

\* The command the server is reading.
LEMMA HeadFacts ==
    ASSUME ModelInv, toServer # <<>>
    PROVE  /\ Head(toServer) = toServer[1] /\ 1 \in 1..Len(toServer) /\ toServer[1] \in Commands
           /\ toServer[1].kind \in Aspects =>
                /\ toServer[1].id \in Windows
                /\ toServer[1].value \in Answers[toServer[1].kind]
  <1>1. toServer \in Seq(Commands)
    BY DEF ModelInv, CommandsAreFormed
  <1>2. Head(toServer) = toServer[1] /\ 1 \in 1..Len(toServer) /\ toServer[1] \in Commands
    BY <1>1
  <1>3. toServer[1].kind \in Aspects => toServer[1].id \in Windows
    BY <1>2 DEF Commands, Aspects
  <1> QED  BY <1>2, <1>3 DEF ModelInv, CommandsAreFormed

\* A confirmation that is not for the current request changes nothing but that the window has a record.
LEMMA StaleAnswerAmends ==
    ASSUME ModelInv, NEW x \in Windows, Found(x), Update(x, RecordFor(x), 0),
           UNCHANGED <<window, dirty, dead, observing, managed, link, catalog, doubtful>>
    PROVE  Amends(x)
  <1>1. Allocated + 0 + (IF x \in DOMAIN records THEN 0 ELSE 3) =< MaxSerials
    BY DEF Update
  <1>2. RecordFor(x) \in Record
    BY <1>1, ObtainedFacts
  <1>3. Amended(x, RecordFor(x), RecordFor(x), 0)
    BY DEF Amended
  <1> QED  BY <1>2, <1>3, RequestAmends

\* The atoms of one window are replaced.
LEMMA DressFacts ==
    ASSUME TypeOK, NEW x \in DOMAIN window, NEW atoms \in SUBSET Atoms,
           window' = [window EXCEPT ![x].atoms = atoms]
    PROVE  Dressed(x) /\ window'[x].atoms = atoms
  <1>1. DOMAIN window' = DOMAIN window
    OBVIOUS
  <1>2. ASSUME NEW y \in DOMAIN window
        PROVE  /\ window'[y] \in Window
               /\ window'[y].inc = window[y].inc /\ window'[y].realized = window[y].realized
               /\ window'[y].application = window[y].application
               /\ window'[y].title = window[y].title /\ window'[y].size = window[y].size
               /\ y # x => window'[y] = window[y]
    <2>1. window[y] \in Window
      BY DEF TypeOK
    <2>2. CASE y = x
      <3>1. window'[y] = [window[y] EXCEPT !.atoms = atoms]
        BY <2>2
      <3> QED  BY <2>1, <2>2, <3>1 DEF Window
    <2>3. CASE y # x
      <3>1. window'[y] = window[y]
        BY <2>3
      <3> QED  BY <2>1, <3>1
    <2> QED  BY <2>2, <2>3
  <1>3. window'[x].atoms = atoms
    <2>1. window[x] \in Window
      BY DEF TypeOK
    <2>2. window'[x] = [window[x] EXCEPT !.atoms = atoms]
      OBVIOUS
    <2> QED  BY <2>1, <2>2 DEF Window
  <1> QED  BY <1>1, <1>2, <1>3 DEF Dressed

\* A confirmation changes the aspect it is about, under the serial of the request.
Confirmed(m, o, r) ==
    /\ \A kind \in Aspects : r[kind] = o[kind] \/ (m.kind = kind /\ o[kind].serial = m.serial)
    /\ NotActivated(o, r)

\* lorieWindowFullscreenConfirm and lorieWindowMaximizedConfirm
LEMMA ConfirmStateAmends ==
    ASSUME ModelInv, NEW m, m.id \in Windows, Found(m.id), NEW kind, NEW atoms,
           (kind = "fullscreen" /\ atoms = Fullscreen) \/ (kind = "maximized" /\ atoms = Axes),
           m.value \in Answers[kind], ConfirmState(m, kind, atoms),
           UNCHANGED <<dead, observing, managed, link, catalog, doubtful>>
    PROVE  Amends(m.id) /\ Confirmed(m, RecordFor(m.id), records'[m.id])
  <1> DEFINE x == m.id
             o == RecordFor(x)
             v == m.value
             a == [o[kind] EXCEPT !.requested = v, !.actual = v]
             r == [o EXCEPT ![kind] = a, !.changed = TRUE]
             w == StateAtoms(window[x].atoms, atoms, v)
  <1>0. x \in Windows /\ Found(x) /\ x \in DOMAIN window /\ TypeOK /\ v \in Answers[kind]
    BY DEF Found, ModelInv, ConfirmState
  <1>1. CASE ~Current(o[kind], m.serial)
    <2>1. Update(x, o, 0) /\ UNCHANGED <<window, dirty>>
      BY <1>1 DEF ConfirmState
    <2> HIDE DEF x
    <2>2. Amends(x)
      BY <1>0, <2>1, StaleAnswerAmends
    <2>3. records'[x] = o
      BY <2>1, UpdateFacts
    <2> QED  BY <2>2, <2>3 DEF x, Confirmed, NotActivated
  <1>2. CASE Current(o[kind], m.serial)
    <2>1. Update(x, r, 0) /\ window' = [window EXCEPT ![x].atoms = w] /\ dirty' = TRUE
      BY <1>2 DEF ConfirmState
    <2>2. Allocated + 0 + (IF x \in DOMAIN records THEN 0 ELSE 3) =< MaxSerials
      BY <2>1 DEF Update
    <2> HIDE DEF x
    <2>3. o \in Record /\ Shows(window[x].atoms, o) /\ window[x] \in Window
      BY <1>0, <2>2, ObtainedFacts
    <2>4. v \in SUBSET atoms /\ atoms \subseteq Atoms
      BY <1>0, ConstantsAssumption DEF Atoms
    <2>5. w \in SUBSET Atoms /\ v \subseteq w /\ (\A e \in window[x].atoms : e \notin atoms => e \in w)
      BY <2>3, <2>4 DEF StateAtoms, Window
    <2> HIDE DEF v, w, o
    <2>6. Dressed(x) /\ window'[x].atoms = w
      BY <1>0, <2>1, <2>5, DressFacts
    <2>7. /\ a.serial = o[kind].serial /\ a.epoch = o[kind].epoch /\ a.actual = v /\ a \in State(atoms)
      BY <2>3, <2>4 DEF Record, State
    <2> HIDE DEF a
    <2>8. /\ r \in Record /\ r.inc = o.inc /\ r.mapped = o.mapped /\ r.title = o.title /\ r.published = o.published
          /\ r[kind] = a /\ (\A other \in Aspects : other # kind => r[other] = o[other]) /\ r.changed = TRUE
      BY <2>3, <2>7 DEF Record, Aspects
    <2> HIDE DEF r
    <2>9. Amended(x, o, r, 0)
      <3>1. ASSUME NEW k \in Aspects
            PROVE  r[k].serial = o[k].serial /\ r[k].epoch = o[k].epoch
        BY <2>7, <2>8
      <3> QED  BY <2>1, <2>8, <3>1 DEF Amended
    <2>10. Shows(w, r)
      <3>1. r.interaction = o.interaction
        BY <2>8 DEF Aspects
      <3>2. "HIDDEN" \notin atoms /\ "ATTENTION" \notin atoms
        BY DEF Fullscreen, Axes
      <3>3. r.fullscreen.actual \subseteq w
        <4>1. CASE kind = "fullscreen"
          BY <2>5, <2>7, <2>8, <4>1
        <4>2. CASE kind = "maximized"
          <5>1. r.fullscreen = o.fullscreen /\ atoms = Axes
            BY <2>8, <4>2 DEF Aspects
          <5>2. o.fullscreen.actual \subseteq Fullscreen /\ o.fullscreen.actual \subseteq window[x].atoms
            BY <2>3 DEF Record, State, Shows
          <5> QED  BY <5>1, <5>2, <2>5 DEF Axes, Fullscreen
        <4> QED  BY <4>1, <4>2
      <3>4. r.maximized.actual \subseteq w
        <4>1. CASE kind = "maximized"
          BY <2>5, <2>7, <2>8, <4>1
        <4>2. CASE kind = "fullscreen"
          <5>1. r.maximized = o.maximized /\ atoms = Fullscreen
            BY <2>8, <4>2 DEF Aspects
          <5>2. o.maximized.actual \subseteq Axes /\ o.maximized.actual \subseteq window[x].atoms
            BY <2>3 DEF Record, State, Shows
          <5> QED  BY <5>1, <5>2, <2>5 DEF Axes, Fullscreen
        <4> QED  BY <4>1, <4>2
      <3> QED  BY <2>3, <2>5, <3>1, <3>2, <3>3, <3>4 DEF Shows
    <2>11. Shows(window'[x].atoms, r)
      BY <2>6, <2>10
    <2>12. Amends(x)
      BY <1>0, <2>1, <2>6, <2>8, <2>9, <2>11 DEF Amends, o
    <2>13. records'[x] = r
      BY <2>1, UpdateFacts
    <2>14. m.kind = kind /\ o[kind].serial = m.serial
      BY <1>2 DEF ConfirmState, Current
    <2>15. r.interaction = o.interaction
      BY <2>8 DEF Aspects
    <2>16. Confirmed(m, o, r)
      BY <2>8, <2>14, <2>15 DEF Confirmed, NotActivated
    <2> QED  BY <2>12, <2>13, <2>16 DEF o, x
  <1> QED  BY <1>1, <1>2

\* lorieWindowInteractionConfirm
LEMMA ConfirmInteractionAmends ==
    ASSUME ModelInv, NEW m, m.id \in Windows, Found(m.id), m.value \in SUBSET Flags, ConfirmInteraction(m),
           UNCHANGED <<dead, observing, managed, link, catalog, doubtful>>
    PROVE  Amends(m.id) /\ Confirmed(m, RecordFor(m.id), records'[m.id])
  <1> DEFINE x == m.id
             o == RecordFor(x)
             flags == IF "ACTIVE" \in m.value THEN m.value \ {"ATTENTION"} ELSE m.value
             shown == (IF "MINIMIZED" \in flags THEN {"HIDDEN"} ELSE {})
                         \cup (IF "ATTENTION" \in flags THEN {"ATTENTION"} ELSE {})
             demands == "ATTENTION" \in flags
             i == [o.interaction EXCEPT !.actual = flags, !.action = "none", !.attention = demands]
             r == [o EXCEPT !.interaction = i, !.changed = TRUE]
             w == StateAtoms(window[x].atoms, Interactive, shown)
  <1>0. x \in Windows /\ Found(x) /\ x \in DOMAIN window /\ TypeOK
    BY DEF Found, ModelInv
  <1>1. CASE ~Current(o.interaction, m.serial)
    <2>1. Update(x, o, 0) /\ UNCHANGED <<window, dirty>>
      BY <1>1 DEF ConfirmInteraction
    <2> HIDE DEF x
    <2>2. Amends(x)
      BY <1>0, <2>1, StaleAnswerAmends
    <2>3. records'[x] = o
      BY <2>1, UpdateFacts
    <2> QED  BY <2>2, <2>3 DEF x, Confirmed, NotActivated
  <1>2. CASE Current(o.interaction, m.serial)
    <2>1. Update(x, r, 0) /\ window' = [window EXCEPT ![x].atoms = w] /\ dirty' = TRUE
      BY <1>2 DEF ConfirmInteraction
    <2>2. Allocated + 0 + (IF x \in DOMAIN records THEN 0 ELSE 3) =< MaxSerials
      BY <2>1 DEF Update
    <2> HIDE DEF x
    <2>3. o \in Record /\ Shows(window[x].atoms, o) /\ window[x] \in Window
      BY <1>0, <2>2, ObtainedFacts
    <2>4. flags \in SUBSET Flags /\ demands \in BOOLEAN
      OBVIOUS
    <2>5. /\ w \in SUBSET Atoms
          /\ (\A e \in window[x].atoms : e \notin Interactive => e \in w)
          /\ "MINIMIZED" \in flags => "HIDDEN" \in w
          /\ "ATTENTION" \in flags => "ATTENTION" \in w
      BY <2>3 DEF StateAtoms, Window, Interactive, Atoms
    <2> HIDE DEF flags, demands, w, o, shown
    <2>6. Dressed(x) /\ window'[x].atoms = w
      BY <1>0, <2>1, <2>5, DressFacts
    <2>7. o.interaction \in Interaction
      BY <2>3 DEF Record
    <2>8. /\ i.serial = o.interaction.serial /\ i.epoch = o.interaction.epoch /\ i.actual = flags /\ i.action = "none"
      BY <2>7 DEF Interaction
    <2>9. i \in Interaction
      BY <2>7, <2>4 DEF Interaction
    <2> HIDE DEF i
    <2>10. /\ r \in Record /\ r.inc = o.inc /\ r.mapped = o.mapped /\ r.title = o.title /\ r.published = o.published
           /\ r.interaction = i /\ r.fullscreen = o.fullscreen /\ r.maximized = o.maximized /\ r.changed = TRUE
      BY <2>3, <2>9 DEF Record
    <2> HIDE DEF r
    <2>11. Amended(x, o, r, 0)
      <3>1. ASSUME NEW k \in Aspects
            PROVE  r[k].serial = o[k].serial /\ r[k].epoch = o[k].epoch
        BY <2>8, <2>10 DEF Aspects
      <3> QED  BY <2>1, <2>10, <3>1 DEF Amended
    <2>12. Shows(w, r)
      <3>1. /\ o.fullscreen.actual \subseteq Fullscreen /\ o.fullscreen.actual \subseteq window[x].atoms
            /\ o.maximized.actual \subseteq Axes /\ o.maximized.actual \subseteq window[x].atoms
        BY <2>3 DEF Record, State, Shows
      <3>2. r.fullscreen.actual \subseteq w
        BY <2>5, <2>10, <3>1 DEF Fullscreen, Interactive
      <3>3. r.maximized.actual \subseteq w
        BY <2>5, <2>10, <3>1 DEF Axes, Interactive
      <3>4. r.interaction.actual = flags
        BY <2>8, <2>10
      <3> QED  BY <2>5, <3>2, <3>3, <3>4 DEF Shows
    <2>13. Shows(window'[x].atoms, r)
      BY <2>6, <2>12
    <2>14. Amends(x)
      BY <1>0, <2>1, <2>6, <2>10, <2>11, <2>13 DEF Amends, o
    <2>15. records'[x] = r
      BY <2>1, UpdateFacts
    <2>16. m.kind = "interaction" /\ o.interaction.serial = m.serial
      BY <1>2 DEF ConfirmInteraction, Current
    <2>17. Confirmed(m, o, r)
      BY <2>8, <2>10, <2>16 DEF Confirmed, NotActivated, Aspects
    <2> QED  BY <2>14, <2>15, <2>17 DEF o, x
  <1> QED  BY <1>1, <1>2

\* A confirmation amends the record it names, or is ignored.
LEMMA ConfirmAmends ==
    ASSUME ModelInv, receiveConfirm
    PROVE  \/ LET m == Head(toServer)
              IN m.id \in Windows /\ Amends(m.id) /\ Confirmed(m, RecordFor(m.id), records'[m.id])
           \/ UNCHANGED <<window, records, stateSerial, dirty, dead, observing, managed, link, catalog, doubtful>>
  <1> DEFINE m == Head(toServer)
  <1>1. /\ toServer # <<>> /\ m.kind \in Aspects
        /\ UNCHANGED <<dead, observing, managed, link, catalog, doubtful>>
    BY DEF receiveConfirm
  <1>2. m.id \in Windows /\ m.value \in Answers[m.kind]
    BY <1>1, HeadFacts
  <1>3. \/ /\ Found(m.id)
           /\ \/ ConfirmState(m, "fullscreen", Fullscreen)
              \/ ConfirmState(m, "maximized", Axes)
              \/ ConfirmInteraction(m)
        \/ UNCHANGED <<window, records, stateSerial, dirty>>
    BY DEF receiveConfirm
  <1> HIDE DEF m
  <1>4. ASSUME Found(m.id), ConfirmState(m, "fullscreen", Fullscreen)
        PROVE  Amends(m.id) /\ Confirmed(m, RecordFor(m.id), records'[m.id])
    <2>1. m.kind = "fullscreen"
      BY <1>4 DEF ConfirmState
    <2>2. m.value \in Answers["fullscreen"]
      BY <1>2, <2>1
    <2> DEFINE kind == "fullscreen"
               atoms == Fullscreen
    <2>3. (kind = "fullscreen" /\ atoms = Fullscreen) \/ (kind = "maximized" /\ atoms = Axes)
      OBVIOUS
    <2>4. m.value \in Answers[kind] /\ ConfirmState(m, kind, atoms)
      BY <1>4, <2>2
    <2> HIDE DEF kind, atoms
    <2> QED  BY ONLY ModelInv, <1>1, <1>2, <1>4, <2>3, <2>4, ConfirmStateAmends
  <1>5. ASSUME Found(m.id), ConfirmState(m, "maximized", Axes)
        PROVE  Amends(m.id) /\ Confirmed(m, RecordFor(m.id), records'[m.id])
    <2>1. m.kind = "maximized"
      BY <1>5 DEF ConfirmState
    <2>2. m.value \in Answers["maximized"]
      BY <1>2, <2>1
    <2> DEFINE kind == "maximized"
               atoms == Axes
    <2>3. (kind = "fullscreen" /\ atoms = Fullscreen) \/ (kind = "maximized" /\ atoms = Axes)
      OBVIOUS
    <2>4. m.value \in Answers[kind] /\ ConfirmState(m, kind, atoms)
      BY <1>5, <2>2
    <2> HIDE DEF kind, atoms
    <2> QED  BY ONLY ModelInv, <1>1, <1>2, <1>5, <2>3, <2>4, ConfirmStateAmends
  <1>6. ASSUME Found(m.id), ConfirmInteraction(m)
        PROVE  Amends(m.id) /\ Confirmed(m, RecordFor(m.id), records'[m.id])
    <2>1. m.kind = "interaction"
      BY <1>6 DEF ConfirmInteraction
    <2>2. m.value \in SUBSET Flags
      BY <1>2, <2>1, ConstantsAssumption
    <2> QED  BY <1>1, <1>2, <1>6, <2>2, ConfirmInteractionAmends
  <1> QED  BY <1>1, <1>2, <1>3, <1>4, <1>5, <1>6 DEF m

-----------------------------------------------------------------------------
(* What a step does to serials *)

\* The counter only goes up, and a record has new serials or the ones it had.
SerialsMove ==
    /\ Drawn(stateSerial) =< Drawn(stateSerial') /\ Drawn(stateSerial') =< MaxSerials
    /\ \A x \in DOMAIN records' : SerialsKept(x, records'[x], stateSerial')

\* What the host holds of a window it had, or has it from the window's record.
CatalogComes ==
    \A x \in DOMAIN catalog' :
        \/ x \in DOMAIN catalog /\ catalog'[x] = catalog[x]
        \/ /\ x \in DOMAIN records' /\ catalog'[x].inc = records'[x].inc
           /\ \A kind \in Aspects : /\ catalog'[x][kind].serial = records'[x][kind].serial
                                    /\ catalog'[x][kind].epoch = records'[x][kind].epoch

\* The types of what the server keeps of windows and the host of the catalog.
Shape ==
    /\ DOMAIN window \subseteq Windows
    /\ \A x \in DOMAIN window : window[x] \in Window
    /\ DOMAIN records \subseteq DOMAIN window
    /\ \A x \in DOMAIN records : records[x] \in Record
    /\ dead \in SUBSET [id : Windows, inc : Nat, published : BOOLEAN]
    /\ stateSerial \in Serials
    /\ DOMAIN catalog \subseteq Windows
    /\ \A x \in DOMAIN catalog : catalog[x] \in Management

\* Serials that are counted.
Counted ==
    /\ Drawn(stateSerial) \in Nat
    /\ \A x \in DOMAIN records : \A kind \in Aspects : Drawn(records[x][kind].serial) \in Nat
    /\ \A x \in DOMAIN catalog : \A kind \in Aspects : Drawn(catalog[x][kind].serial) \in Nat

\* Serials of records and catalog are counted.
LEMMA ShapeSerials == Shape => Counted
  <1> SUFFICES ASSUME Shape PROVE Counted
    OBVIOUS
  <1>1. ASSUME NEW x \in DOMAIN records, NEW kind \in Aspects PROVE records[x][kind].serial \in Serials
    <2>1. records[x] \in Record
      BY DEF Shape
    <2> QED  BY <2>1 DEF Record, State, Interaction, Aspects
  <1>2. ASSUME NEW x \in DOMAIN catalog, NEW kind \in Aspects PROVE catalog[x][kind].serial \in Serials
    <2>1. catalog[x] \in Management
      BY DEF Shape
    <2> QED  BY <2>1 DEF Management, State, Interaction, Aspects
  <1>3. stateSerial \in Serials
    BY DEF Shape
  <1> QED  BY <1>1, <1>2, <1>3, DrawnIsNatural DEF Counted

\* So are those of commands.
LEMMA CommandSerials ==
    CommandsAreFormed => \A i \in 1..Len(toServer) : toServer[i].kind \in Aspects => Drawn(toServer[i].serial) \in Nat
  <1> SUFFICES ASSUME CommandsAreFormed, NEW i \in 1..Len(toServer), toServer[i].kind \in Aspects
               PROVE  Drawn(toServer[i].serial) \in Nat
    OBVIOUS
  <1>1. toServer[i] \in Commands
    BY DEF CommandsAreFormed
  <1>2. toServer[i].serial \in Serials
    BY <1>1 DEF Commands, Aspects
  <1> QED  BY <1>2, DrawnIsNatural

\* Serials that are drawn and kept like this identify what they were drawn for.
LEMMA SerialsStep ==
    ASSUME ModelInv, Shape, Shape', CommandsAreFormed', CommandsCome, SerialsMove, CatalogComes
    PROVE  SerialsAreDrawn' /\ SerialsIdentify'
  <1>0. /\ SerialsAreDrawn /\ SerialsIdentify /\ CommandsAreFormed
    BY DEF ModelInv
  <1>1. /\ Drawn(stateSerial) \in Nat
        /\ \A x \in DOMAIN records : \A kind \in Aspects : Drawn(records[x][kind].serial) \in Nat
        /\ \A x \in DOMAIN catalog : \A kind \in Aspects : Drawn(catalog[x][kind].serial) \in Nat
    BY ShapeSerials DEF Counted
  <1>2. (Shape => Counted)'
    BY ShapeSerials, PTL
  <1>3. (CommandsAreFormed => \A i \in 1..Len(toServer) : toServer[i].kind \in Aspects => Drawn(toServer[i].serial) \in Nat)'
    BY CommandSerials, PTL
  <1>4. /\ Drawn(stateSerial)' \in Nat
        /\ \A x \in DOMAIN records' : \A kind \in Aspects : Drawn(records'[x][kind].serial) \in Nat
        /\ \A x \in DOMAIN catalog' : \A kind \in Aspects : Drawn(catalog'[x][kind].serial) \in Nat
        /\ \A i \in 1..Len(toServer') : toServer'[i].kind \in Aspects => Drawn(toServer'[i].serial) \in Nat
    BY <1>2, <1>3 DEF Counted
  <1>5. \A x \in DOMAIN records' : \A kind \in Aspects : Drawn(records'[x][kind].serial) =< Drawn(stateSerial')
    BY DEF SerialsMove, SerialsKept
  <1>6. ASSUME NEW x \in DOMAIN catalog', NEW kind \in Aspects
        PROVE  Drawn(catalog'[x][kind].serial) =< Drawn(stateSerial')
    <2>1. CASE x \in DOMAIN catalog /\ catalog'[x] = catalog[x]
      BY <1>0, <1>1, <1>4, <2>1 DEF SerialsMove, SerialsAreDrawn
    <2>2. CASE x \in DOMAIN records' /\ catalog'[x][kind].serial = records'[x][kind].serial
      BY <1>5, <2>2
    <2> QED  BY <2>1, <2>2 DEF CatalogComes
  <1>7. ASSUME NEW i \in 1..Len(toServer'), toServer'[i].kind \in Aspects
        PROVE  Drawn(toServer'[i].serial) =< Drawn(stateSerial)
    <2>1. CASE \E j \in 1..Len(toServer) : toServer'[i] = toServer[j]
      BY <1>0, <1>7, <2>1 DEF SerialsAreDrawn
    <2>2. CASE LET m == toServer'[i]
               IN m.id \in DOMAIN catalog /\ m.serial = catalog[m.id][m.kind].serial
      BY <1>0, <1>7, <2>2 DEF SerialsAreDrawn
    <2> QED  BY <1>7, <2>1, <2>2 DEF CommandsCome
  <1>8. SerialsAreDrawn'
    <2>1. Drawn(stateSerial)' = Drawn(stateSerial')
      BY DEF Drawn
    <2>2. \A i \in 1..Len(toServer') : toServer'[i].kind \in Aspects => Drawn(toServer'[i].serial) =< Drawn(stateSerial')
      BY <1>1, <1>4, <1>7, <2>1 DEF SerialsMove
    <2> QED  BY <1>5, <1>6, <2>2 DEF SerialsAreDrawn, SerialsMove, Drawn
  <1>9. ASSUME NEW x \in DOMAIN records', NEW kind \in Aspects, x \in DOMAIN catalog,
               catalog[x][kind].serial = records'[x][kind].serial
        PROVE  catalog[x].inc = records'[x].inc /\ catalog[x][kind].epoch = records'[x][kind].epoch
    <2>1. CASE Drawn(stateSerial) < Drawn(records'[x][kind].serial)
      <3>1. Drawn(catalog[x][kind].serial) =< Drawn(stateSerial)
        BY <1>0, <1>9 DEF SerialsAreDrawn
      <3> QED  BY <1>1, <1>9, <2>1, <3>1
    <2>2. CASE /\ x \in DOMAIN records /\ records'[x].inc = records[x].inc
               /\ records'[x][kind].serial = records[x][kind].serial
               /\ records'[x][kind].epoch = records[x][kind].epoch
      BY <1>0, <1>9, <2>2 DEF SerialsIdentify
    <2> QED  BY <2>1, <2>2 DEF SerialsMove, SerialsKept
  <1>10. ASSUME NEW x \in DOMAIN records', NEW kind \in Aspects, x \in DOMAIN catalog',
                catalog'[x][kind].serial = records'[x][kind].serial
         PROVE  catalog'[x].inc = records'[x].inc /\ catalog'[x][kind].epoch = records'[x][kind].epoch
    BY <1>9, <1>10 DEF CatalogComes
  <1>11. ASSUME NEW x \in DOMAIN records', NEW kind \in Aspects, NEW i \in 1..Len(toServer'),
                toServer'[i].kind = kind, toServer'[i].id = x, toServer'[i].serial = records'[x][kind].serial
         PROVE  toServer'[i].inc = records'[x].inc /\ toServer'[i].epoch = records'[x][kind].epoch
    <2>1. CASE Drawn(stateSerial) < Drawn(records'[x][kind].serial)
      <3>1. Drawn(toServer'[i].serial) =< Drawn(stateSerial)
        BY <1>7, <1>11
      <3> QED  BY <1>1, <1>4, <1>11, <2>1, <3>1
    <2>2. CASE /\ x \in DOMAIN records /\ records'[x].inc = records[x].inc
               /\ records'[x][kind].serial = records[x][kind].serial
               /\ records'[x][kind].epoch = records[x][kind].epoch
      <3>1. CASE \E j \in 1..Len(toServer) : toServer'[i] = toServer[j]
        BY <1>0, <1>11, <2>2, <3>1 DEF SerialsIdentify
      <3>2. CASE LET m == toServer'[i]
                 IN /\ m.id \in DOMAIN catalog /\ m.serial = catalog[m.id][m.kind].serial
                    /\ m.epoch = catalog[m.id][m.kind].epoch /\ m.inc = catalog[m.id].inc
        BY <1>9, <1>11, <3>2
      <3> QED  BY <1>11, <3>1, <3>2 DEF CommandsCome
    <2> QED  BY <2>1, <2>2 DEF SerialsMove, SerialsKept
  <1>12. SerialsIdentify'
    BY <1>10, <1>11 DEF SerialsIdentify
  <1> QED  BY <1>8, <1>12

-----------------------------------------------------------------------------
(* What a step does to windows, records and catalog *)

\* SessionsAreApart, but for the commands in flight.
RecordsAreApart ==
    /\ link \in {"down", "up"} => /\ ~observing
                                  /\ \A x \in DOMAIN records : ~records[x].published
                                  /\ \A d \in dead : ~d.published
    /\ link # "observed" => DOMAIN catalog = {}

\* The part of the invariant about windows, records and catalog.
CoreInv ==
    /\ Shape
    /\ RecordsAreCurrent
    /\ AtomsShowConfirmedState
    /\ RecordsAreApart
    /\ PublishedIsKnown
    /\ CleanIsPublished

\* What every step does to windows, records and catalog.
CoreStep == CoreInv' /\ SerialsMove /\ CatalogComes

\* The invariant has that part.
LEMMA CoreHolds == ModelInv => CoreInv
  BY DEF ModelInv, CoreInv, TypeOK, Shape, SessionsAreApart, RecordsAreApart

\* A step that changes no record, serial or window.
LEMMA QuietCore ==
    ASSUME ModelInv, UNCHANGED <<window, records, dead, dirty, observing, managed, stateSerial, catalog, doubtful>>,
           link' = link \/ (link = "down" /\ link' = "up") \/ (link = "up" /\ link' = "observed")
    PROVE  CoreStep
  <1>0. CoreInv /\ SerialsAreDrawn /\ Shape
    BY CoreHolds DEF ModelInv, CoreInv
  <1>1. SerialsMove
    <2>1. Drawn(stateSerial) \in Nat
      BY <1>0, ShapeSerials DEF Counted
    <2>2. \A x \in DOMAIN records' : SerialsKept(x, records'[x], stateSerial')
      BY <1>0 DEF SerialsKept, SerialsAreDrawn
    <2> QED  BY <1>0, <2>1, <2>2 DEF SerialsMove, SerialsAreDrawn
  <1>2. CatalogComes
    BY DEF CatalogComes
  <1>3. Shape' /\ RecordsAreCurrent' /\ AtomsShowConfirmedState' /\ CleanIsPublished'
    BY <1>0 DEF CoreInv, Shape, RecordsAreCurrent, AtomsShowConfirmedState, CleanIsPublished, Stale
  <1>4. RecordsAreApart'
    BY <1>0 DEF CoreInv, RecordsAreApart
  <1>5. PublishedIsKnown'
    <2>1. CASE link' = link
      BY <1>0, <2>1 DEF CoreInv, PublishedIsKnown, Sent
    <2>2. CASE link = "down" /\ link' = "up"
      BY <1>0, <2>2 DEF CoreInv, PublishedIsKnown, Sent
    <2>3. CASE link = "up" /\ link' = "observed"
      BY <1>0, <2>3 DEF CoreInv, PublishedIsKnown, RecordsAreApart
    <2> QED  BY <2>1, <2>2, <2>3
  <1> QED  BY <1>1, <1>2, <1>3, <1>4, <1>5 DEF CoreStep, CoreInv

\* The refresh is due and the host is told nothing: only the records count.
LEMMA MarkedCore ==
    ASSUME ModelInv, Shape', RecordsAreCurrent', AtomsShowConfirmedState', SerialsMove,
           UNCHANGED <<dead, observing, managed, link, catalog, doubtful>>,
           dirty' = TRUE, DOMAIN records' = DOMAIN records,
           \A x \in DOMAIN records : /\ records'[x].published = records[x].published
                                     /\ records'[x].changed \/ Sent(x, records[x])' = Sent(x, records[x])
                                     /\ records[x].changed => records'[x].changed
    PROVE  CoreStep
  <1>0. CoreInv
    BY CoreHolds
  <1>1. CatalogComes
    BY DEF CatalogComes
  <1>2. RecordsAreApart'
    BY <1>0 DEF CoreInv, RecordsAreApart
  <1>3. CleanIsPublished'
    BY DEF CleanIsPublished
  <1>4. PublishedIsKnown'
    BY <1>0 DEF CoreInv, PublishedIsKnown
  <1> QED  BY <1>1, <1>2, <1>3, <1>4 DEF CoreStep, CoreInv

\* A handler that amends a record keeps the invariant.
LEMMA AmendsCore ==
    ASSUME ModelInv, NEW x \in Windows, Amends(x)
    PROVE  CoreStep
  <1>0. CoreInv /\ Shape /\ Found(x) /\ Dressed(x) /\ SerialsAreDrawn
    BY CoreHolds DEF ModelInv, CoreInv, Amends
  <1>1. PICK r \in Record, k \in Nat :
          Update(x, r, k) /\ Amended(x, RecordFor(x), r, k) /\ Shows(window'[x].atoms, r)
    BY DEF Amends
  <1>2. UNCHANGED <<dead, observing, managed, link, catalog, doubtful>>
    BY DEF Amends
  <1>3. Allocated + k + (IF x \in DOMAIN records THEN 0 ELSE 3) =< MaxSerials
    BY <1>1 DEF Update
  <1> DEFINE o == RecordFor(x)
             s == SerialFor(x)
  <1>4. /\ o \in Record /\ o.inc = window[x].inc
        /\ s \in Serials /\ Drawn(s) \in Nat /\ Drawn(stateSerial) =< Drawn(s) /\ Drawn(s) + k =< MaxSerials
        /\ SerialsKept(x, o, s)
        /\ x \notin DOMAIN records => ~o.published
        /\ x \in DOMAIN window
    BY <1>0, <1>3, ObtainedFacts
  <1>5. /\ x \in DOMAIN records => o = records[x]
        /\ stateSerial' = SerialAfter(s, k) /\ records' = With(records, x, r)
        /\ Amended(x, o, r, k)
    BY <1>1 DEF RecordFor, Update
  <1>6. /\ DOMAIN records' = DOMAIN records \cup {x} /\ records'[x] = r
        /\ \A y \in DOMAIN records : y # x => records'[y] = records[y]
    BY <1>5 DEF With
  <1>7. stateSerial' \in Serials /\ Drawn(stateSerial') = Drawn(s) + k
    BY <1>4, <1>5, SerialsAdvance
  <1>8. Shape'
    BY <1>0, <1>2, <1>4, <1>6, <1>7 DEF Shape, Dressed
  <1>9. RecordsAreCurrent'
    <2>1. r.inc = o.inc
      BY <1>5 DEF Amended
    <2> QED  BY <1>0, <1>2, <1>4, <1>6, <2>1 DEF CoreInv, RecordsAreCurrent, Dressed, Shape
  <1>10. AtomsShowConfirmedState'
    <2>1. ASSUME NEW y \in DOMAIN records' PROVE Shows(window'[y].atoms, records'[y])
      <3>1. CASE y = x
        BY <1>1, <1>6, <3>1
      <3>2. CASE y # x
        <4>1. y \in DOMAIN records /\ records'[y] = records[y] /\ window'[y] = window[y]
          BY <1>0, <1>6, <3>2 DEF Shape, Dressed
        <4>2. Shows(window[y].atoms, records[y])
          BY <1>0, <4>1, AtomsShown DEF CoreInv
        <4> QED  BY <4>1, <4>2
      <3> QED  BY <3>1, <3>2
    <2> QED  BY <2>1 DEF AtomsShowConfirmedState, Shows
  <1>11. SerialsMove
    <2>0. Drawn(stateSerial) \in Nat
      BY <1>0, ShapeSerials DEF Counted
    <2>1. Drawn(stateSerial) =< Drawn(stateSerial') /\ Drawn(stateSerial') =< MaxSerials
      BY <1>4, <1>7, <2>0, Ring
    <2>2. ASSUME NEW kind \in Aspects
          PROVE  /\ Drawn(r[kind].serial) =< Drawn(stateSerial')
                 /\ \/ Drawn(stateSerial) < Drawn(r[kind].serial)
                    \/ /\ x \in DOMAIN records /\ r.inc = records[x].inc
                       /\ r[kind].serial = records[x][kind].serial
                       /\ r[kind].epoch = records[x][kind].epoch
      <3>1. CASE r[kind].serial = o[kind].serial /\ r[kind].epoch = o[kind].epoch
        <4>1. o[kind].serial \in Serials
          BY <1>4 DEF Record, State, Interaction, Aspects
        <4>2. Drawn(o[kind].serial) \in Nat
          BY <4>1, DrawnIsNatural
        <4>3. r.inc = o.inc
          BY <1>5 DEF Amended
        <4> QED  BY <1>4, <1>7, <3>1, <4>2, <4>3 DEF SerialsKept
      <3>2. ASSUME NEW j \in 1..k, r[kind].serial = SerialAfter(s, j)
            PROVE  Drawn(r[kind].serial) =< Drawn(stateSerial') /\ Drawn(stateSerial) < Drawn(r[kind].serial)
        <4>1. j \in Nat /\ Drawn(s) + j =< MaxSerials
          BY <1>4, Ring
        <4>2. Drawn(SerialAfter(s, j)) = Drawn(s) + j
          BY <1>4, <4>1, SerialsAdvance
        <4> HIDE DEF s
        <4> QED  BY <1>4, <1>7, <2>0, <3>2, <4>2
      <3> QED  BY <1>5, <3>1, <3>2 DEF Amended
    <2>3. ASSUME NEW y \in DOMAIN records' PROVE SerialsKept(y, records'[y], stateSerial')
      <3>1. CASE y = x
        BY <1>6, <2>2, <3>1 DEF SerialsKept
      <3>2. CASE y # x
        <4>1. y \in DOMAIN records /\ records'[y] = records[y]
          BY <1>6, <3>2
        <4>2. \A kind \in Aspects : /\ Drawn(records[y][kind].serial) =< Drawn(stateSerial)
                                    /\ Drawn(records[y][kind].serial) \in Nat
          BY <1>0, <4>1, ShapeSerials DEF SerialsAreDrawn, Counted
        <4>3. Drawn(stateSerial') \in Nat
          BY <1>4, <1>7
        <4> QED  BY <2>0, <2>1, <4>1, <4>2, <4>3 DEF SerialsKept
      <3> QED  BY <3>1, <3>2
    <2> QED  BY <2>1, <2>3 DEF SerialsMove
  <1>12. CatalogComes
    BY <1>2 DEF CatalogComes
  <1>13. r.published = o.published /\ r.mapped = o.mapped /\ r.title = o.title
    BY <1>5 DEF Amended
  <1> HIDE DEF o, s
  <1>14. RecordsAreApart'
    BY <1>0, <1>2, <1>4, <1>5, <1>6, <1>13 DEF CoreInv, RecordsAreApart
  <1>15. PublishedIsKnown'
    <2>1. ASSUME NEW y \in DOMAIN records', link = "observed", records'[y].published
          PROVE  /\ y \in DOMAIN catalog /\ y \notin doubtful
                 /\ ~records'[y].changed => catalog[y] = Sent(y, records[y])'
      <3>1. CASE y # x
        <4>1. y \in DOMAIN records /\ records'[y] = records[y] /\ window'[y] = window[y]
          BY <1>0, <1>6, <3>1 DEF Shape, Dressed
        <4> QED  BY <1>0, <1>2, <2>1, <4>1 DEF CoreInv, PublishedIsKnown, Sent
      <3>2. CASE y = x
        <4>1. x \in DOMAIN records /\ o = records[x] /\ records[x].published
          BY <1>4, <1>5, <1>6, <1>13, <2>1, <3>2
        <4>2. /\ x \in DOMAIN catalog /\ x \notin doubtful
              /\ ~records[x].changed => catalog[x] = Sent(x, records[x])
          BY <1>0, <2>1, <4>1 DEF CoreInv, PublishedIsKnown
        <4>3. ASSUME ~r.changed PROVE ~records[x].changed /\ Sent(x, records[x])' = Sent(x, records[x])
          <5>1. /\ r.changed = o.changed
                /\ r.fullscreen = o.fullscreen /\ r.maximized = o.maximized /\ r.interaction = o.interaction
            BY <1>5, <4>3 DEF Amended
          <5>2. window'[x].inc = window[x].inc /\ window'[x].size = window[x].size
            BY <1>0, <1>4 DEF Dressed
          <5> QED  BY <1>2, <1>6, <1>13, <4>1, <4>3, <5>1, <5>2 DEF Sent
        <4> QED  BY <1>6, <3>2, <4>2, <4>3
      <3> QED  BY <3>1, <3>2
    <2>2. ASSUME NEW y \in DOMAIN catalog \ doubtful
          PROVE  \/ y \in DOMAIN records' /\ records'[y].published
                 \/ \E d \in dead : d.id = y /\ d.published
      BY <1>0, <1>5, <1>6, <1>13 DEF CoreInv, PublishedIsKnown
    <2>3. ASSUME NEW d \in dead, d.published, d.id \in DOMAIN records' PROVE ~records'[d.id].published
      BY <1>0, <1>4, <1>5, <1>6, <1>13, <2>3 DEF CoreInv, PublishedIsKnown
    <2> QED  BY <1>2, <2>1, <2>2, <2>3 DEF PublishedIsKnown
  <1>16. CleanIsPublished'
    <2> SUFFICES ASSUME ~dirty' PROVE CleanIsPublished'
      BY DEF CleanIsPublished
    <2>1. /\ r.changed = o.changed /\ dirty' = dirty
      BY <1>5 DEF Amended
    <2>2. x \in DOMAIN records /\ o = records[x]
      BY <1>0, <1>5, <2>1 DEF CoreInv, CleanIsPublished, Found
    <2>3. ASSUME NEW y \in DOMAIN records' PROVE ~Stale(y, records[y])'
      <3>1. y \in DOMAIN records /\ ~Stale(y, records[y])
        BY <1>0, <1>6, <2>1, <2>2 DEF CoreInv, CleanIsPublished
      <3>2. window'[y].realized = window[y].realized /\ window'[y].title = window[y].title
        BY <1>0, <3>1 DEF Dressed, Shape
      <3>3. CASE y = x
        BY <1>6, <1>13, <2>1, <2>2, <3>1, <3>2, <3>3 DEF Stale
      <3>4. CASE y # x
        BY <1>6, <3>1, <3>2, <3>4 DEF Stale
      <3> QED  BY <3>3, <3>4
    <2> QED  BY <1>0, <1>2, <1>6, <2>1, <2>3 DEF CoreInv, CleanIsPublished, Dressed
  <1> QED  BY <1>8, <1>9, <1>10, <1>11, <1>12, <1>14, <1>15, <1>16 DEF CoreStep, CoreInv

\* Serials that k draws leave: a record has those it had, or some of the new ones.
LEMMA SerialsDrawn ==
    ASSUME ModelInv, NEW k \in Nat, Drawn(stateSerial) + k =< MaxSerials, stateSerial' = SerialAfter(stateSerial, k),
           \A x \in DOMAIN records' : \A kind \in Aspects :
              \/ /\ x \in DOMAIN records /\ records'[x].inc = records[x].inc
                 /\ records'[x][kind].serial = records[x][kind].serial
                 /\ records'[x][kind].epoch = records[x][kind].epoch
              \/ /\ Drawn(stateSerial) < Drawn(records'[x][kind].serial)
                 /\ Drawn(records'[x][kind].serial) =< Drawn(stateSerial) + k
    PROVE  SerialsMove /\ stateSerial' \in Serials
  <1>0. Shape /\ SerialsAreDrawn /\ stateSerial \in Serials
    BY CoreHolds DEF ModelInv, CoreInv, Shape
  <1>1. /\ Drawn(stateSerial) \in Nat
        /\ \A x \in DOMAIN records : \A kind \in Aspects : Drawn(records[x][kind].serial) \in Nat
    BY <1>0, ShapeSerials DEF Counted
  <1>2. stateSerial' \in Serials /\ Drawn(stateSerial') = Drawn(stateSerial) + k
    BY <1>0, SerialsAdvance
  <1>3. ASSUME NEW x \in DOMAIN records' PROVE SerialsKept(x, records'[x], stateSerial')
    <2>1. ASSUME NEW kind \in Aspects
          PROVE  /\ Drawn(records'[x][kind].serial) =< Drawn(stateSerial')
                 /\ \/ Drawn(stateSerial) < Drawn(records'[x][kind].serial)
                    \/ /\ x \in DOMAIN records /\ records'[x].inc = records[x].inc
                       /\ records'[x][kind].serial = records[x][kind].serial
                       /\ records'[x][kind].epoch = records[x][kind].epoch
      <3>1. CASE /\ x \in DOMAIN records /\ records'[x].inc = records[x].inc
                 /\ records'[x][kind].serial = records[x][kind].serial
                 /\ records'[x][kind].epoch = records[x][kind].epoch
        <4>1. Drawn(records[x][kind].serial) =< Drawn(stateSerial) /\ Drawn(records[x][kind].serial) \in Nat
          BY <1>0, <1>1, <3>1 DEF SerialsAreDrawn
        <4> QED  BY <1>1, <1>2, <3>1, <4>1
      <3>2. CASE /\ Drawn(stateSerial) < Drawn(records'[x][kind].serial)
                 /\ Drawn(records'[x][kind].serial) =< Drawn(stateSerial) + k
        BY <1>2, <3>2
      <3> QED  BY <3>1, <3>2
    <2> QED  BY <2>1 DEF SerialsKept
  <1> QED  BY <1>1, <1>2, <1>3, Ring DEF SerialsMove

\* No serial is drawn, and every record keeps its own.
LEMMA SerialsStay ==
    ASSUME ModelInv, stateSerial' = stateSerial,
           \A x \in DOMAIN records' : \A kind \in Aspects :
              /\ x \in DOMAIN records /\ records'[x].inc = records[x].inc
              /\ records'[x][kind].serial = records[x][kind].serial
              /\ records'[x][kind].epoch = records[x][kind].epoch
    PROVE  SerialsMove /\ stateSerial' \in Serials
  <1>1. SerialAfter(stateSerial, 0) = stateSerial
    BY DEF SerialAfter
  <1>2. Drawn(stateSerial) + 0 =< MaxSerials
    <2>1. Drawn(stateSerial) \in Nat /\ Drawn(stateSerial) =< MaxSerials
      BY CoreHolds, ShapeSerials DEF ModelInv, CoreInv, Counted, SerialsAreDrawn
    <2> QED  BY <2>1
  <1> QED  BY <1>1, <1>2, SerialsDrawn

\* A client makes a window.
LEMMA CreateCore ==
    ASSUME ModelInv, NEW x \in Windows, CreateWindow(x)
    PROVE  CoreStep
  <1>0. CoreInv /\ Shape /\ x \notin DOMAIN window /\ x \notin DOMAIN records
    BY CoreHolds DEF CoreInv, Shape, CreateWindow
  <1>1. PICK look \in Looks :
          LET drawn == IF managed /\ look.hints # {} THEN Cardinality({d \in dead : d.id = x}) ELSE 0
          IN /\ window' = With(window, x,
                    [inc |-> left["windows"], realized |-> FALSE, application |-> TRUE,
                     title |-> FALSE, size |-> FALSE, hints |-> look.hints, atoms |-> look.atoms])
             /\ Allocated + drawn =< MaxSerials
             /\ stateSerial' = SerialAfter(stateSerial, drawn)
    BY DEF CreateWindow
  <1> DEFINE k == IF managed /\ look.hints # {} THEN Cardinality({d \in dead : d.id = x}) ELSE 0
             w == [inc |-> left["windows"], realized |-> FALSE, application |-> TRUE,
                   title |-> FALSE, size |-> FALSE, hints |-> look.hints, atoms |-> look.atoms]
  <1>2. /\ window' = With(window, x, w) /\ Drawn(stateSerial) + k =< MaxSerials
        /\ stateSerial' = SerialAfter(stateSerial, k) /\ dirty' = TRUE
        /\ UNCHANGED <<records, dead, observing, managed, link, catalog, doubtful>>
    BY <1>1 DEF CreateWindow, Allocated, Drawn
  <1>3. k \in Nat
    <2> DEFINE D == {d \in dead : d.id = x}
    <2>1. IsFiniteSet(D)
      <3>1. IsFiniteSet(dead) /\ D \subseteq dead
        BY DEF ModelInv, RecordsAreCurrent
      <3> HIDE DEF D
      <3> QED  BY <3>1, FS_Subset
    <2>2. Cardinality(D) \in Nat
      <3> HIDE DEF D
      <3> QED  BY <2>1, FS_CardinalityType
    <2> QED  BY <2>2
  <1>4. w \in Window
    <2>1. left["windows"] \in Nat
      BY DEF ModelInv, TypeOK, Kinds
    <2>2. look.hints \in SUBSET {"urgent", "iconic"} /\ look.atoms \in SUBSET Atoms
      BY ConstantsAssumption
    <2> QED  BY <2>1, <2>2 DEF Window
  <1> HIDE DEF k, w
  <1>5. /\ DOMAIN window' = DOMAIN window \cup {x} /\ window'[x] = w
        /\ \A y \in DOMAIN window : window'[y] = window[y]
    BY <1>0, <1>2 DEF With
  <1>6. SerialsMove /\ stateSerial' \in Serials
    BY <1>2, <1>3, SerialsDrawn
  <1>7. Shape'
    BY <1>0, <1>2, <1>4, <1>5, <1>6 DEF Shape
  <1>8. RecordsAreCurrent'
    <2>1. IsFiniteSet(DOMAIN window')
      BY <1>0, <1>5, FS_AddElement DEF CoreInv, RecordsAreCurrent
    <2> QED  BY <1>0, <1>2, <1>5, <2>1 DEF CoreInv, RecordsAreCurrent, Shape
  <1>9. AtomsShowConfirmedState'
    BY <1>0, <1>2, <1>5 DEF CoreInv, AtomsShowConfirmedState, Shape
  <1>10. \A y \in DOMAIN records : Sent(y, records[y])' = Sent(y, records[y])
    BY <1>0, <1>2, <1>5 DEF Sent, Shape
  <1> QED  BY <1>2, <1>6, <1>7, <1>8, <1>9, <1>10, MarkedCore

\* One window changes in a field that its record does not show.
EditedAt(x) ==
    /\ DOMAIN window' = DOMAIN window
    /\ \A y \in DOMAIN window :
          /\ window'[y] \in Window /\ window'[y].inc = window[y].inc /\ window'[y].atoms = window[y].atoms
          /\ y # x => window'[y] = window[y]

\* What a client edits in a window its record does not show.
LEMMA EditedFacts ==
    ASSUME TypeOK, NEW x \in DOMAIN window,
           \/ window' = [window EXCEPT ![x].realized = ~@]
           \/ window' = [window EXCEPT ![x].application = ~@]
           \/ window' = [window EXCEPT ![x].title = ~@]
           \/ window' = [window EXCEPT ![x].size = ~@]
           \/ \E hints \in SUBSET {"urgent", "iconic"} : window' = [window EXCEPT ![x].hints = hints]
    PROVE  /\ EditedAt(x)
           /\ window' # [window EXCEPT ![x].size = ~@] => window'[x].size = window[x].size
  <1>0. \A y \in DOMAIN window : window[y] \in Window
    BY DEF TypeOK
  <1>1. CASE window' = [window EXCEPT ![x].realized = ~@]
    <2>1. /\ DOMAIN window' = DOMAIN window /\ window'[x] = [window[x] EXCEPT !.realized = ~@]
          /\ \A y \in DOMAIN window : y # x => window'[y] = window[y]
      BY <1>1
    <2>2. /\ window'[x] \in Window /\ window'[x].inc = window[x].inc /\ window'[x].atoms = window[x].atoms
          /\ window'[x].size = window[x].size
      BY <1>0, <2>1 DEF Window
    <2> QED  BY <1>0, <2>1, <2>2 DEF EditedAt
  <1>2. CASE window' = [window EXCEPT ![x].application = ~@]
    <2>1. /\ DOMAIN window' = DOMAIN window /\ window'[x] = [window[x] EXCEPT !.application = ~@]
          /\ \A y \in DOMAIN window : y # x => window'[y] = window[y]
      BY <1>2
    <2>2. /\ window'[x] \in Window /\ window'[x].inc = window[x].inc /\ window'[x].atoms = window[x].atoms
          /\ window'[x].size = window[x].size
      BY <1>0, <2>1 DEF Window
    <2> QED  BY <1>0, <2>1, <2>2 DEF EditedAt
  <1>3. CASE window' = [window EXCEPT ![x].title = ~@]
    <2>1. /\ DOMAIN window' = DOMAIN window /\ window'[x] = [window[x] EXCEPT !.title = ~@]
          /\ \A y \in DOMAIN window : y # x => window'[y] = window[y]
      BY <1>3
    <2>2. /\ window'[x] \in Window /\ window'[x].inc = window[x].inc /\ window'[x].atoms = window[x].atoms
          /\ window'[x].size = window[x].size
      BY <1>0, <2>1 DEF Window
    <2> QED  BY <1>0, <2>1, <2>2 DEF EditedAt
  <1>4. CASE window' = [window EXCEPT ![x].size = ~@]
    <2>1. /\ DOMAIN window' = DOMAIN window /\ window'[x] = [window[x] EXCEPT !.size = ~@]
          /\ \A y \in DOMAIN window : y # x => window'[y] = window[y]
      BY <1>4
    <2>2. /\ window'[x] \in Window /\ window'[x].inc = window[x].inc /\ window'[x].atoms = window[x].atoms
      BY <1>0, <2>1 DEF Window
    <2> QED  BY <1>0, <1>4, <2>1, <2>2 DEF EditedAt
  <1>5. ASSUME NEW hints \in SUBSET {"urgent", "iconic"}, window' = [window EXCEPT ![x].hints = hints]
        PROVE  EditedAt(x) /\ window'[x].size = window[x].size
    <2>1. /\ DOMAIN window' = DOMAIN window /\ window'[x] = [window[x] EXCEPT !.hints = hints]
          /\ \A y \in DOMAIN window : y # x => window'[y] = window[y]
      BY <1>5
    <2>2. /\ window'[x] \in Window /\ window'[x].inc = window[x].inc /\ window'[x].atoms = window[x].atoms
          /\ window'[x].size = window[x].size
      BY <1>0, <2>1 DEF Window
    <2> QED  BY <1>0, <2>1, <2>2 DEF EditedAt
  <1> QED  BY <1>1, <1>2, <1>3, <1>4, <1>5

\* onRealize, onUnrealize, and propertyChanged for what the refresh compares.
LEMMA EditCore ==
    ASSUME ModelInv, NEW x \in Windows, onRealize(x) \/ propertyChanged(x)
    PROVE  CoreStep
  <1>0. CoreInv /\ Shape /\ TypeOK
    BY CoreHolds DEF CoreInv, ModelInv
  <1>1. /\ x \in DOMAIN window /\ dirty' = TRUE /\ stateSerial' = stateSerial
        /\ UNCHANGED <<records, dead, observing, managed, link, catalog, doubtful>>
    BY DEF onRealize, propertyChanged
  <1>2. /\ EditedAt(x) /\ window'[x].size = window[x].size
    <2>1. CASE window' = [window EXCEPT ![x].realized = ~@]
      <3>1. /\ window'[x] = [window[x] EXCEPT !.realized = ~@] /\ window[x] \in Window
        BY <1>0, <1>1, <2>1 DEF Shape
      <3> QED  BY <1>0, <1>1, <2>1, <3>1, EditedFacts DEF Window
    <2>2. CASE window' = [window EXCEPT ![x].application = ~@]
      <3>1. /\ window'[x] = [window[x] EXCEPT !.application = ~@] /\ window[x] \in Window
        BY <1>0, <1>1, <2>2 DEF Shape
      <3> QED  BY <1>0, <1>1, <2>2, <3>1, EditedFacts DEF Window
    <2>3. CASE window' = [window EXCEPT ![x].title = ~@]
      <3>1. /\ window'[x] = [window[x] EXCEPT !.title = ~@] /\ window[x] \in Window
        BY <1>0, <1>1, <2>3 DEF Shape
      <3> QED  BY <1>0, <1>1, <2>3, <3>1, EditedFacts DEF Window
    <2> QED  BY <2>1, <2>2, <2>3 DEF onRealize, propertyChanged
  <1>3. SerialsMove /\ stateSerial' \in Serials
    BY <1>1, SerialsStay
  <1>4. Shape'
    BY <1>0, <1>1, <1>2, <1>3 DEF Shape, EditedAt
  <1>5. RecordsAreCurrent'
    BY <1>0, <1>1, <1>2 DEF CoreInv, RecordsAreCurrent, Shape, EditedAt
  <1>6. AtomsShowConfirmedState'
    BY <1>0, <1>1, <1>2 DEF CoreInv, AtomsShowConfirmedState, Shape, EditedAt
  <1>7. \A y \in DOMAIN records : Sent(y, records[y])' = Sent(y, records[y])
    BY <1>0, <1>1, <1>2 DEF Sent, Shape, EditedAt
  <1> QED  BY <1>1, <1>3, <1>4, <1>5, <1>6, <1>7, MarkedCore

\* onPosition marks the record of the window.
LEMMA PositionCore ==
    ASSUME ModelInv, NEW x \in Windows, onPosition(x)
    PROVE  CoreStep
  <1>0. CoreInv /\ Shape /\ TypeOK
    BY CoreHolds DEF CoreInv, ModelInv
  <1>1. /\ x \in DOMAIN window /\ dirty' = TRUE /\ stateSerial' = stateSerial
        /\ window' = [window EXCEPT ![x].size = ~@]
        /\ records' = [y \in DOMAIN records |-> IF y = x THEN [records[y] EXCEPT !.changed = TRUE] ELSE records[y]]
        /\ UNCHANGED <<dead, observing, managed, link, catalog, doubtful>>
    BY DEF onPosition
  <1>2. EditedAt(x)
    BY <1>0, <1>1, EditedFacts
  <1>3. DOMAIN records' = DOMAIN records
    BY <1>1
  <1>4. ASSUME NEW y \in DOMAIN records
        PROVE  /\ records'[y] \in Record /\ records'[y].inc = records[y].inc
               /\ records'[y].mapped = records[y].mapped /\ records'[y].title = records[y].title
               /\ records'[y].published = records[y].published
               /\ records'[y].fullscreen = records[y].fullscreen /\ records'[y].maximized = records[y].maximized
               /\ records'[y].interaction = records[y].interaction
               /\ records[y].changed => records'[y].changed
               /\ y = x => records'[y].changed
    <2>1. records[y] \in Record
      BY <1>0 DEF Shape
    <2>2. CASE y = x
      <3>1. records'[y] = [records[y] EXCEPT !.changed = TRUE]
        BY <1>1, <2>2
      <3> QED  BY <2>1, <2>2, <3>1 DEF Record
    <2>3. CASE y # x
      <3>1. records'[y] = records[y]
        BY <1>1, <2>3
      <3> QED  BY <2>1, <2>3, <3>1
    <2> QED  BY <2>2, <2>3
  <1>5. SerialsMove /\ stateSerial' \in Serials
    <2>1. \A y \in DOMAIN records' : \A kind \in Aspects :
              /\ y \in DOMAIN records /\ records'[y].inc = records[y].inc
              /\ records'[y][kind].serial = records[y][kind].serial
              /\ records'[y][kind].epoch = records[y][kind].epoch
      BY <1>3, <1>4 DEF Aspects
    <2> QED  BY <1>1, <2>1, SerialsStay
  <1>6. Shape'
    BY <1>0, <1>1, <1>2, <1>3, <1>4, <1>5 DEF Shape, EditedAt
  <1>7. RecordsAreCurrent'
    BY <1>0, <1>1, <1>2, <1>3, <1>4 DEF CoreInv, RecordsAreCurrent, Shape, EditedAt
  <1>8. AtomsShowConfirmedState'
    BY <1>0, <1>1, <1>2, <1>3, <1>4 DEF CoreInv, AtomsShowConfirmedState, Shape, EditedAt
  <1>9. \A y \in DOMAIN records : y # x => Sent(y, records[y])' = Sent(y, records[y])
    BY <1>0, <1>1, <1>2, <1>4 DEF Sent, Shape, EditedAt
  <1> QED  BY <1>1, <1>3, <1>4, <1>5, <1>6, <1>7, <1>8, <1>9, MarkedCore

\* managerChanged marks every record.
LEMMA ManagerCore ==
    ASSUME ModelInv, managerChanged
    PROVE  CoreStep
  <1>0. CoreInv /\ Shape /\ TypeOK
    BY CoreHolds DEF CoreInv, ModelInv
  <1>1. /\ dirty' = TRUE
        /\ records' = [y \in DOMAIN records |-> [records[y] EXCEPT !.changed = TRUE]]
        /\ UNCHANGED <<window, stateSerial, dead, observing, link, catalog, doubtful>>
    BY DEF managerChanged
  <1>3. DOMAIN records' = DOMAIN records
    BY <1>1
  <1>4. ASSUME NEW y \in DOMAIN records
        PROVE  /\ records'[y] \in Record /\ records'[y].inc = records[y].inc
               /\ records'[y].published = records[y].published
               /\ records'[y].fullscreen = records[y].fullscreen /\ records'[y].maximized = records[y].maximized
               /\ records'[y].interaction = records[y].interaction
               /\ records'[y].changed
    <2>1. records[y] \in Record
      BY <1>0 DEF Shape
    <2>2. records'[y] = [records[y] EXCEPT !.changed = TRUE]
      BY <1>1
    <2> QED  BY <2>1, <2>2 DEF Record
  <1>5. SerialsMove /\ stateSerial' \in Serials
    <2>1. \A y \in DOMAIN records' : \A kind \in Aspects :
              /\ y \in DOMAIN records /\ records'[y].inc = records[y].inc
              /\ records'[y][kind].serial = records[y][kind].serial
              /\ records'[y][kind].epoch = records[y][kind].epoch
      BY <1>3, <1>4 DEF Aspects
    <2> QED  BY <1>1, <2>1, SerialsStay
  <1>6. Shape'
    BY <1>0, <1>1, <1>3, <1>4, <1>5 DEF Shape
  <1>7. RecordsAreCurrent'
    BY <1>0, <1>1, <1>3, <1>4 DEF CoreInv, RecordsAreCurrent
  <1>8. AtomsShowConfirmedState'
    BY <1>0, <1>1, <1>3, <1>4 DEF CoreInv, AtomsShowConfirmedState
  <1>9. RecordsAreApart' /\ CleanIsPublished'
    BY <1>0, <1>1, <1>3, <1>4 DEF CoreInv, RecordsAreApart, CleanIsPublished
  <1>10. PublishedIsKnown'
    BY <1>0, <1>1, <1>3, <1>4 DEF CoreInv, PublishedIsKnown
  <1>11. CatalogComes
    BY <1>1 DEF CatalogComes
  <1> QED  BY <1>5, <1>6, <1>7, <1>8, <1>9, <1>10, <1>11 DEF CoreStep, CoreInv

\* hintsChanged gives the record of the window a new serial.
LEMMA HintsCore ==
    ASSUME ModelInv, NEW x \in Windows, hintsChanged(x)
    PROVE  CoreStep
  <1> DEFINE D == {d \in dead : d.id = x}
             L == {x} \cap DOMAIN records
             k == IF managed THEN Cardinality(D) + Cardinality(L) ELSE 0
  <1>0. CoreInv /\ Shape /\ TypeOK
    BY CoreHolds DEF CoreInv, ModelInv
  <1>1. /\ x \in DOMAIN window /\ dirty' = TRUE /\ stateSerial' = SerialAfter(stateSerial, k)
        /\ Drawn(stateSerial) + k =< MaxSerials
        /\ UNCHANGED <<dead, observing, managed, link, catalog, doubtful>>
    BY DEF hintsChanged, Allocated, Drawn
  <1>2. PICK hints \in SUBSET {"urgent", "iconic"} :
             /\ window' = [window EXCEPT ![x].hints = hints]
             /\ records' = [y \in DOMAIN records |->
                   IF y = x /\ managed
                   THEN [records[y] EXCEPT
                            !.interaction = AskInteraction(@, "none", "urgent" \in hints, SerialAfter(stateSerial, 1)),
                            !.changed = TRUE]
                   ELSE records[y]]
    BY DEF hintsChanged
  <1>3. k \in Nat /\ (managed /\ x \in DOMAIN records => k >= 1)
    <2>1. IsFiniteSet(D)
      <3>1. IsFiniteSet(dead) /\ D \subseteq dead
        BY DEF ModelInv, RecordsAreCurrent
      <3> HIDE DEF D
      <3> QED  BY <3>1, FS_Subset
    <2>2. Cardinality(D) \in Nat
      <3> HIDE DEF D
      <3> QED  BY <2>1, FS_CardinalityType
    <2>3. CASE x \in DOMAIN records
      <3>1. L = {x}
        BY <2>3
      <3>2. Cardinality(L) = 1
        BY <3>1, FS_Singleton
      <3> HIDE DEF L, D
      <3> QED  BY <2>2, <3>2
    <2>4. CASE x \notin DOMAIN records
      <3>1. L = {}
        BY <2>4
      <3>2. Cardinality(L) = 0
        BY <3>1, FS_EmptySet
      <3> HIDE DEF L, D
      <3> QED  BY <2>2, <2>4, <3>2
    <2> QED  BY <2>3, <2>4
  <1> HIDE DEF k, D, L
  <1>4. EditedAt(x) /\ \A y \in DOMAIN window : window'[y].size = window[y].size
    <2>1. window'[x] = [window[x] EXCEPT !.hints = hints] /\ window[x] \in Window
      BY <1>0, <1>1, <1>2 DEF Shape
    <2>2. window'[x].size = window[x].size
      BY <2>1 DEF Window
    <2>3. EditedAt(x)
      BY <1>0, <1>1, <1>2, EditedFacts
    <2> QED  BY <2>2, <2>3 DEF EditedAt
  <1>5. DOMAIN records' = DOMAIN records
    BY <1>2
  <1>6. ASSUME x \in DOMAIN records, managed
        PROVE  /\ SerialAfter(stateSerial, 1) \in Serials
               /\ Drawn(SerialAfter(stateSerial, 1)) = Drawn(stateSerial) + 1
               /\ Drawn(stateSerial) \in Nat
    <2>1. Drawn(stateSerial) \in Nat /\ stateSerial \in Serials
      BY <1>0, ShapeSerials DEF Counted, Shape
    <2>2. Drawn(stateSerial) + 1 =< MaxSerials
      BY <1>1, <1>3, <1>6, <2>1, Ring
    <2> QED  BY <2>1, <2>2, SerialsAdvance
  <1>7. ASSUME NEW y \in DOMAIN records
        PROVE  /\ records'[y] \in Record /\ records'[y].inc = records[y].inc
               /\ records'[y].mapped = records[y].mapped /\ records'[y].title = records[y].title
               /\ records'[y].published = records[y].published
               /\ records'[y].fullscreen = records[y].fullscreen /\ records'[y].maximized = records[y].maximized
               /\ records'[y].interaction.actual = records[y].interaction.actual
               /\ records[y].changed => records'[y].changed
               /\ \/ records'[y].interaction = records[y].interaction /\ records'[y].changed = records[y].changed
                  \/ /\ records'[y].changed /\ Drawn(stateSerial) < Drawn(records'[y].interaction.serial)
                     /\ Drawn(records'[y].interaction.serial) =< Drawn(stateSerial) + k
                     /\ records'[y].interaction.epoch = records[y].interaction.epoch + 1
                     /\ records'[y].interaction.action = "none"
    <2>1. records[y] \in Record /\ records[y].interaction \in Interaction
      BY <1>0 DEF Shape, Record
    <2>2. CASE y = x /\ managed
      <3> DEFINE a == "urgent" \in hints
                 s == SerialAfter(stateSerial, 1)
                 i == AskInteraction(records[y].interaction, "none", a, s)
      <3>1. records'[y] = [records[y] EXCEPT !.interaction = i, !.changed = TRUE]
        BY <1>2, <2>2
      <3>2. a \in BOOLEAN /\ s \in Serials /\ Drawn(s) = Drawn(stateSerial) + 1 /\ Drawn(stateSerial) \in Nat
        BY <1>6, <2>2
      <3> HIDE DEF a, s
      <3>3. i \in Interaction /\ i.serial = s /\ i.actual = records[y].interaction.actual /\ i.action = "none"
            /\ i.epoch = records[y].interaction.epoch + 1
        <4> DEFINE t == records[y].interaction
        <4>1. t \in Interaction /\ a \in BOOLEAN /\ s \in Serials /\ "none" \in {"none", "activate", "minimize"}
          BY <2>1, <3>2
        <4> HIDE DEF t
        <4>2. /\ AskInteraction(t, "none", a, s) \in Interaction
              /\ AskInteraction(t, "none", a, s).serial = s
              /\ AskInteraction(t, "none", a, s).actual = t.actual
              /\ AskInteraction(t, "none", a, s).epoch = t.epoch + 1
              /\ AskInteraction(t, "none", a, s).action = "none"
          BY ONLY <4>1, AskInteractionFacts
        <4> QED  BY <4>2 DEF t
      <3> HIDE DEF i
      <3>5. /\ records'[y] \in Record /\ records'[y].inc = records[y].inc
            /\ records'[y].mapped = records[y].mapped /\ records'[y].title = records[y].title
            /\ records'[y].published = records[y].published
            /\ records'[y].fullscreen = records[y].fullscreen /\ records'[y].maximized = records[y].maximized
            /\ records'[y].interaction = i /\ records'[y].changed = TRUE
        BY <2>1, <3>1, <3>3 DEF Record
      <3>6. k >= 1
        BY <1>3, <2>2
      <3> QED  BY <1>3, <3>2, <3>3, <3>5, <3>6
    <2>3. CASE ~(y = x /\ managed)
      <3>1. records'[y] = records[y]
        BY <1>2, <2>3
      <3> QED  BY <2>1, <3>1
    <2> QED  BY <2>2, <2>3
  <1>8. SerialsMove /\ stateSerial' \in Serials
    <2>1. ASSUME NEW y \in DOMAIN records', NEW kind \in Aspects
          PROVE  \/ /\ y \in DOMAIN records /\ records'[y].inc = records[y].inc
                    /\ records'[y][kind].serial = records[y][kind].serial
                    /\ records'[y][kind].epoch = records[y][kind].epoch
                 \/ /\ Drawn(stateSerial) < Drawn(records'[y][kind].serial)
                    /\ Drawn(records'[y][kind].serial) =< Drawn(stateSerial) + k
      BY <1>5, <1>7 DEF Aspects
    <2> QED  BY <1>1, <1>3, <2>1, SerialsDrawn
  <1>9. Shape'
    BY <1>0, <1>1, <1>4, <1>5, <1>7, <1>8 DEF Shape, EditedAt
  <1>10. RecordsAreCurrent'
    BY <1>0, <1>1, <1>4, <1>5, <1>7 DEF CoreInv, RecordsAreCurrent, Shape, EditedAt
  <1>11. AtomsShowConfirmedState'
    BY <1>0, <1>1, <1>4, <1>5, <1>7 DEF CoreInv, AtomsShowConfirmedState, Shape, EditedAt
  <1>12. ASSUME NEW y \in DOMAIN records
         PROVE  records'[y].changed \/ Sent(y, records[y])' = Sent(y, records[y])
    <2>1. CASE records'[y].interaction = records[y].interaction
      BY <1>0, <1>1, <1>4, <1>7, <2>1 DEF Sent, Shape, EditedAt
    <2> QED  BY <1>7, <2>1
  <1> QED  BY <1>1, <1>5, <1>7, <1>8, <1>9, <1>10, <1>11, <1>12, MarkedCore

\* onDestroy moves the record of the window among the dead.
LEMMA DestroyCore ==
    ASSUME ModelInv, NEW x \in Windows, onDestroy(x)
    PROVE  CoreStep
  <1> DEFINE N == {[id |-> x, inc |-> records[y].inc, published |-> records[y].published] :
                      y \in {x} \cap DOMAIN records}
  <1>0. CoreInv /\ Shape
    BY CoreHolds DEF CoreInv
  <1>1. /\ x \in DOMAIN window /\ window' = Without(window, {x}) /\ records' = Without(records, {x})
        /\ dead' = dead \cup N /\ dirty' = TRUE
        /\ UNCHANGED <<observing, managed, stateSerial, link, catalog, doubtful>>
    BY DEF onDestroy
  <1>2. /\ DOMAIN window' = DOMAIN window \ {x} /\ \A y \in DOMAIN window \ {x} : window'[y] = window[y]
        /\ DOMAIN records' = DOMAIN records \ {x} /\ \A y \in DOMAIN records \ {x} : records'[y] = records[y]
    BY <1>1 DEF Without
  <1>3. /\ IsFiniteSet(N) /\ N \subseteq [id : Windows, inc : Nat, published : BOOLEAN]
        /\ \A d \in N : d.id = x /\ x \in DOMAIN records /\ d.published = records[x].published
        /\ x \in DOMAIN records => \E d \in N : d.id = x /\ d.published = records[x].published
    <2>1. CASE x \in DOMAIN records
      <3> DEFINE d == [id |-> x, inc |-> records[x].inc, published |-> records[x].published]
      <3>1. N = {d}
        BY <2>1
      <3>2. IsFiniteSet({d})
        BY FS_Singleton
      <3>3. records[x] \in Record
        BY <1>0, <2>1 DEF Shape
      <3>4. d \in [id : Windows, inc : Nat, published : BOOLEAN] /\ d.id = x /\ d.published = records[x].published
        BY <3>3 DEF Record
      <3> HIDE DEF N, d
      <3> QED  BY <2>1, <3>1, <3>2, <3>4
    <2>2. CASE x \notin DOMAIN records
      <3>1. N = {}
        BY <2>2
      <3> HIDE DEF N
      <3> QED  BY <2>2, <3>1, FS_EmptySet
    <2> QED  BY <2>1, <2>2
  <1> HIDE DEF N
  <1>4. SerialsMove /\ stateSerial' \in Serials
    <2>1. \A y \in DOMAIN records' : \A kind \in Aspects :
              /\ y \in DOMAIN records /\ records'[y].inc = records[y].inc
              /\ records'[y][kind].serial = records[y][kind].serial
              /\ records'[y][kind].epoch = records[y][kind].epoch
      BY <1>2
    <2> QED  BY <1>1, <2>1, SerialsStay
  <1>5. Shape'
    BY <1>0, <1>1, <1>2, <1>3, <1>4 DEF Shape
  <1>6. RecordsAreCurrent'
    <2>1. IsFiniteSet(DOMAIN window) /\ IsFiniteSet(dead)
      BY <1>0 DEF CoreInv, RecordsAreCurrent
    <2>2. IsFiniteSet(DOMAIN window')
      <3>1. DOMAIN window' \subseteq DOMAIN window
        BY <1>2
      <3> QED  BY <2>1, <3>1, FS_Subset
    <2>3. IsFiniteSet(dead')
      BY <1>1, <1>3, <2>1, FS_Union
    <2> QED  BY <1>0, <1>2, <2>2, <2>3 DEF CoreInv, RecordsAreCurrent, Shape
  <1>7. AtomsShowConfirmedState'
    BY <1>0, <1>2 DEF CoreInv, AtomsShowConfirmedState, Shape
  <1>8. RecordsAreApart'
    BY <1>0, <1>1, <1>2, <1>3 DEF CoreInv, RecordsAreApart
  <1>9. CleanIsPublished'
    BY <1>1 DEF CleanIsPublished
  <1>10. PublishedIsKnown'
    <2>1. ASSUME NEW y \in DOMAIN records', link = "observed", records'[y].published
          PROVE  /\ y \in DOMAIN catalog /\ y \notin doubtful
                 /\ ~records'[y].changed => catalog[y] = Sent(y, records[y])'
      <3>1. y \in DOMAIN records /\ records'[y] = records[y] /\ window'[y] = window[y]
        BY <1>0, <1>2 DEF Shape
      <3> QED  BY <1>0, <1>1, <2>1, <3>1 DEF CoreInv, PublishedIsKnown, Sent
    <2>2. ASSUME NEW y \in DOMAIN catalog \ doubtful
          PROVE  \/ y \in DOMAIN records' /\ records'[y].published
                 \/ \E d \in dead' : d.id = y /\ d.published
      <3>1. CASE y \in DOMAIN records /\ records[y].published
        <4>1. CASE y = x
          BY <1>1, <1>3, <3>1, <4>1
        <4>2. CASE y # x
          BY <1>2, <3>1, <4>2
        <4> QED  BY <4>1, <4>2
      <3>2. CASE \E d \in dead : d.id = y /\ d.published
        BY <1>1, <3>2
      <3> QED  BY <1>0, <3>1, <3>2 DEF CoreInv, PublishedIsKnown
    <2>3. ASSUME NEW d \in dead', d.published, d.id \in DOMAIN records' PROVE ~records'[d.id].published
      BY <1>0, <1>1, <1>2, <1>3, <2>3 DEF CoreInv, PublishedIsKnown
    <2> QED  BY <1>1, <2>1, <2>2, <2>3 DEF PublishedIsKnown
  <1>11. CatalogComes
    BY <1>1 DEF CatalogComes
  <1> QED  BY <1>4, <1>5, <1>6, <1>7, <1>8, <1>9, <1>10, <1>11 DEF CoreStep, CoreInv

\* lorieWindowModelReset: nothing counts as published any more.
LEMMA ResetCore ==
    ASSUME ModelInv, NEW on \in BOOLEAN, Reset(on), UNCHANGED <<window, managed, stateSerial, catalog>>,
           \/ on /\ link \in {"observed", "closing"} /\ link' = link /\ doubtful' = DOMAIN catalog
           \/ ~on /\ link = "closing" /\ link' = "down"
    PROVE  CoreStep
  <1>0. CoreInv /\ Shape
    BY CoreHolds DEF CoreInv
  <1>1. /\ records' = [x \in DOMAIN records |-> [records[x] EXCEPT !.published = FALSE]]
        /\ dead' = {[d EXCEPT !.published = FALSE] : d \in dead}
        /\ observing' = on /\ dirty' = TRUE
    BY DEF Reset
  <1>2. DOMAIN records' = DOMAIN records
    BY <1>1
  <1>3. ASSUME NEW y \in DOMAIN records
        PROVE  /\ records'[y] \in Record /\ records'[y].inc = records[y].inc /\ ~records'[y].published
               /\ records'[y].fullscreen = records[y].fullscreen /\ records'[y].maximized = records[y].maximized
               /\ records'[y].interaction = records[y].interaction
    <2>1. records[y] \in Record
      BY <1>0 DEF Shape
    <2>2. records'[y] = [records[y] EXCEPT !.published = FALSE]
      BY <1>1
    <2> QED  BY <2>1, <2>2 DEF Record
  <1>4. /\ dead' \subseteq [id : Windows, inc : Nat, published : BOOLEAN] /\ (\A d \in dead' : ~d.published)
        /\ IsFiniteSet(dead')
    <2>1. ASSUME NEW d \in dead
          PROVE  /\ [d EXCEPT !.published = FALSE] \in [id : Windows, inc : Nat, published : BOOLEAN]
                 /\ ~[d EXCEPT !.published = FALSE].published
      <3>1. d \in [id : Windows, inc : Nat, published : BOOLEAN]
        BY <1>0 DEF Shape
      <3> QED  BY <3>1
    <2>2. IsFiniteSet(dead)
      BY <1>0 DEF CoreInv, RecordsAreCurrent
    <2>3. IsFiniteSet(dead')
      <3> DEFINE f == [d \in dead |-> [d EXCEPT !.published = FALSE]]
      <3>1. f \in Surjection(dead, dead')
        <4>1. f \in [dead -> dead']
          BY <1>1
        <4>2. \A e \in dead' : \E d \in dead : f[d] = e
          BY <1>1
        <4> QED  BY <4>1, <4>2 DEF Surjection
      <3> HIDE DEF f
      <3> QED  BY <2>2, <3>1, FS_Surjection
    <2> QED  BY <1>1, <2>1, <2>3
  <1>5. SerialsMove /\ stateSerial' \in Serials
    <2>1. \A y \in DOMAIN records' : \A kind \in Aspects :
              /\ y \in DOMAIN records /\ records'[y].inc = records[y].inc
              /\ records'[y][kind].serial = records[y][kind].serial
              /\ records'[y][kind].epoch = records[y][kind].epoch
      BY <1>2, <1>3 DEF Aspects
    <2> QED  BY <2>1, SerialsStay
  <1>6. Shape'
    BY <1>0, <1>2, <1>3, <1>4, <1>5 DEF Shape
  <1>7. RecordsAreCurrent'
    BY <1>0, <1>2, <1>3, <1>4 DEF CoreInv, RecordsAreCurrent
  <1>8. AtomsShowConfirmedState'
    BY <1>0, <1>2, <1>3 DEF CoreInv, AtomsShowConfirmedState
  <1>9. RecordsAreApart'
    BY <1>0, <1>1, <1>2, <1>3, <1>4 DEF CoreInv, RecordsAreApart
  <1>10. CleanIsPublished'
    BY <1>1 DEF CleanIsPublished
  <1>11. PublishedIsKnown'
    <2>1. DOMAIN catalog' \ doubtful' = {}
      BY <1>0 DEF CoreInv, RecordsAreApart
    <2> QED  BY <1>2, <1>3, <1>4, <2>1 DEF PublishedIsKnown
  <1>12. CatalogComes
    BY DEF CatalogComes
  <1> QED  BY <1>5, <1>6, <1>7, <1>8, <1>9, <1>10, <1>11, <1>12 DEF CoreStep, CoreInv

\* A host that hangs up forgets the catalog.
LEMMA HangUpCore ==
    ASSUME ModelInv, hangUp
    PROVE  CoreStep
  <1>0. CoreInv /\ Shape
    BY CoreHolds DEF CoreInv
  <1>1. /\ link' = "closing" /\ catalog' = <<>> /\ doubtful' = {}
        /\ UNCHANGED <<window, records, dead, dirty, observing, managed, stateSerial>>
    BY DEF hangUp, serverVars
  <1>2. DOMAIN catalog' = {}
    BY <1>1
  <1>3. SerialsMove /\ stateSerial' \in Serials
    BY <1>1, SerialsStay
  <1>4. Shape' /\ RecordsAreCurrent' /\ AtomsShowConfirmedState'
    BY <1>0, <1>1, <1>2 DEF CoreInv, Shape, RecordsAreCurrent, AtomsShowConfirmedState
  <1>5. RecordsAreApart' /\ CatalogComes
    BY <1>1, <1>2 DEF RecordsAreApart, CatalogComes
  <1>6. CleanIsPublished'
    BY <1>0, <1>1 DEF CoreInv, CleanIsPublished, Stale
  <1>7. PublishedIsKnown'
    BY <1>0, <1>1, <1>2 DEF CoreInv, PublishedIsKnown
  <1> QED  BY <1>3, <1>4, <1>5, <1>6, <1>7 DEF CoreStep, CoreInv

\* The refresh tells the host of every record that appeared, changed or went.
LEMMA RefreshCore ==
    ASSUME ModelInv, lorieWindowModelRefresh
    PROVE  CoreStep
  <1> DEFINE seen == {x \in DOMAIN window : Found(x)}
             fresh == seen \ DOMAIN records
             count == Cardinality(fresh)
             gone == DOMAIN records \ seen
             destroyed == {d.id : d \in {e \in dead : e.published}}
             met(rank) == [x \in seen |-> IF x \in fresh
                                          THEN FreshRecord(x, SerialAfter(stateSerial, 3 * rank[x]))
                                          ELSE records[x]]
             due(f) == {x \in seen : Stale(x, f[x])}
  <1>0. CoreInv /\ Shape /\ TypeOK
    BY CoreHolds DEF CoreInv, ModelInv
  <1>1. /\ link # "down" /\ observing /\ Drawn(stateSerial) + 3 * count =< MaxSerials
        /\ stateSerial' = SerialAfter(stateSerial, 3 * count) /\ dead' = {} /\ dirty' = FALSE
        /\ UNCHANGED <<window, observing, managed, link>>
    BY DEF lorieWindowModelRefresh, Allocated, Drawn
  <1>2. PICK rank \in [fresh -> 0..(count - 1)] :
           /\ records' = [x \in seen |-> IF x \in due(met(rank)) THEN Published(x, met(rank)[x]) ELSE met(rank)[x]]
           /\ doubtful' = doubtful \ (due(met(rank)) \cup gone)
           /\ catalog' = IF link = "closing" THEN catalog
                         ELSE Reconciled(destroyed, [x \in due(met(rank)) |-> Snapshot(x, met(rank)[x])], gone)
    BY DEF lorieWindowModelRefresh
  <1> DEFINE found == met(rank)
             stale == due(found)
             sent == [x \in stale |-> Snapshot(x, found[x])]
  <1>3. /\ records' = [x \in seen |-> IF x \in stale THEN Published(x, found[x]) ELSE found[x]]
        /\ doubtful' = doubtful \ (stale \cup gone)
        /\ catalog' = IF link = "closing" THEN catalog ELSE Reconciled(destroyed, sent, gone)
    BY <1>2
  <1>4. count \in Nat /\ 3 * count \in Nat
    <2>1. IsFiniteSet(DOMAIN window) /\ fresh \subseteq DOMAIN window
      BY <1>0 DEF CoreInv, RecordsAreCurrent
    <2>2. IsFiniteSet(fresh)
      <3> HIDE DEF fresh
      <3> QED  BY <2>1, FS_Subset
    <2>3. Cardinality(fresh) \in Nat
      <3> HIDE DEF fresh
      <3> QED  BY <2>2, FS_CardinalityType
    <2> HIDE DEF fresh
    <2> QED  BY <2>3
  <1>5. /\ \A x \in seen : x \in DOMAIN window /\ x \in Windows /\ Found(x) /\ window[x] \in Window
        /\ \A x \in seen : x \notin fresh => x \in DOMAIN records /\ found[x] = records[x]
        /\ \A x \in fresh : x \in seen /\ x \notin DOMAIN records
                             /\ found[x] = FreshRecord(x, SerialAfter(stateSerial, 3 * rank[x]))
    BY <1>0 DEF Shape
  <1>6. \A x \in stale : x \in seen /\ sent[x] = Snapshot(x, found[x])
    OBVIOUS
  <1>7. \A x \in seen : x \notin stale => ~Stale(x, found[x])
    OBVIOUS
  <1>8. \A x \in DOMAIN window : window[x].realized /\ window[x].application => x \in seen
    BY DEF Found
  <1>9. \A x \in destroyed : \E d \in dead : d.published /\ d.id = x
    OBVIOUS
  <1>10. \A d \in dead : d.published => d.id \in destroyed
    OBVIOUS
  <1>11. DOMAIN sent = stale /\ \A x \in gone : x \in DOMAIN records /\ x \notin seen
    OBVIOUS
  <1>12. \A x \in DOMAIN records : x \in seen \/ x \in gone
    OBVIOUS
  <1>13. rank \in [fresh -> 0..(count - 1)]
    OBVIOUS
  <1> HIDE DEF seen, fresh, count, gone, destroyed, met, due, found, stale, sent
  <1>14. ASSUME NEW x \in fresh
         PROVE  LET r == found[x]
                IN /\ r \in Record /\ r.inc = window[x].inc /\ ~r.published /\ Shows(window[x].atoms, r)
                   /\ \A kind \in Aspects : /\ Drawn(stateSerial) < Drawn(r[kind].serial)
                                            /\ Drawn(r[kind].serial) =< Drawn(stateSerial) + 3 * count
    <2> DEFINE j == 3 * rank[x]
               s == SerialAfter(stateSerial, j)
    <2>0. Drawn(stateSerial) \in Nat /\ stateSerial \in Serials
      BY <1>0, ShapeSerials DEF Counted, Shape
    <2>1. j \in Nat /\ j + 3 =< 3 * count
      BY <1>4, <1>13
    <2>2. Drawn(stateSerial) + j =< MaxSerials /\ (Drawn(stateSerial) + j) + 3 =< MaxSerials
      <3> HIDE DEF j
      <3> QED  BY <1>1, <1>4, <2>0, <2>1, Ring
    <2>3. s \in Serials /\ Drawn(s) = Drawn(stateSerial) + j
      <3> HIDE DEF j
      <3> QED  BY <2>0, <2>1, <2>2, SerialsAdvance
    <2>4. found[x] = FreshRecord(x, s) /\ x \in DOMAIN window
      BY <1>5
    <2> HIDE DEF j, s
    <2> DEFINE r == FreshRecord(x, s)
    <2>5. Drawn(s) + 3 =< MaxSerials
      BY <2>2, <2>3
    <2>6. /\ r \in Record /\ r.inc = window[x].inc /\ ~r.published /\ Shows(window[x].atoms, r)
          /\ \A kind \in Aspects : /\ Drawn(s) < Drawn(r[kind].serial)
                                   /\ Drawn(r[kind].serial) =< Drawn(s) + 3
      BY <1>0, <2>3, <2>4, <2>5, FreshFacts
    <2> HIDE DEF r
    <2>7. ASSUME NEW kind \in Aspects
          PROVE  /\ Drawn(stateSerial) < Drawn(r[kind].serial)
                 /\ Drawn(r[kind].serial) =< Drawn(stateSerial) + 3 * count
      <3>1. r[kind].serial \in Serials
        BY <2>6 DEF Record, State, Interaction, Aspects
      <3>2. Drawn(r[kind].serial) \in Nat
        BY <3>1, DrawnIsNatural
      <3>3. Drawn(s) < Drawn(r[kind].serial) /\ Drawn(r[kind].serial) =< Drawn(s) + 3
        BY <2>6
      <3> QED  BY <1>4, <2>0, <2>1, <2>3, <3>2, <3>3
    <2>8. found[x] = r
      BY <2>4 DEF r
    <2> QED  BY <2>6, <2>7, <2>8
  <1>15. ASSUME NEW x \in seen
         PROVE  found[x] \in Record /\ found[x].inc = window[x].inc /\ Shows(window[x].atoms, found[x])
    <2>1. CASE x \in fresh
      BY <1>14, <2>1
    <2>2. CASE x \notin fresh
      BY <1>0, <1>5, <2>2, AtomsShown DEF CoreInv, Shape, RecordsAreCurrent
    <2> QED  BY <2>1, <2>2
  <1>16. DOMAIN records' = seen
    BY <1>3
  <1>17. ASSUME NEW x \in seen
         PROVE  /\ records'[x] \in Record /\ records'[x].inc = found[x].inc
                /\ records'[x].fullscreen = found[x].fullscreen /\ records'[x].maximized = found[x].maximized
                /\ records'[x].interaction = found[x].interaction
                /\ records'[x].published /\ ~records'[x].changed
                /\ records'[x].mapped = window[x].realized /\ records'[x].title = window[x].title
    <2>1. found[x] \in Record /\ window[x] \in Window
      BY <1>5, <1>15
    <2>2. CASE x \in stale
      <3>1. records'[x] = Published(x, found[x])
        BY <1>3, <2>2
      <3> QED  BY <2>1, <3>1 DEF Published, Record, Window
    <2>3. CASE x \notin stale
      <3>1. records'[x] = found[x] /\ ~Stale(x, found[x])
        BY <1>3, <1>7, <2>3
      <3> QED  BY <2>1, <3>1 DEF Stale
    <2> QED  BY <2>2, <2>3
  <1>18. link \in {"observed", "closing"}
    BY <1>0, <1>1 DEF CoreInv, RecordsAreApart, TypeOK
  <1>19. /\ link = "closing" => catalog' = catalog /\ DOMAIN catalog = {}
         /\ link = "observed" =>
              /\ DOMAIN catalog' = ((DOMAIN catalog \ destroyed) \cup stale) \ gone
              /\ \A x \in DOMAIN catalog' : catalog'[x] = IF x \in stale THEN Snapshot(x, found[x]) ELSE catalog[x]
    BY <1>0, <1>3, <1>6, <1>11 DEF Reconciled, CoreInv, RecordsAreApart
  <1>20. SerialsMove /\ stateSerial' \in Serials
    <2>1. ASSUME NEW x \in DOMAIN records', NEW kind \in Aspects
          PROVE  \/ /\ x \in DOMAIN records /\ records'[x].inc = records[x].inc
                    /\ records'[x][kind].serial = records[x][kind].serial
                    /\ records'[x][kind].epoch = records[x][kind].epoch
                 \/ /\ Drawn(stateSerial) < Drawn(records'[x][kind].serial)
                    /\ Drawn(records'[x][kind].serial) =< Drawn(stateSerial) + 3 * count
      <3>1. x \in seen /\ records'[x].inc = found[x].inc /\ records'[x][kind] = found[x][kind]
        BY <1>16, <1>17 DEF Aspects
      <3>2. CASE x \in fresh
        BY <1>14, <3>1, <3>2
      <3>3. CASE x \notin fresh
        BY <1>5, <3>1, <3>3
      <3> QED  BY <3>2, <3>3
    <2> DEFINE k == 3 * count
    <2>2. k \in Nat /\ Drawn(stateSerial) + k =< MaxSerials /\ stateSerial' = SerialAfter(stateSerial, k)
      BY <1>1, <1>4
    <2>3. \A x \in DOMAIN records' : \A kind \in Aspects :
                 \/ /\ x \in DOMAIN records /\ records'[x].inc = records[x].inc
                    /\ records'[x][kind].serial = records[x][kind].serial
                    /\ records'[x][kind].epoch = records[x][kind].epoch
                 \/ /\ Drawn(stateSerial) < Drawn(records'[x][kind].serial)
                    /\ Drawn(records'[x][kind].serial) =< Drawn(stateSerial) + k
      BY <2>1
    <2> HIDE DEF k
    <2> QED  BY <2>2, <2>3, SerialsDrawn
  <1>21. ASSUME NEW x \in seen
         PROVE  /\ Snapshot(x, found[x]) \in Management
                /\ Snapshot(x, found[x]) = Sent(x, records[x])'
    <2>1. found[x] \in Record /\ window[x] \in Window /\ managed \in BOOLEAN
      BY <1>0, <1>5, <1>15 DEF TypeOK
    <2>2. Snapshot(x, found[x]) \in Management
      BY <2>1 DEF Snapshot, Management, Record, Window
    <2>3. Snapshot(x, found[x]) = Sent(x, records[x])'
      BY <1>1, <1>17 DEF Snapshot, Sent
    <2> QED  BY <2>2, <2>3
  <1>22. CatalogComes
    <2>1. ASSUME NEW x \in DOMAIN catalog'
          PROVE  \/ x \in DOMAIN catalog /\ catalog'[x] = catalog[x]
                 \/ /\ x \in DOMAIN records' /\ catalog'[x].inc = records'[x].inc
                    /\ \A kind \in Aspects : /\ catalog'[x][kind].serial = records'[x][kind].serial
                                             /\ catalog'[x][kind].epoch = records'[x][kind].epoch
      <3>1. CASE link = "closing"
        BY <1>19, <3>1
      <3>2. CASE link = "observed" /\ x \notin stale
        BY <1>19, <3>2
      <3>3. CASE link = "observed" /\ x \in stale
        <4>1. x \in seen /\ catalog'[x] = Snapshot(x, found[x])
          BY <1>6, <1>19, <3>3
        <4>2. /\ catalog'[x].inc = found[x].inc /\ catalog'[x].fullscreen = found[x].fullscreen
              /\ catalog'[x].maximized = found[x].maximized /\ catalog'[x].interaction = found[x].interaction
          BY <1>15, <4>1 DEF Snapshot
        <4> QED  BY <1>16, <1>17, <4>1, <4>2 DEF Aspects
      <3> QED  BY <1>18, <3>1, <3>2, <3>3
    <2> QED  BY <2>1 DEF CatalogComes
  <1>23. Shape'
    <2>1. DOMAIN catalog' \subseteq Windows
      BY <1>0, <1>5, <1>6, <1>18, <1>19 DEF Shape
    <2>2. \A x \in DOMAIN catalog' : catalog'[x] \in Management
      BY <1>0, <1>6, <1>18, <1>19, <1>21 DEF Shape
    <2> QED  BY <1>0, <1>1, <1>5, <1>16, <1>17, <1>20, <2>1, <2>2 DEF Shape
  <1>24. RecordsAreCurrent'
    <2>1. IsFiniteSet(dead')
      BY <1>1, FS_EmptySet
    <2> QED  BY <1>0, <1>1, <1>15, <1>16, <1>17, <2>1 DEF CoreInv, RecordsAreCurrent
  <1>25. AtomsShowConfirmedState'
    <2>1. ASSUME NEW x \in DOMAIN records' PROVE Shows(window'[x].atoms, records'[x])
      BY <1>1, <1>15, <1>16, <1>17 DEF Shows
    <2> QED  BY <2>1 DEF AtomsShowConfirmedState, Shows
  <1>26. RecordsAreApart'
    BY <1>1, <1>18, <1>19 DEF RecordsAreApart
  <1>27. CleanIsPublished'
    <2>1. \A x \in DOMAIN records' : ~Stale(x, records[x])'
      BY <1>1, <1>16, <1>17 DEF Stale
    <2> QED  BY <1>1, <1>8, <1>16, <2>1 DEF CleanIsPublished
  <1>28. PublishedIsKnown'
    <2>1. ASSUME NEW x \in DOMAIN records', link = "observed"
          PROVE  x \in DOMAIN catalog' /\ x \notin doubtful' /\ catalog'[x] = Sent(x, records[x])'
      <3>0. x \in seen /\ x \notin gone
        BY <1>11, <1>16
      <3>1. CASE x \in stale
        <4>1. x \in DOMAIN catalog' /\ catalog'[x] = Snapshot(x, found[x])
          BY <1>19, <2>1, <3>0, <3>1
        <4>2. x \notin doubtful'
          BY <1>3, <3>1
        <4> QED  BY <1>21, <3>0, <4>1, <4>2
      <3>2. CASE x \notin stale
        <4>1. ~Stale(x, found[x])
          BY <1>7, <3>0, <3>2
        <4>2. x \notin fresh
          BY <1>14, <4>1 DEF Stale
        <4>3. x \in DOMAIN records /\ found[x] = records[x] /\ records[x].published /\ ~records[x].changed
          BY <1>5, <3>0, <4>1, <4>2 DEF Stale
        <4>4. x \in DOMAIN catalog /\ x \notin doubtful /\ catalog[x] = Sent(x, records[x])
          BY <1>0, <2>1, <4>3 DEF CoreInv, PublishedIsKnown
        <4>5. x \notin destroyed
          BY <1>0, <1>9, <4>3 DEF CoreInv, PublishedIsKnown
        <4>6. x \in DOMAIN catalog' /\ catalog'[x] = catalog[x]
          BY <1>19, <2>1, <3>0, <3>2, <4>4, <4>5
        <4>7. records'[x] = records[x]
          BY <1>3, <3>0, <3>2, <4>3
        <4>8. Sent(x, records[x])' = Sent(x, records[x])
          BY <1>1, <4>7 DEF Sent
        <4> QED  BY <1>3, <4>4, <4>6, <4>8
      <3> QED  BY <3>1, <3>2
    <2>2. ASSUME NEW x \in DOMAIN catalog', x \notin doubtful'
          PROVE  x \in DOMAIN records' /\ records'[x].published
      <3>1. link = "observed"
        BY <1>18, <1>19
      <3>2. x \notin gone /\ (x \in stale \/ (x \in DOMAIN catalog /\ x \notin destroyed))
        BY <1>19, <3>1
      <3>3. CASE x \in stale
        BY <1>6, <1>16, <1>17, <3>3
      <3>4. CASE x \notin stale
        <4>1. x \notin doubtful
          BY <1>3, <2>2, <3>2, <3>4
        <4>2. x \in DOMAIN records
          BY <1>0, <1>10, <3>2, <3>4, <4>1 DEF CoreInv, PublishedIsKnown
        <4> QED  BY <1>12, <1>16, <1>17, <3>2, <4>2
      <3> QED  BY <3>3, <3>4
    <2> QED  BY <1>1, <2>1, <2>2 DEF PublishedIsKnown
  <1> QED  BY <1>20, <1>22, <1>23, <1>24, <1>25, <1>26, <1>27, <1>28 DEF CoreStep, CoreInv

-----------------------------------------------------------------------------
(* The invariant holds *)

\* Commands are in flight only after the host observed.
LEMMA WaitingIsSilent ==
    ASSUME ModelInv, [Next]_vars, link' \in {"down", "up"}
    PROVE  toServer' = <<>>
  <1>0. (link \in {"down", "up"} => toServer = <<>>) /\ toServer \in Seq(Commands)
    BY DEF ModelInv, SessionsAreApart, CommandsAreFormed
  <1>1. CASE link \in {"down", "up"}
    BY <1>0, <1>1, CommandsMove
  <1>2. CASE link \notin {"down", "up"}
    BY <1>2 DEF Next, CreateWindow, onRealize, onDestroy, propertyChanged, onPosition, hintsChanged,
        stateMessage, activateMessage, minimizeMessage, managerChanged, observe, answer, lorieWindowUserInput,
        lorieWindowModelRefresh, receiveObserve, receiveConfirm, connect, hangUp, disconnect, tick, vars, serverVars
  <1> QED  BY <1>1, <1>2

\* Every step keeps the part of the invariant about windows, records and catalog.
LEMMA CoreAlways ==
    ASSUME ModelInv, [Next]_vars
    PROVE  CoreStep
  <1>1. ASSUME NEW x \in Windows, CreateWindow(x) PROVE CoreStep
    BY <1>1, CreateCore
  <1>2. ASSUME NEW x \in Windows, onRealize(x) \/ propertyChanged(x) PROVE CoreStep
    BY <1>2, EditCore
  <1>3. ASSUME NEW x \in Windows, onDestroy(x) PROVE CoreStep
    BY <1>3, DestroyCore
  <1>4. ASSUME NEW x \in Windows, onPosition(x) PROVE CoreStep
    BY <1>4, PositionCore
  <1>5. ASSUME NEW x \in Windows, hintsChanged(x) PROVE CoreStep
    BY <1>5, HintsCore
  <1>6. ASSUME NEW x \in Windows, stateMessage(x) PROVE CoreStep
    BY <1>6, StateMessageAmends, AmendsCore
  <1>7. ASSUME NEW x \in Windows, activateMessage(x) PROVE CoreStep
    BY <1>7, ActivateAmends, AmendsCore
  <1>8. ASSUME NEW x \in Windows, minimizeMessage(x) PROVE CoreStep
    BY <1>8, MinimizeAmends, AmendsCore
  <1>9. ASSUME NEW x \in Windows, lorieWindowUserInput(x) PROVE CoreStep
    BY <1>9, QuietCore DEF lorieWindowUserInput
  <1>10. ASSUME NEW x \in Windows, answer(x) PROVE CoreStep
    BY <1>10, QuietCore DEF answer, serverVars
  <1>11. CASE managerChanged
    BY <1>11, ManagerCore
  <1>12. CASE lorieWindowModelRefresh
    BY <1>12, RefreshCore
  <1>13. CASE receiveObserve
    <2>1. /\ toServer # <<>> /\ link # "down" /\ Reset(TRUE) /\ doubtful' = DOMAIN catalog
          /\ UNCHANGED <<window, managed, stateSerial, catalog, link>>
      BY <1>13 DEF receiveObserve
    <2>2. link \in {"observed", "closing"}
      BY <2>1 DEF ModelInv, SessionsAreApart, TypeOK
    <2> QED  BY <2>1, <2>2, ResetCore
  <1>14. CASE receiveConfirm
    <2>1. CASE UNCHANGED <<window, records, stateSerial, dirty, dead, observing, managed, link, catalog, doubtful>>
      BY <2>1, QuietCore
    <2> QED  BY <1>14, <2>1, ConfirmAmends, AmendsCore
  <1>15. CASE connect
    BY <1>15, QuietCore DEF connect, serverVars
  <1>16. CASE observe
    BY <1>16, QuietCore DEF observe, serverVars
  <1>17. CASE hangUp
    BY <1>17, HangUpCore
  <1>18. CASE disconnect
    <2>1. /\ link = "closing" /\ link' = "down" /\ Reset(FALSE) /\ UNCHANGED <<window, managed, stateSerial, catalog>>
      BY <1>18 DEF disconnect
    <2> QED  BY <2>1, ResetCore
  <1>19. CASE tick
    BY <1>19, QuietCore DEF tick, serverVars
  <1>20. CASE UNCHANGED vars
    BY <1>20, QuietCore DEF vars, serverVars
  <1> QED  BY <1>1, <1>2, <1>3, <1>4, <1>5, <1>6, <1>7, <1>8, <1>9, <1>10, <1>11, <1>12, <1>13, <1>14, <1>15,
              <1>16, <1>17, <1>18, <1>19, <1>20 DEF Next

\* The types of the other variables.
SmallTypes ==
    /\ dirty \in BOOLEAN /\ observing \in BOOLEAN /\ managed \in BOOLEAN
    /\ active \in Windows \cup {None}
    /\ lastInputWindow \in Windows \cup {None}
    /\ lastInputTime \in 0..(TimeModulus - 1)
    /\ clock \in 0..MaxTime
    /\ link \in {"down", "up", "observed", "closing"}
    /\ authority \in [window : Windows, at : Nat] \cup {None}
    /\ doubtful \in SUBSET Windows
    /\ left \in [Kinds -> Nat]

\* TypeOK, cut into the parts that the steps are proved to keep.
LEMMA TypesSplit == TypeOK <=> Shape /\ SmallTypes /\ \A i \in DOMAIN toServer : toServer[i].kind \in Aspects \cup {"observe"}
  BY DEF TypeOK, Shape, SmallTypes

\* Commands are observes and answers.
LEMMA KindsAreKnown == CommandsAreFormed => \A i \in DOMAIN toServer : toServer[i].kind \in Aspects \cup {"observe"}
  <1> SUFFICES ASSUME CommandsAreFormed, NEW i \in DOMAIN toServer PROVE toServer[i].kind \in Aspects \cup {"observe"}
    OBVIOUS
  <1>1. toServer[i] \in Commands
    BY DEF CommandsAreFormed
  <1> QED  BY <1>1 DEF Commands

\* The server's flags are Boolean after every step.
LEMMA FlagsStep ==
    ASSUME ModelInv, [Next]_vars
    PROVE  dirty' \in BOOLEAN /\ observing' \in BOOLEAN /\ managed' \in BOOLEAN
  <1>0. dirty \in BOOLEAN /\ observing \in BOOLEAN /\ managed \in BOOLEAN
    BY DEF ModelInv, TypeOK
  <1>1. ASSUME NEW x \in Windows, stateMessage(x) PROVE dirty' \in BOOLEAN /\ UNCHANGED <<observing, managed>>
    BY <1>1 DEF stateMessage
  <1>2. CASE receiveConfirm
    <2>1. dirty' = dirty \/ dirty' = TRUE
      BY <1>2 DEF receiveConfirm, ConfirmState, ConfirmInteraction
    <2>2. UNCHANGED <<observing, managed>>
      BY <1>2 DEF receiveConfirm
    <2> QED  BY <1>0, <2>1, <2>2
  <1>3. CASE ~receiveConfirm /\ ~(\E x \in Windows : stateMessage(x))
    BY <1>0, <1>3 DEF Next, CreateWindow, onRealize, onDestroy, propertyChanged, onPosition, hintsChanged,
        activateMessage, minimizeMessage, managerChanged, observe, answer, lorieWindowUserInput,
        lorieWindowModelRefresh, receiveObserve, connect, hangUp, disconnect, tick, vars, serverVars, Reset
  <1> QED  BY <1>0, <1>1, <1>2, <1>3

\* The other variables keep their types.
LEMMA SmallTypesStep ==
    ASSUME ModelInv, [Next]_vars
    PROVE  SmallTypes'
  <1>0. SmallTypes /\ TypeOK /\ DOMAIN catalog \subseteq Windows
    BY TypesSplit DEF ModelInv, TypeOK
  <1>1. dirty' \in BOOLEAN /\ observing' \in BOOLEAN /\ managed' \in BOOLEAN
    BY FlagsStep
  <1>2. active' \in Windows \cup {None}
    <2>1. CASE receiveConfirm
      <3>1. /\ toServer # <<>> /\ Head(toServer).kind \in Aspects
            /\ active' \in {active, Head(toServer).id, None}
        BY <2>1 DEF receiveConfirm, ConfirmState, ConfirmInteraction
      <3> QED  BY <1>0, <3>1, HeadFacts DEF SmallTypes
    <2>2. CASE active' = active
      BY <1>0, <2>2 DEF SmallTypes
    <2> QED  BY <2>1, <2>2 DEF Next, CreateWindow, onRealize, onDestroy, propertyChanged, onPosition, hintsChanged,
        stateMessage, activateMessage, minimizeMessage, managerChanged, observe, answer, lorieWindowUserInput,
        lorieWindowModelRefresh, receiveObserve, connect, hangUp, disconnect, tick, vars, serverVars
  <1>3. /\ lastInputWindow' \in Windows \cup {None} /\ lastInputTime' \in 0..(TimeModulus - 1)
        /\ authority' \in [window : Windows, at : Nat] \cup {None}
    <2>1. ASSUME NEW x \in Windows, lorieWindowUserInput(x) PROVE <1>3
      <3>1. /\ lastInputWindow' = x /\ lastInputTime' = Now /\ authority' = [window |-> x, at |-> clock]
        BY <2>1 DEF lorieWindowUserInput
      <3>2. clock \in Nat /\ MaxTime \in Nat
        BY <1>0, ConstantsAssumption DEF SmallTypes
      <3>3. Now \in 0..(TimeModulus - 1)
        <4>1. TimeModulus \in Nat \ {0} /\ StartTime + clock \in Int
          BY <3>2, ConstantsAssumption
        <4> QED  BY <4>1, Division DEF Now
      <3> QED  BY <3>1, <3>2, <3>3
    <2>2. ASSUME NEW x \in Windows, activateMessage(x) PROVE <1>3
      <3>1. lastInputTime' = 0 /\ authority' = None /\ lastInputWindow' = lastInputWindow
        BY <2>2 DEF activateMessage
      <3> QED  BY <1>0, <3>1, ConstantsAssumption DEF SmallTypes
    <2>3. CASE UNCHANGED <<lastInputWindow, lastInputTime, authority>>
      BY <1>0, <2>3 DEF SmallTypes
    <2> QED  BY <2>1, <2>2, <2>3 DEF Next, CreateWindow, onRealize, onDestroy, propertyChanged, onPosition, hintsChanged,
        stateMessage, minimizeMessage, managerChanged, observe, answer, receiveConfirm,
        lorieWindowModelRefresh, receiveObserve, connect, hangUp, disconnect, tick, vars, serverVars
  <1>4. clock' \in 0..MaxTime
    <2>1. CASE tick
      BY <1>0, <2>1, ConstantsAssumption DEF tick, SmallTypes
    <2>2. CASE clock' = clock
      BY <1>0, <2>2 DEF SmallTypes
    <2> QED  BY <2>1, <2>2 DEF Next, CreateWindow, onRealize, onDestroy, propertyChanged, onPosition, hintsChanged,
        stateMessage, activateMessage, minimizeMessage, managerChanged, observe, answer, lorieWindowUserInput,
        lorieWindowModelRefresh, receiveObserve, receiveConfirm, connect, hangUp, disconnect, vars, serverVars
  <1>5. link' \in {"down", "up", "observed", "closing"} /\ doubtful' \in SUBSET Windows
    BY <1>0 DEF SmallTypes, Next, CreateWindow, onRealize, onDestroy, propertyChanged, onPosition, hintsChanged,
        stateMessage, activateMessage, minimizeMessage, managerChanged, observe, answer, lorieWindowUserInput,
        lorieWindowModelRefresh, receiveObserve, receiveConfirm, connect, hangUp, disconnect, tick, vars, serverVars
  <1>6. left' \in [Kinds -> Nat]
    <2>1. ASSUME NEW kind, kind \in Kinds, Spend(kind) PROVE left' \in [Kinds -> Nat]
      <3>1. left \in [Kinds -> Nat] /\ left[kind] \in Nat /\ left[kind] > 0 /\ left' = [left EXCEPT ![kind] = @ - 1]
        BY <1>0, <2>1 DEF Spend, SmallTypes
      <3>2. left[kind] - 1 \in Nat
        BY <3>1
      <3> QED  BY <3>1, <3>2
    <2>2. CASE left' = left
      BY <1>0, <2>2 DEF SmallTypes
    <2>3. left' = left \/ \E kind \in Kinds : Spend(kind)
      BY DEF Next, CreateWindow, onRealize, onDestroy, propertyChanged, onPosition, hintsChanged,
        stateMessage, activateMessage, minimizeMessage, managerChanged, observe, answer, lorieWindowUserInput,
        lorieWindowModelRefresh, receiveObserve, receiveConfirm, connect, hangUp, disconnect, tick, vars, serverVars,
        Kinds
    <2> QED  BY <2>1, <2>2, <2>3
  <1> QED  BY <1>1, <1>2, <1>3, <1>4, <1>5, <1>6 DEF SmallTypes

\* The invariant holds at the start.
LEMMA InitHolds == Init => ModelInv
  <1> SUFFICES ASSUME Init PROVE ModelInv
    OBVIOUS
  <1>1. DOMAIN window = {} /\ DOMAIN records = {} /\ DOMAIN catalog = {} /\ Len(toServer) = 0 /\ toServer = <<>>
    BY DEF Init
  <1>2. CommandsAreFormed
    BY <1>1 DEF CommandsAreFormed
  <1>3. RecordsAreCurrent /\ AtomsShowConfirmedState
    BY <1>1, FS_EmptySet DEF RecordsAreCurrent, AtomsShowConfirmedState, Init
  <1>4. InputIsAuthority /\ SessionsAreApart /\ PublishedIsKnown /\ CleanIsPublished
    BY <1>1 DEF InputIsAuthority, SessionsAreApart, PublishedIsKnown, CleanIsPublished, Init
  <1>5. stateSerial = StartSerial /\ StartSerial \in Serials
    BY Ring DEF Init
  <1>6. Drawn(stateSerial) = 0
    <2> DEFINE M == SerialModulus - 1
    <2>1. M \in Nat \ {0} /\ StartSerial - StartSerial = M * 0 + 0 /\ 0 \in 0..(M - 1)
      BY <1>5, Ring DEF Serials
    <2>2. (StartSerial - StartSerial) % M = 0
      <3> DEFINE a == StartSerial - StartSerial
      <3>1. a \in Int /\ a = M * 0 + 0
        BY <1>5, <2>1, Ring DEF Serials
      <3> HIDE DEF a, M
      <3>2. a % M = 0
        BY <2>1, <3>1, Remainder
      <3> QED  BY <3>2 DEF a
    <2> QED  BY <1>5, <2>2 DEF Drawn
  <1>7. SerialsAreDrawn /\ SerialsIdentify
    <2>1. Drawn(stateSerial) =< MaxSerials
      BY <1>6, Ring
    <2>2. 1..Len(toServer) = {}
      BY <1>1
    <2> QED  BY <1>1, <2>1, <2>2 DEF SerialsAreDrawn, SerialsIdentify
  <1>8. SmallTypes
    <2>1. dirty \in BOOLEAN /\ observing \in BOOLEAN /\ managed \in BOOLEAN
      BY DEF Init
    <2>2. lastInputTime \in 0..(TimeModulus - 1) /\ clock \in 0..MaxTime
      BY ConstantsAssumption DEF Init
    <2>3. left \in [Kinds -> Nat]
      BY ConstantsAssumption DEF Init
    <2>4. /\ active = None /\ lastInputWindow = None /\ authority = None
          /\ link = "down" /\ doubtful = {}
      BY DEF Init
    <2> QED  BY <2>1, <2>2, <2>3, <2>4 DEF SmallTypes
  <1>9. Shape
    BY <1>1, <1>5 DEF Shape, Init
  <1>10. TypeOK
    BY <1>2, <1>8, <1>9, TypesSplit, KindsAreKnown
  <1> QED  BY <1>2, <1>3, <1>4, <1>7, <1>10 DEF ModelInv

\* Every step keeps the invariant.
LEMMA StepHolds == ModelInv /\ [Next]_vars => ModelInv'
  <1> SUFFICES ASSUME ModelInv, [Next]_vars PROVE ModelInv'
    OBVIOUS
  <1>1. CoreStep
    BY CoreAlways
  <1>2. CommandsAreFormed' /\ CommandsCome
    BY CommandsStep
  <1>3. Shape /\ Shape' /\ SerialsMove /\ CatalogComes
    BY <1>1, CoreHolds DEF CoreStep, CoreInv
  <1>4. SerialsAreDrawn' /\ SerialsIdentify'
    BY <1>2, <1>3, SerialsStep
  <1>5. SessionsAreApart'
    BY <1>1, WaitingIsSilent DEF CoreStep, CoreInv, RecordsAreApart, SessionsAreApart
  <1>6. TypeOK'
    <2>1. (TypeOK <=> Shape /\ SmallTypes /\ \A i \in DOMAIN toServer : toServer[i].kind \in Aspects \cup {"observe"})'
      BY TypesSplit, PTL
    <2>2. (CommandsAreFormed => \A i \in DOMAIN toServer : toServer[i].kind \in Aspects \cup {"observe"})'
      BY KindsAreKnown, PTL
    <2> QED  BY <1>2, <1>3, <2>1, <2>2, SmallTypesStep
  <1>7. InputIsAuthority'
    BY InputStep
  <1> QED  BY <1>1, <1>2, <1>4, <1>5, <1>6, <1>7 DEF CoreStep, CoreInv, ModelInv

\* The window model keeps its invariant.
THEOREM ModelInvariant == Spec => []ModelInv
  <1>1. Init => ModelInv
    BY InitHolds
  <1>2. ModelInv /\ [Next]_vars => ModelInv'
    BY StepHolds
  <1> QED  BY <1>1, <1>2, PTL DEF Spec

\* window_model.c: records, serials, catalog and commands keep their types.
THEOREM TypesCorrect == Spec => []TypeOK
  <1>1. ModelInv => TypeOK
    BY DEF ModelInv
  <1> QED  BY <1>1, ModelInvariant, PTL

\* window_model.c: _NET_WM_STATE shows everything the host has confirmed.
THEOREM AtomsCorrect == Spec => []AtomsShowConfirmedState
  <1>1. ModelInv => AtomsShowConfirmedState
    BY DEF ModelInv
  <1> QED  BY <1>1, ModelInvariant, PTL

\* A clean model was published as it is.
THEOREM CatalogCorrect == Spec => []CatalogIsExact
  <1>1. ModelInv => CatalogIsExact
    <2> SUFFICES ASSUME ModelInv, link = "observed", observing, ~dirty
                 PROVE  /\ DOMAIN catalog \ doubtful = DOMAIN records
                        /\ \A x \in DOMAIN records : catalog[x] = Snapshot(x, records[x])
                        /\ \A x \in DOMAIN window : window[x].realized /\ window[x].application => x \in DOMAIN catalog
      BY DEF CatalogIsExact
    <2>1. dead = {} /\ \A x \in DOMAIN records : ~Stale(x, records[x])
      BY DEF ModelInv, CleanIsPublished
    <2>2. ASSUME NEW x \in DOMAIN records
          PROVE  x \in DOMAIN catalog /\ x \notin doubtful /\ catalog[x] = Snapshot(x, records[x])
      <3>1. /\ records[x].published /\ ~records[x].changed
            /\ records[x].mapped = window[x].realized /\ records[x].title = window[x].title
        BY <2>1 DEF Stale
      <3>2. x \in DOMAIN catalog /\ x \notin doubtful /\ catalog[x] = Sent(x, records[x])
        BY <3>1 DEF ModelInv, PublishedIsKnown
      <3> QED  BY <3>1, <3>2 DEF Sent, Snapshot
    <2>3. \A x \in DOMAIN catalog \ doubtful : x \in DOMAIN records
      BY <2>1 DEF ModelInv, PublishedIsKnown
    <2> QED  BY <2>2, <2>3 DEF ModelInv, CleanIsPublished
  <1> QED  BY <1>1, ModelInvariant, PTL

-----------------------------------------------------------------------------
(* What a step does to a request *)

\* What AnswersAreCurrent says of a step.
AnswersFit ==
    \A x \in DOMAIN records \cap DOMAIN records' : \A kind \in Aspects :
        LET old == records[x]
            new == records'[x]
            m == Head(toServer)
        IN old.inc = new.inc /\ old[kind].epoch = new[kind].epoch /\ old[kind] # new[kind] =>
              /\ toServer # <<>> /\ toServer' = Tail(toServer)
              /\ m.kind = kind /\ m.id = x
              /\ m.inc = old.inc /\ m.epoch = old[kind].epoch

\* What ActivationNeedsInput says of a step.
ActivationsFit ==
    \A x \in DOMAIN records' :
        /\ records'[x].interaction.action = "activate"
        /\ x \in DOMAIN records => records[x].interaction # records'[x].interaction
        => Entitled(x)

\* The requests of the record are the ones it had.
Kept(x) ==
    /\ x \in DOMAIN records
    /\ records'[x].fullscreen = records[x].fullscreen
    /\ records'[x].maximized = records[x].maximized
    /\ records'[x].interaction = records[x].interaction

\* A step that leaves the requests alone.
LEMMA KeptFits ==
    ASSUME \A x \in DOMAIN records' : Kept(x)
    PROVE  AnswersFit /\ ActivationsFit
  <1>1. AnswersFit
    BY DEF Kept, AnswersFit, Aspects
  <1>2. ActivationsFit
    BY DEF Kept, ActivationsFit
  <1> QED  BY <1>1, <1>2

\* A request changes one record, and what it changes it asks for anew.
LEMMA AskedFits ==
    ASSUME ModelInv, NEW x \in Windows, Amends(x), Asked(RecordFor(x), records'[x]),
           NotActivated(RecordFor(x), records'[x]) \/ Entitled(x)
    PROVE  AnswersFit /\ ActivationsFit
  <1>1. PICK r \in Record, k \in Nat : Update(x, r, k)
    BY DEF Amends
  <1>2. /\ DOMAIN records' = DOMAIN records \cup {x} /\ Found(x)
        /\ \A y \in DOMAIN records : y # x => records'[y] = records[y]
    BY <1>1, UpdateFacts DEF Amends
  <1>3. x \in DOMAIN records => RecordFor(x) = records[x]
    BY DEF RecordFor
  <1>4. ASSUME NEW kind \in Aspects, x \in DOMAIN records,
               records[x][kind].epoch = records'[x][kind].epoch
        PROVE  records[x][kind] = records'[x][kind]
    <2>1. records[x] \in Record
      BY <1>4 DEF ModelInv, TypeOK
    <2>2. records[x][kind].epoch \in Nat
      BY <2>1 DEF Record, State, Interaction, Aspects
    <2> QED  BY <1>3, <1>4, <2>2 DEF Asked
  <1>5. AnswersFit
    BY <1>2, <1>4 DEF AnswersFit
  <1>6. x \notin DOMAIN records => RecordFor(x).interaction.action # "activate"
    <2>1. Allocated + k + (IF x \in DOMAIN records THEN 0 ELSE 3) =< MaxSerials
      BY <1>1 DEF Update
    <2> QED  BY <1>2, <2>1, ObtainedFacts
  <1>7. ActivationsFit
    BY <1>2, <1>3, <1>6 DEF ActivationsFit, NotActivated
  <1> QED  BY <1>5, <1>7

\* A confirmation is of the request that the record holds, or of no effect.
LEMMA ConfirmedFits ==
    ASSUME ModelInv, receiveConfirm
    PROVE  AnswersFit /\ ActivationsFit
  <1> DEFINE m == Head(toServer)
             x == m.id
  <1>0. /\ toServer # <<>> /\ toServer' = Tail(toServer)
        /\ m = toServer[1] /\ 1 \in 1..Len(toServer)
    BY HeadFacts DEF receiveConfirm
  <1>1. CASE UNCHANGED records
    BY <1>1, KeptFits DEF Kept
  <1>2. CASE x \in Windows /\ Amends(x) /\ Confirmed(m, RecordFor(x), records'[x])
    <2> HIDE DEF m, x
    <2>1. PICK r \in Record, k \in Nat : Update(x, r, k)
      BY <1>2 DEF Amends
    <2>2. /\ DOMAIN records' = DOMAIN records \cup {x} /\ Found(x)
          /\ \A y \in DOMAIN records : y # x => records'[y] = records[y]
      BY <1>2, <2>1, UpdateFacts DEF Amends
    <2>3. x \in DOMAIN records => RecordFor(x) = records[x]
      BY DEF RecordFor
    <2>4. ASSUME NEW kind \in Aspects, x \in DOMAIN records, records[x][kind] # records'[x][kind]
          PROVE  /\ m.kind = kind /\ m.id = x
                 /\ m.inc = records[x].inc /\ m.epoch = records[x][kind].epoch
      <3>1. m.kind = kind /\ records[x][kind].serial = m.serial /\ m.id = x
        BY <1>2, <2>3, <2>4 DEF Confirmed, x
      <3> QED  BY <1>0, <2>4, <3>1 DEF ModelInv, SerialsIdentify
    <2>5. AnswersFit
      BY <1>0, <2>2, <2>4 DEF AnswersFit, m
    <2>6. x \notin DOMAIN records => RecordFor(x).interaction.action # "activate"
      <3>1. Allocated + k + (IF x \in DOMAIN records THEN 0 ELSE 3) =< MaxSerials
        BY <2>1 DEF Update
      <3> QED  BY <1>2, <2>2, <3>1, ObtainedFacts
    <2>7. ActivationsFit
      BY <1>2, <2>2, <2>3, <2>6 DEF ActivationsFit, Confirmed, NotActivated
    <2> QED  BY <2>5, <2>7
  <1> QED  BY <1>1, <1>2, ConfirmAmends

\* hintsChanged asks for attention, or no more of it, under a new epoch.
LEMMA HintsFit ==
    ASSUME ModelInv, NEW x \in Windows, hintsChanged(x)
    PROVE  AnswersFit /\ ActivationsFit
  <1>1. PICK hints \in SUBSET {"urgent", "iconic"} :
          records' = [y \in DOMAIN records |->
                   IF y = x /\ managed
                   THEN [records[y] EXCEPT
                            !.interaction = AskInteraction(@, "none", "urgent" \in hints, SerialAfter(stateSerial, 1)),
                            !.changed = TRUE]
                   ELSE records[y]]
    BY DEF hintsChanged
  <1>2. ASSUME NEW y \in DOMAIN records
        PROVE  \/ Kept(y)
               \/ /\ records'[y].fullscreen = records[y].fullscreen
                  /\ records'[y].maximized = records[y].maximized
                  /\ records'[y].interaction.epoch # records[y].interaction.epoch
                  /\ records'[y].interaction.action # "activate"
    <2>0. records[y] \in Record
      BY DEF ModelInv, TypeOK
    <2>1. CASE y = x /\ managed
      <3> DEFINE o == records[y]
                 i == AskInteraction(o.interaction, "none", "urgent" \in hints, SerialAfter(stateSerial, 1))
      <3>1. records'[y] = [o EXCEPT !.interaction = i, !.changed = TRUE]
        BY <1>1, <2>1
      <3>2. o.interaction \in Interaction /\ o.interaction.epoch \in Nat
        BY <2>0 DEF Record, Interaction
      <3>3. i.epoch = o.interaction.epoch + 1 /\ i.action = "none"
        BY <3>2 DEF AskInteraction, Interaction
      <3> HIDE DEF i
      <3>4. /\ records'[y].fullscreen = o.fullscreen /\ records'[y].maximized = o.maximized
            /\ records'[y].interaction = i
        BY <2>0, <3>1 DEF Record
      <3> QED  BY <3>2, <3>3, <3>4
    <2>2. CASE ~(y = x /\ managed)
      BY <1>1, <2>2 DEF Kept
    <2> QED  BY <2>1, <2>2
  <1>3. DOMAIN records' = DOMAIN records
    BY <1>1
  <1>4. AnswersFit
    BY <1>2, <1>3 DEF AnswersFit, Kept, Aspects
  <1>5. ActivationsFit
    BY <1>2, <1>3 DEF ActivationsFit, Kept
  <1> QED  BY <1>4, <1>5

\* The refresh makes records that ask for no activation, and marks the others published.
LEMMA RefreshFits ==
    ASSUME ModelInv, lorieWindowModelRefresh
    PROVE  AnswersFit /\ ActivationsFit
  <1> DEFINE seen == {x \in DOMAIN window : Found(x)}
             fresh == seen \ DOMAIN records
             count == Cardinality(fresh)
             found(rank) == [x \in seen |-> IF x \in fresh
                                            THEN FreshRecord(x, SerialAfter(stateSerial, 3 * rank[x]))
                                            ELSE records[x]]
             stale(rank) == {x \in seen : Stale(x, found(rank)[x])}
  <1>1. PICK rank \in [fresh -> 0..(count - 1)] :
          records' = [x \in seen |-> IF x \in stale(rank) THEN Published(x, found(rank)[x]) ELSE found(rank)[x]]
    BY DEF lorieWindowModelRefresh
  <1> DEFINE f == found(rank)
             S == stale(rank)
  <1>2. DOMAIN records' = seen /\ \A x \in seen : records'[x] = IF x \in S THEN Published(x, f[x]) ELSE f[x]
    BY <1>1
  <1>3. \A x \in seen : x \in DOMAIN records => f[x] = records[x] /\ records[x] \in Record
    BY DEF ModelInv, TypeOK
  <1>4. \A x \in seen : x \notin DOMAIN records => f[x] = FreshRecord(x, SerialAfter(stateSerial, 3 * rank[x]))
    OBVIOUS
  <1> HIDE DEF f, S, seen
  <1>5. ASSUME NEW x \in seen, x \in DOMAIN records PROVE Kept(x)
    <2>1. records'[x] = Published(x, records[x]) \/ records'[x] = records[x]
      BY <1>2, <1>3, <1>5
    <2> QED  BY <1>3, <1>5, <2>1 DEF Published, Record, Kept
  <1>6. ASSUME NEW x \in seen, x \notin DOMAIN records PROVE records'[x].interaction.action # "activate"
    <2> DEFINE s == SerialAfter(stateSerial, 3 * rank[x])
    <2> HIDE DEF s
    <2>1. f[x] = FreshRecord(x, s)
      BY <1>4, <1>6 DEF s
    <2>2. records'[x] = Published(x, FreshRecord(x, s)) \/ records'[x] = FreshRecord(x, s)
      BY <1>2, <1>6, <2>1
    <2>3. FreshRecord(x, s).interaction.action \in {"none", "minimize"}
      BY DEF FreshRecord
    <2>4. Published(x, FreshRecord(x, s)).interaction = FreshRecord(x, s).interaction
      BY DEF Published, FreshRecord
    <2> QED  BY <2>2, <2>3, <2>4
  <1>7. AnswersFit
    BY <1>2, <1>5 DEF AnswersFit, Kept, Aspects
  <1>8. ActivationsFit
    BY <1>2, <1>5, <1>6 DEF ActivationsFit, Kept
  <1> QED  BY <1>7, <1>8

\* Marking records changes no request.
LEMMA MarksFit ==
    ASSUME ModelInv, (\E x \in Windows : onPosition(x)) \/ managerChanged \/ receiveObserve \/ disconnect
    PROVE  AnswersFit /\ ActivationsFit
  <1>1. DOMAIN records' = DOMAIN records
    BY DEF onPosition, managerChanged, receiveObserve, disconnect, Reset
  <1>2. ASSUME NEW y \in DOMAIN records PROVE Kept(y)
    <2>1. records[y] \in Record
      BY DEF ModelInv, TypeOK
    <2>2. \/ records'[y] = records[y]
          \/ records'[y] = [records[y] EXCEPT !.changed = TRUE]
          \/ records'[y] = [records[y] EXCEPT !.published = FALSE]
      BY DEF onPosition, managerChanged, receiveObserve, disconnect, Reset
    <2> QED  BY <2>1, <2>2 DEF Record, Kept
  <1> QED  BY <1>1, <1>2, KeptFits

\* Every step fits both properties.
LEMMA StepFits ==
    ASSUME ModelInv, [Next]_vars
    PROVE  AnswersFit /\ ActivationsFit
  <1>1. ASSUME NEW x \in Windows, stateMessage(x) \/ activateMessage(x) \/ minimizeMessage(x)
        PROVE  AnswersFit /\ ActivationsFit
    BY <1>1, StateMessageAmends, ActivateAmends, MinimizeAmends, AskedFits
  <1>2. ASSUME NEW x \in Windows, hintsChanged(x) PROVE AnswersFit /\ ActivationsFit
    BY <1>2, HintsFit
  <1>3. CASE receiveConfirm
    BY <1>3, ConfirmedFits
  <1>4. CASE lorieWindowModelRefresh
    BY <1>4, RefreshFits
  <1>5. CASE (\E x \in Windows : onPosition(x)) \/ managerChanged \/ receiveObserve \/ disconnect
    BY <1>5, MarksFit
  <1>6. ASSUME NEW x \in Windows, onDestroy(x) PROVE AnswersFit /\ ActivationsFit
    <2>1. \A y \in DOMAIN records' : Kept(y)
      BY <1>6 DEF onDestroy, Without, Kept
    <2> QED  BY <2>1, KeptFits
  <1>7. CASE UNCHANGED records
    <2>1. \A y \in DOMAIN records' : Kept(y)
      BY <1>7 DEF Kept
    <2> QED  BY <2>1, KeptFits
  <1>8. \/ \E x \in Windows : \/ stateMessage(x) \/ activateMessage(x) \/ minimizeMessage(x)
                              \/ hintsChanged(x) \/ onPosition(x) \/ onDestroy(x)
        \/ receiveConfirm \/ lorieWindowModelRefresh \/ managerChanged \/ receiveObserve \/ disconnect
        \/ UNCHANGED records
    BY DEF Next, CreateWindow, onRealize, propertyChanged, observe, answer, lorieWindowUserInput,
        connect, hangUp, tick, vars, serverVars
  <1> QED  BY <1>1, <1>2, <1>3, <1>4, <1>5, <1>6, <1>7, <1>8

\* window_model.c: an answer of the host counts for the request it answers and for no other: a
\* serial is drawn once in a session, so the serial test of the confirm functions tells a late
\* answer, and one to an earlier window of the XID, from the answer to the current request.
THEOREM AnswersCorrect == Spec => AnswersAreCurrent
  <1>1. ModelInv /\ [Next]_vars => [AnswersFit]_vars
    BY StepFits
  <1>2. Spec => [][AnswersFit]_vars
    BY <1>1, ModelInvariant, PTL DEF Spec
  <1> QED  BY <1>2 DEF AnswersFit, AnswersAreCurrent

\* window_model.c: activation is granted only on input of the same client that is recent and
\* not used, whatever the wrapping millisecond clock shows.
THEOREM ActivationCorrect == Spec => ActivationNeedsInput
  <1>1. ModelInv /\ [Next]_vars => [ActivationsFit]_vars
    BY StepFits
  <1>2. Spec => [][ActivationsFit]_vars
    BY <1>1, ModelInvariant, PTL DEF Spec
  <1> QED  BY <1>2 DEF ActivationsFit, Entitled, ActivationNeedsInput
=============================================================================
