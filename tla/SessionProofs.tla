--------------------------- MODULE SessionProofs ---------------------------
(***************************************************************************)
(* The two directions of the host's session, for messages, payloads, a     *)
(* queue and a socket of any size.                                         *)
(*                                                                         *)
(* Commands: what the server has read, what the socket holds and what the  *)
(* queue has left are the accepted messages.  That holds from step to step *)
(* only because the queue is the tail of what was accepted and because no  *)
(* message but the first is sent in part, its descriptor after its bytes   *)
(* (QueueShape).  The streams are joins of sequences of sequences; what    *)
(* FlattenSeq computes of them is proved by the least number for which it  *)
(* would fail (LeastNumber), the form of induction that needs no operator  *)
(* as a parameter.                                                         *)
(*                                                                         *)
(* Events: the units in the socket follow each other (UnitsAreOrdered) and *)
(* the first of them is the one that the header, the pending flag and the  *)
(* counts make receive() expect (CursorInv), so that what was collected is *)
(* of one event (PartsInv).                                                *)
(*                                                                         *)
(* The session then implements CommandStream: no unit occurs twice in the  *)
(* stream (StreamIsInjective), so each read completes at most one message. *)
(***************************************************************************)
EXTENDS Session, SequenceTheorems, FiniteSetTheorems, WellFoundedInduction, TLAPS

\* A nonempty set of naturals has a least member.
LEMMA LeastNumber ==
    ASSUME NEW T, T \subseteq Nat, T # {}
    PROVE  \E m \in T : \A y \in T : m <= y
<1>1. IsWellFoundedOn(OpToRel(<, Nat), Nat) BY NatLessThanWellFounded
<1>2. PICK x \in T : \A y \in T : ~(<<y, x>> \in OpToRel(<, Nat)) BY <1>1, WFMin
<1>3. \A y \in T : ~(y < x) BY <1>2 DEF OpToRel
<1> QED BY <1>3

\* f has joined the first k parts of s.
Joins(f, s, k) == f = [i \in 1..k |-> IF i = 1 THEN s[i] ELSE f[i - 1] \o s[i]]

\* What FlattenSeq() takes the last value of.
JoinOf(s) == CHOOSE f : Joins(f, s, Len(s))

\* FlattenSeq() in these terms.
LEMMA FlattenIsJoin == ASSUME NEW s, Len(s) # 0 PROVE FlattenSeq(s) = JoinOf(s)[Len(s)]
BY DEF FlattenSeq, JoinOf, Joins

\* There is such a function, for every length.
LEMMA JoinExists ==
    ASSUME NEW s, NEW k \in Nat
    PROVE  \E f : Joins(f, s, k)
<1> DEFINE T == {n \in Nat : ~\E f : Joins(f, s, n)}
<1> SUFFICES ASSUME T # {} PROVE FALSE OBVIOUS
<1>1. PICK m \in T : \A y \in T : m <= y BY LeastNumber
<1>2. \E f : Joins(f, s, 0)
  <2> DEFINE f == [i \in 1..0 |-> s[i]]
  <2>1. f = [i \in 1..0 |-> IF i = 1 THEN s[i] ELSE f[i - 1] \o s[i]] OBVIOUS
  <2> HIDE DEF f
  <2> QED BY <2>1 DEF Joins
<1>3. m - 1 \in Nat /\ m - 1 \notin T BY <1>1, <1>2
<1>4. PICK g : Joins(g, s, m - 1) BY <1>3
<1> DEFINE h == [i \in 1..m |-> IF i = m THEN (IF i = 1 THEN s[i] ELSE g[i - 1] \o s[i]) ELSE g[i]]
<1>5. ASSUME NEW i \in 1..m PROVE h[i] = IF i = 1 THEN s[i] ELSE h[i - 1] \o s[i]
  <2>1. CASE i = m
    <3>1. i # 1 => h[i - 1] = g[i - 1] BY <1>3, <2>1
    <3> QED BY <2>1, <3>1
  <2>2. CASE i # m
    <3>1. i \in 1..(m - 1) BY <1>3, <2>2
    <3>2. g[i] = IF i = 1 THEN s[i] ELSE g[i - 1] \o s[i] BY <1>4, <3>1 DEF Joins
    <3>3. i # 1 => h[i - 1] = g[i - 1] BY <1>3, <3>1
    <3> QED BY <2>2, <3>2, <3>3
  <2> QED BY <2>1, <2>2
<1>6. h = [i \in 1..m |-> IF i = 1 THEN s[i] ELSE h[i - 1] \o s[i]] BY <1>5
<1>7. Joins(h, s, m) BY <1>6 DEF Joins
<1> QED BY <1>7

\* It joins part after part.
LEMMA JoinStep ==
    ASSUME NEW s, NEW k \in Nat, NEW f, Joins(f, s, k), NEW i \in 1..k
    PROVE  f[i] = IF i = 1 THEN s[i] ELSE f[i - 1] \o s[i]
<1> DEFINE g == [j \in 1..k |-> IF j = 1 THEN s[j] ELSE f[j - 1] \o s[j]]
<1>1. f = g BY DEF Joins
<1>2. g[i] = IF i = 1 THEN s[i] ELSE f[i - 1] \o s[i] OBVIOUS
<1> HIDE DEF g
<1> QED BY ONLY <1>1, <1>2

\* And only one.
LEMMA JoinUnique ==
    ASSUME NEW s, NEW k \in Nat, NEW f, NEW g, NEW l \in Nat, Joins(f, s, k), Joins(g, s, l), l <= k
    PROVE  \A i \in 1..l : f[i] = g[i]
<1> DEFINE T == {n \in 1..l : f[n] # g[n]}
<1> SUFFICES ASSUME T # {} PROVE FALSE OBVIOUS
<1>0. T \subseteq Nat OBVIOUS
<1>1. PICK m \in T : \A y \in T : m <= y
  <2> HIDE DEF T
  <2> QED BY <1>0, LeastNumber
<1>2. f[m] = IF m = 1 THEN s[m] ELSE f[m - 1] \o s[m] BY JoinStep
<1>3. g[m] = IF m = 1 THEN s[m] ELSE g[m - 1] \o s[m] BY JoinStep
<1>4. m # 1 => m - 1 \in 1..l /\ m - 1 \notin T BY <1>1
<1> QED BY <1>2, <1>3, <1>4

\* What FlattenSeq() joins is a sequence, and grows with its last part.
LEMMA FlattenAppend ==
    ASSUME NEW S, NEW s \in Seq(Seq(S)), NEW e \in Seq(S)
    PROVE  FlattenSeq(Append(s, e)) = FlattenSeq(s) \o e
<1> DEFINE t == Append(s, e)
<1>1. /\ t \in Seq(Seq(S)) /\ Len(t) = Len(s) + 1 /\ t[Len(t)] = e /\ Len(s) \in Nat
      /\ \A i \in 1..Len(s) : t[i] = s[i]
  OBVIOUS
<1> HIDE DEF t
<1>a. Len(t) \in Nat BY <1>1
<1>2. PICK f : Joins(f, t, Len(t)) BY ONLY <1>a, JoinExists
<1>3. Joins(JoinOf(t), t, Len(t)) BY <1>2, Zenon DEF JoinOf
<1>4. FlattenSeq(t) = JoinOf(t)[Len(t)] BY <1>1, FlattenIsJoin
<1>5. CASE s = <<>>
  <2>1. FlattenSeq(s) = <<>> BY <1>5 DEF FlattenSeq
  <2>2. JoinOf(t)[1] = e
    <3>1. 1 \in 1..Len(t) /\ Len(t) = 1 BY <1>1, <1>5
    <3>2. JoinOf(t)[1] = IF 1 = 1 THEN t[1] ELSE JoinOf(t)[1 - 1] \o t[1] BY ONLY <1>a, <1>3, <3>1, JoinStep
    <3>3. t[1] = e BY ONLY <1>1, <3>1
    <3> QED BY ONLY <3>2, <3>3
  <2> QED BY <1>1, <1>4, <1>5, <2>1, <2>2 DEF t
<1>6. CASE s # <<>>
  <2>1. Len(s) # 0 /\ Len(s) \in 1..Len(t) /\ Len(t) \in 1..Len(t) BY <1>1, <1>6
  <2>2. PICK g : Joins(g, s, Len(s)) BY <1>1, JoinExists
  <2>3. Joins(JoinOf(s), s, Len(s)) BY <2>2, Zenon DEF JoinOf
  <2>4. FlattenSeq(s) = JoinOf(s)[Len(s)] BY <2>1, FlattenIsJoin
  <2>5. Joins(JoinOf(s), t, Len(s)) BY <1>1, <2>3 DEF Joins
  <2>a. Len(s) <= Len(t) /\ Len(s) \in 1..Len(s) BY <1>1, <2>1
  <2>6. JoinOf(t)[Len(s)] = JoinOf(s)[Len(s)]
    <3>1. \A i \in 1..Len(s) : JoinOf(t)[i] = JoinOf(s)[i] BY ONLY <1>1, <1>a, <1>3, <2>5, <2>a, JoinUnique
    <3> QED BY <2>a, <3>1
  <2>7. JoinOf(t)[Len(t)] = JoinOf(t)[Len(s)] \o t[Len(t)]
    <3> DEFINE l == Len(t)
    <3>1. JoinOf(t)[l] = IF l = 1 THEN t[l] ELSE JoinOf(t)[l - 1] \o t[l]
      <4>1. l \in 1..Len(t) BY <2>1
      <4> HIDE DEF l
      <4> QED BY ONLY <1>a, <1>3, <4>1, JoinStep
    <3>2. l # 1 /\ l - 1 = Len(s) BY <1>1, <2>1
    <3> QED BY <3>1, <3>2
  <2> QED BY <1>1, <1>4, <2>4, <2>6, <2>7 DEF t
<1> QED BY <1>5, <1>6

\* The type of what FlattenSeq() joins.
LEMMA FlattenType ==
    ASSUME NEW S, NEW s \in Seq(Seq(S))
    PROVE  FlattenSeq(s) \in Seq(S)
<1> DEFINE T == {n \in Nat : \E t \in Seq(Seq(S)) : Len(t) = n /\ FlattenSeq(t) \notin Seq(S)}
<1> SUFFICES ASSUME T # {} PROVE FALSE
  <2>1. Len(s) \in Nat /\ Len(s) = Len(s) OBVIOUS
  <2> QED BY <2>1
<1>1. PICK m \in T : \A y \in T : m <= y
  <2>1. T \subseteq Nat OBVIOUS
  <2> HIDE DEF T
  <2> QED BY <2>1, LeastNumber
<1>2. PICK t \in Seq(Seq(S)) : Len(t) = m /\ FlattenSeq(t) \notin Seq(S) OBVIOUS
<1>3. t # <<>> BY <1>2 DEF FlattenSeq
<1>4. PICK u \in Seq(Seq(S)), e \in Seq(S) : t = Append(u, e) BY <1>3, SequenceEmptyOrAppend
<1>5. Len(u) \in Nat /\ Len(u) < m BY <1>2, <1>4
<1>6. FlattenSeq(u) \in Seq(S) BY <1>1, <1>5
<1>7. FlattenSeq(t) = FlattenSeq(u) \o e BY <1>4, FlattenAppend
<1> QED BY <1>2, <1>6, <1>7

\* It joins what joins its halves.
LEMMA FlattenConcat ==
    ASSUME NEW S, NEW r \in Seq(Seq(S)), NEW s \in Seq(Seq(S))
    PROVE  FlattenSeq(r \o s) = FlattenSeq(r) \o FlattenSeq(s)
<1> DEFINE T == {n \in Nat : \E t \in Seq(Seq(S)) :
                     Len(t) = n /\ FlattenSeq(r \o t) # FlattenSeq(r) \o FlattenSeq(t)}
<1> SUFFICES ASSUME T # {} PROVE FALSE
  <2>1. Len(s) \in Nat /\ Len(s) = Len(s) OBVIOUS
  <2> QED BY <2>1
<1>1. PICK m \in T : \A y \in T : m <= y
  <2>1. T \subseteq Nat OBVIOUS
  <2> HIDE DEF T
  <2> QED BY <2>1, LeastNumber
<1>2. PICK t \in Seq(Seq(S)) : Len(t) = m /\ FlattenSeq(r \o t) # FlattenSeq(r) \o FlattenSeq(t) OBVIOUS
<1>3. FlattenSeq(r) \in Seq(S) BY FlattenType
<1>4. t # <<>>
  <2> SUFFICES ASSUME t = <<>> PROVE FALSE OBVIOUS
  <2>1. FlattenSeq(t) = <<>> BY DEF FlattenSeq
  <2>2. r \o t = r OBVIOUS
  <2>3. FlattenSeq(r) \o <<>> = FlattenSeq(r) BY <1>3, ConcatEmptySeq
  <2> QED BY ONLY <1>2, <2>1, <2>2, <2>3
<1>5. PICK u \in Seq(Seq(S)), x \in Seq(S) : t = Append(u, x) BY ONLY <1>4, t \in Seq(Seq(S)), SequenceEmptyOrAppend
<1>6. Len(u) \in Nat /\ Len(u) < m BY ONLY <1>2, <1>5, u \in Seq(Seq(S)), x \in Seq(S)
<1>7. FlattenSeq(r \o u) = FlattenSeq(r) \o FlattenSeq(u)
  <2>1. Len(u) \notin T
    <3> HIDE DEF T
    <3>1. m \in Nat BY <1>2
    <3> QED BY ONLY <1>1, <1>6, <3>1
  <2> QED BY <1>6, <2>1
<1> HIDE DEF T
<1>8. r \o t = Append(r \o u, x) /\ r \o u \in Seq(Seq(S)) BY <1>5
<1>9. FlattenSeq(r \o t) = FlattenSeq(r \o u) \o x BY ONLY <1>8, x \in Seq(S), FlattenAppend
<1>10. FlattenSeq(t) = FlattenSeq(u) \o x BY ONLY <1>5, u \in Seq(Seq(S)), x \in Seq(S), FlattenAppend
<1>11. FlattenSeq(u) \in Seq(S) BY FlattenType
<1>12. (FlattenSeq(r) \o FlattenSeq(u)) \o x = FlattenSeq(r) \o (FlattenSeq(u) \o x)
  BY ONLY <1>3, <1>11, x \in Seq(S), ConcatAssociative
<1> QED BY ONLY <1>2, <1>7, <1>9, <1>10, <1>12

\* One part is the whole.
LEMMA FlattenOne ==
    ASSUME NEW S, NEW r \in Seq(Seq(S)), Len(r) = 1
    PROVE  FlattenSeq(r) = r[1]
<1>1. PICK u \in Seq(Seq(S)), x \in Seq(S) : r = Append(u, x) BY SequenceEmptyOrAppend
<1>2. u = <<>> /\ x = r[1] BY <1>1
<1>3. FlattenSeq(r) = FlattenSeq(u) \o x BY <1>1, FlattenAppend
<1>4. FlattenSeq(u) = <<>> BY <1>2 DEF FlattenSeq
<1>5. <<>> \o x = x BY ConcatEmptySeq
<1> QED BY ONLY <1>2, <1>3, <1>4, <1>5

-----------------------------------------------------------------------------
(* The command queue: lorie/command_queue.h.                               *)

Wired == Nat \X Nat

\* Concatenation of units is associative.
LEMMA Associative == \A a, b, c \in Seq(Wired) : (a \o b) \o c = a \o (b \o c)
BY ConcatAssociative

\* What is left of the messages of a queue.
Remainders(q) == [j \in 1..Len(q) |-> Remainder(q[j])]

\* The units of message n, and of the first n messages, when acc were accepted.
UnitsOf(acc, n) == [j \in 1..(HeaderSize + (IF acc[n] THEN 1 ELSE 0)) |-> <<n, j>>]

StreamUpTo(acc, n) == FlattenSeq([j \in 1..n |-> UnitsOf(acc, j)])

\* command_queue.h:52-74: what is left of a message.
LEMMA RemainderType ==
    ASSUME NEW m \in Entries
    PROVE  Remainder(m) \in Seq(Wired)
<1> USE SessionAssumption
<1>1. m.n \in Nat /\ m.sent \in 0..HeaderSize /\ m.descriptor \in BOOLEAN BY DEF Entries
<1> DEFINE l == HeaderSize - m.sent + (IF m.descriptor THEN 1 ELSE 0)
<1>2. l \in Nat BY <1>1
<1>3. \A j \in 1..l : <<m.n, m.sent + j>> \in Wired BY <1>1, <1>2 DEF Wired
<1>4. Remainder(m) = [j \in 1..l |-> <<m.n, m.sent + j>>] BY DEF Remainder
<1> HIDE DEF l
<1> QED BY <1>2, <1>3, <1>4

\* What is left of each message is a sequence of units.
LEMMA RemaindersType ==
    ASSUME NEW q \in Seq(Entries)
    PROVE  Remainders(q) \in Seq(Seq(Wired)) /\ Len(Remainders(q)) = Len(q)
<1>1. \A j \in 1..Len(q) : Remainder(q[j]) \in Seq(Wired) BY RemainderType
<1> QED BY <1>1 DEF Remainders

\* command_queue.h:43-45: a message comes behind the others.
LEMMA QueueAppend ==
    ASSUME NEW q \in Seq(Entries), NEW m \in Entries
    PROVE  FlattenSeq(Remainders(Append(q, m))) = FlattenSeq(Remainders(q)) \o Remainder(m)
<1>1. Remainders(q) \in Seq(Seq(Wired)) /\ Remainder(m) \in Seq(Wired) /\ Len(Remainders(q)) = Len(q)
  BY RemainderType, RemaindersType
<1>2. Append(q, m) \in Seq(Entries) /\ Len(Append(q, m)) = Len(q) + 1 /\ Len(q) \in Nat OBVIOUS
<1>3. Remainders(Append(q, m)) = Append(Remainders(q), Remainder(m))
  <2>1. Remainders(Append(q, m)) \in Seq(Seq(Wired)) /\ Len(Remainders(Append(q, m))) = Len(q) + 1
    BY <1>2, RemaindersType
  <2>2. ASSUME NEW i \in 1..(Len(q) + 1)
        PROVE  Remainders(Append(q, m))[i] = Append(Remainders(q), Remainder(m))[i]
    <3>1. Remainders(Append(q, m))[i] = Remainder(Append(q, m)[i]) BY <1>2 DEF Remainders
    <3>2. CASE i = Len(q) + 1 BY <1>1, <1>2, <3>1, <3>2
    <3>3. CASE i # Len(q) + 1
      <4>1. i \in 1..Len(q) BY <1>2, <3>3
      <4>2. Append(q, m)[i] = q[i] BY <4>1
      <4>3. Remainders(q)[i] = Remainder(q[i]) BY <4>1 DEF Remainders
      <4>4. Append(Remainders(q), Remainder(m))[i] = Remainders(q)[i] BY <1>1, <4>1
      <4> QED BY <3>1, <4>2, <4>3, <4>4
    <3> QED BY <3>2, <3>3
  <2>3. Append(Remainders(q), Remainder(m)) \in Seq(Seq(Wired))
        /\ Len(Append(Remainders(q), Remainder(m))) = Len(q) + 1
    BY <1>1
  <2> QED BY <1>2, <2>1, <2>2, <2>3, SeqEqual
<1> QED BY <1>1, <1>3, FlattenAppend

\* command_queue.h:52-83: the first message is written first.
LEMMA QueueFirst ==
    ASSUME NEW q \in Seq(Entries), q # <<>>
    PROVE  /\ FlattenSeq(Remainders(q)) = Remainder(q[1]) \o FlattenSeq(Remainders(Tail(q)))
           /\ FlattenSeq(Remainders(Tail(q))) \in Seq(Wired)
<1>1. Tail(q) \in Seq(Entries) /\ Len(Tail(q)) = Len(q) - 1 /\ Len(q) \in Nat /\ q[1] \in Entries
      /\ \A i \in 1..(Len(q) - 1) : Tail(q)[i] = q[i + 1]
  OBVIOUS
<1> DEFINE r == Remainders(Tail(q))
<1>2. r \in Seq(Seq(Wired)) /\ Len(r) = Len(q) - 1 BY <1>1, RemaindersType
<1>3. Remainder(q[1]) \in Seq(Wired) BY <1>1, RemainderType
<1>4. Remainders(q) \in Seq(Seq(Wired)) /\ Len(Remainders(q)) = Len(q) BY RemaindersType
<1>5. ASSUME NEW i \in 1..Len(q)
      PROVE  Remainders(q)[i] = IF i = 1 THEN Remainder(q[1]) ELSE r[i - 1]
  <2>1. Remainders(q)[i] = Remainder(q[i]) BY DEF Remainders
  <2>2. CASE i = 1 BY <2>1, <2>2
  <2>3. CASE i # 1
    <3>1. i - 1 \in 1..Len(Tail(q)) /\ Tail(q)[i - 1] = q[i] BY <1>1, <2>3
    <3>2. r[i - 1] = Remainder(Tail(q)[i - 1]) BY <3>1 DEF Remainders
    <3> QED BY <2>1, <2>3, <3>1, <3>2
  <2> QED BY <2>2, <2>3
<1> DEFINE b == [i \in 1..1 |-> Remainder(q[1])]
<1>6. b \in Seq(Seq(Wired)) /\ Len(b) = 1 /\ b[1] = Remainder(q[1]) BY <1>3
<1> HIDE DEF r, b
<1>l. Len(q) \in Nat /\ Len(r) = Len(q) - 1 /\ Len(b) = 1 BY <1>1, <1>2, <1>6
<1>7. b \o r \in Seq(Seq(Wired)) /\ Len(b \o r) = Len(q)
  <2>1. b \o r \in Seq(Seq(Wired)) /\ Len(b \o r) = Len(b) + Len(r)
    BY ONLY <1>2, <1>6, ConcatProperties
  <2> QED BY ONLY <1>l, <2>1
<1>8. \A i \in 1..Len(q) : (b \o r)[i] = IF i = 1 THEN Remainder(q[1]) ELSE r[i - 1]
  <2>1. \A i \in 1..(Len(b) + Len(r)) : (b \o r)[i] = IF i <= Len(b) THEN b[i] ELSE r[i - Len(b)]
    BY ONLY <1>2, <1>6, ConcatProperties
  <2>2. b[1] = Remainder(q[1]) BY <1>6
  <2> QED BY ONLY <1>l, <2>1, <2>2
<1>9. Remainders(q) = b \o r
  <2>1. \A i \in 1..Len(q) : Remainders(q)[i] = (b \o r)[i] BY <1>5, <1>8
  <2> QED BY ONLY <1>4, <1>7, <2>1, SeqEqual
<1>10. FlattenSeq(b \o r) = FlattenSeq(b) \o FlattenSeq(r) BY <1>2, <1>6, FlattenConcat
<1>11. FlattenSeq(b) = Remainder(q[1]) BY ONLY <1>6, FlattenOne
<1>12. FlattenSeq(r) \in Seq(Wired) BY ONLY <1>2, FlattenType
<1> QED BY ONLY <1>9, <1>10, <1>11, <1>12 DEF r

\* The units of a message.
LEMMA UnitsOfType ==
    ASSUME NEW acc, NEW n \in Nat
    PROVE  /\ UnitsOf(acc, n) \in Seq(Wired)
           /\ Len(UnitsOf(acc, n)) = HeaderSize + (IF acc[n] THEN 1 ELSE 0)
           /\ \A j \in 1..Len(UnitsOf(acc, n)) : UnitsOf(acc, n)[j] = <<n, j>>
<1> DEFINE l == HeaderSize + (IF acc[n] THEN 1 ELSE 0)
<1>1. l \in Nat BY SessionAssumption
<1>2. UnitsOf(acc, n) = [j \in 1..l |-> <<n, j>>] BY DEF UnitsOf
<1> HIDE DEF l
<1>3. \A j \in 1..l : <<n, j>> \in Wired BY <1>1 DEF Wired
<1>4. [j \in 1..l |-> <<n, j>>] \in Seq(Wired) /\ Len([j \in 1..l |-> <<n, j>>]) = l BY <1>1, <1>3
<1> QED BY <1>1, <1>2, <1>4 DEF l

\* The first n messages, each in its units.
Messages(acc, n) == [j \in 1..n |-> UnitsOf(acc, j)]

\* Each message is a sequence of units.
LEMMA MessagesType ==
    ASSUME NEW acc, NEW n \in Nat
    PROVE  Messages(acc, n) \in Seq(Seq(Wired)) /\ Len(Messages(acc, n)) = n
<1>1. \A j \in 1..n : UnitsOf(acc, j) \in Seq(Wired) BY UnitsOfType
<1> QED BY <1>1 DEF Messages

\* The stream of n + 1 messages is that of n and another.
LEMMA StreamStep ==
    ASSUME NEW acc, NEW n \in Nat
    PROVE  /\ StreamUpTo(acc, n) \in Seq(Wired)
           /\ StreamUpTo(acc, n + 1) = StreamUpTo(acc, n) \o UnitsOf(acc, n + 1)
<1> DEFINE a == Messages(acc, n)
           b == Messages(acc, n + 1)
           u == UnitsOf(acc, n + 1)
<1>1. a \in Seq(Seq(Wired)) /\ Len(a) = n BY MessagesType
<1>2. b \in Seq(Seq(Wired)) /\ Len(b) = n + 1 BY MessagesType
<1>3. u \in Seq(Wired) BY UnitsOfType
<1>4. \A i \in 1..(n + 1) : b[i] = IF i = n + 1 THEN u ELSE a[i] BY DEF Messages
<1>5. StreamUpTo(acc, n) = FlattenSeq(a) /\ StreamUpTo(acc, n + 1) = FlattenSeq(b) BY DEF StreamUpTo, Messages
<1> HIDE DEF a, b, u
<1>6. /\ Append(a, u) \in Seq(Seq(Wired)) /\ Len(Append(a, u)) = n + 1
      /\ \A i \in 1..n : Append(a, u)[i] = a[i]
      /\ Append(a, u)[n + 1] = u
  BY ONLY <1>1, <1>3, n \in Nat, AppendProperties
<1>7. \A i \in 1..(n + 1) : b[i] = Append(a, u)[i]
  <2> TAKE i \in 1..(n + 1)
  <2>1. CASE i = n + 1 BY <1>4, <1>6, <2>1
  <2>2. CASE i # n + 1
    <3>1. i \in 1..n BY <2>2
    <3> QED BY ONLY <1>4, <1>6, <2>2, <3>1, i \in 1..(n + 1)
  <2> QED BY <2>1, <2>2
<1>8. b = Append(a, u) BY ONLY <1>2, <1>6, <1>7, SeqEqual
<1>9. FlattenSeq(Append(a, u)) = FlattenSeq(a) \o u BY ONLY <1>1, <1>3, FlattenAppend
<1>10. FlattenSeq(a) \in Seq(Wired) BY ONLY <1>1, FlattenType
<1> QED BY ONLY <1>5, <1>8, <1>9, <1>10 DEF u

\* Nothing accepted, nothing to write.
LEMMA EmptyStream == ASSUME NEW acc PROVE StreamUpTo(acc, 0) = <<>>
<1> DEFINE a == Messages(acc, 0)
<1>1. a \in Seq(Seq(Wired)) /\ Len(a) = 0 BY MessagesType
<1>2. StreamUpTo(acc, 0) = FlattenSeq(a) BY DEF StreamUpTo, Messages
<1> HIDE DEF a
<1>3. a = <<>> BY ONLY <1>1, EmptySeq
<1>4. FlattenSeq(a) = a BY <1>1 DEF FlattenSeq
<1> QED BY ONLY <1>2, <1>3, <1>4

\* command_queue.h:35-49: a message that is accepted comes behind the stream.
LEMMA StreamGrows ==
    ASSUME NEW acc \in Seq(BOOLEAN), NEW d \in BOOLEAN
    PROVE  StreamUpTo(Append(acc, d), Len(acc) + 1)
             = StreamUpTo(acc, Len(acc)) \o UnitsOf(Append(acc, d), Len(acc) + 1)
<1> DEFINE l == Len(acc)
           ext == Append(acc, d)
<1>1. l \in Nat /\ \A i \in 1..l : ext[i] = acc[i] OBVIOUS
<1> HIDE DEF l, ext
<1>2. StreamUpTo(ext, l + 1) = StreamUpTo(ext, l) \o UnitsOf(ext, l + 1) BY ONLY <1>1, StreamStep
<1>3. [j \in 1..l |-> UnitsOf(ext, j)] = [j \in 1..l |-> UnitsOf(acc, j)]
  <2>1. \A j \in 1..l : UnitsOf(ext, j) = UnitsOf(acc, j) BY <1>1 DEF UnitsOf
  <2> QED BY <2>1
<1>4. StreamUpTo(ext, l) = StreamUpTo(acc, l) BY <1>3 DEF StreamUpTo
<1> QED BY <1>2, <1>4 DEF l, ext

\* No unit occurs twice in a stream.
LEMMA StreamIsInjective ==
    ASSUME NEW acc, NEW n \in Nat
    PROVE  /\ \A i \in 1..Len(StreamUpTo(acc, n)) : StreamUpTo(acc, n)[i][1] \in 1..n
           /\ \A i, j \in 1..Len(StreamUpTo(acc, n)) :
                StreamUpTo(acc, n)[i] = StreamUpTo(acc, n)[j] => i = j
<1> DEFINE P(s, k) == /\ \A i \in 1..Len(s) : s[i][1] \in 1..k
                      /\ \A i, j \in 1..Len(s) : s[i] = s[j] => i = j
           T == {k \in Nat : ~P(StreamUpTo(acc, k), k)}
<1> SUFFICES ASSUME T # {} PROVE FALSE
  OBVIOUS
<1>1. PICK m \in T : \A y \in T : m <= y
  <2>1. T \subseteq Nat OBVIOUS
  <2> HIDE DEF T
  <2> QED BY <2>1, LeastNumber
<1>2. m \in Nat /\ ~P(StreamUpTo(acc, m), m) OBVIOUS
<1>3. StreamUpTo(acc, 0) = <<>> BY EmptyStream
<1>4. m # 0 BY <1>2, <1>3
<1>5. m - 1 \in Nat /\ P(StreamUpTo(acc, m - 1), m - 1)
  <2>1. m - 1 \in Nat BY <1>2, <1>4
  <2>2. m - 1 \notin T
    <3> HIDE DEF T
    <3> QED BY ONLY <1>1, <1>2, <2>1
  <2> QED BY <2>1, <2>2
<1> DEFINE a == StreamUpTo(acc, m - 1)
           u == UnitsOf(acc, m)
           s == StreamUpTo(acc, m)
<1>6. a \in Seq(Wired) /\ s = a \o u
  <2>1. m - 1 + 1 = m BY <1>2
  <2> QED BY ONLY <1>5, <2>1, StreamStep
<1>7. u \in Seq(Wired) /\ \A j \in 1..Len(u) : u[j] = <<m, j>> BY <1>2, UnitsOfType
<1>8. P(a, m - 1) BY <1>5
<1>9. ~P(s, m) BY <1>2
<1> HIDE DEF a, u, s, T
<1>10. /\ Len(a) \in Nat /\ Len(u) \in Nat /\ Len(s) = Len(a) + Len(u)
       /\ \A i \in 1..(Len(a) + Len(u)) : s[i] = IF i <= Len(a) THEN a[i] ELSE u[i - Len(a)]
  BY ONLY <1>6, <1>7, ConcatProperties, LenProperties
<1>11. ASSUME NEW i \in 1..Len(s)
       PROVE  \/ i <= Len(a) /\ s[i] = a[i] /\ s[i][1] \in 1..(m - 1)
              \/ i > Len(a) /\ s[i] = <<m, i - Len(a)>>
  <2>1. CASE i <= Len(a)
    <3>1. i \in 1..Len(a) BY ONLY <2>1, <1>10, i \in 1..Len(s)
    <3> QED BY <1>8, <1>10, <2>1, <3>1
  <2>2. CASE i > Len(a)
    <3>1. i - Len(a) \in 1..Len(u) BY ONLY <2>2, <1>10, i \in 1..Len(s)
    <3>2. s[i] = u[i - Len(a)] BY ONLY <1>10, <2>2, i \in 1..Len(s)
    <3> QED BY ONLY <1>7, <2>2, <3>1, <3>2
  <2> QED BY ONLY <2>1, <2>2, <1>10, i \in 1..Len(s)
<1>12. \A i \in 1..Len(s) : s[i][1] \in 1..m BY ONLY <1>2, <1>4, <1>11
<1>13. ASSUME NEW i \in 1..Len(s), NEW j \in 1..Len(s), s[i] = s[j] PROVE i = j
  <2>1. CASE i <= Len(a) /\ j <= Len(a)
    <3>1. i \in 1..Len(a) /\ j \in 1..Len(a) BY ONLY <2>1, <1>10, i \in 1..Len(s), j \in 1..Len(s)
    <3>2. a[i] = a[j] BY ONLY <1>10, <1>13, <2>1, i \in 1..Len(s), j \in 1..Len(s)
    <3> QED BY <1>8, <3>1, <3>2
  <2>2. CASE i > Len(a) /\ j > Len(a)
    <3>1. <<m, i - Len(a)>> = <<m, j - Len(a)>> BY <1>10, <1>11, <1>13, <2>2
    <3>2. i - Len(a) = j - Len(a) BY ONLY <3>1
    <3> QED BY ONLY <3>2, <1>10, i \in 1..Len(s), j \in 1..Len(s)
  <2>3. ASSUME NEW x \in 1..Len(s), NEW y \in 1..Len(s), x <= Len(a), y > Len(a) PROVE s[x] # s[y]
    <3>1. s[x][1] \in 1..(m - 1) BY ONLY <1>10, <1>11, <2>3, x \in 1..Len(s)
    <3>2. s[y] = <<m, y - Len(a)>> BY ONLY <1>10, <1>11, <2>3, y \in 1..Len(s)
    <3>3. s[y][1] = m BY ONLY <3>2
    <3> QED BY ONLY <1>2, <3>1, <3>3
  <2> QED BY <1>10, <1>13, <2>1, <2>2, <2>3
<1> QED BY <1>9, <1>12, <1>13

-----------------------------------------------------------------------------
\* The Looper is inside a function of the session only while there is a connection.
ConnInv ==
    /\ fd \in 0..MaxSessions /\ sessions \in 0..MaxSessions
    /\ peerOpen \in BOOLEAN
    /\ watching \in SUBSET {"input", "output"}
    /\ pc \in {"idle", "greet", "flush", "descriptor"}
    /\ greetings \in 0..2
    /\ peerOpen => fd # 0
    /\ fd = 0 => pc = "idle"
    /\ pc = "greet" => greetings > 0

\* The queue holds the last messages accepted; only the first of them may have
\* been sent in part, its descriptor after its bytes.
QueueShape ==
    /\ Len(commands) <= Len(accepted)
    /\ \A j \in 1..Len(commands) :
         /\ commands[j].n = Len(accepted) - Len(commands) + j
         /\ j > 1 => commands[j].sent = 0
         /\ commands[j].descriptor => accepted[commands[j].n]
         /\ accepted[commands[j].n] /\ ~commands[j].descriptor => j = 1 /\ commands[j].sent = HeaderSize

\* StreamIsWhole, with or without a connection.
StreamWhole == read \o wire \o Unsent = StreamOf(Len(accepted))

\* The types of the queue and of the socket.
OutTypes ==
    /\ commands \in Seq(Entries)
    /\ bytes \in 0..MaxBytes /\ count \in 0..MaxMessages
    /\ copies \in SUBSET Nat
    /\ accepted \in Seq(BOOLEAN)
    /\ wire \in Seq(Wired) /\ read \in Seq(Wired)

\* The invariant of the commands.
OutInv == OutTypes /\ CountsMatchQueue /\ CopiesAreOwned /\ QueueShape /\ StreamWhole

\* The stream and the queue in terms of their values.
LEMMA OutInTerms ==
    /\ StreamOf(Len(accepted)) = StreamUpTo(accepted, Len(accepted))
    /\ Unsent = FlattenSeq(Remainders(commands))
BY DEF StreamOf, StreamUpTo, MessageUnits, UnitsOf, Unsent, Remainders

\* The same after a step.
LEMMA OutInTermsNext ==
    /\ StreamOf(Len(accepted))' = StreamUpTo(accepted', Len(accepted'))
    /\ Unsent' = FlattenSeq(Remainders(commands'))
BY DEF StreamOf, StreamUpTo, MessageUnits, UnitsOf, Unsent, Remainders

\* command_queue.h:75-83: a message that is sent has nothing left.
LEMMA StreamRetires ==
    ASSUME NEW q \in Seq(Entries), q # <<>>, q[1].sent = HeaderSize, ~q[1].descriptor
    PROVE  FlattenSeq(Remainders(q)) = FlattenSeq(Remainders(Tail(q)))
<1> DEFINE rest == FlattenSeq(Remainders(Tail(q)))
<1>1. FlattenSeq(Remainders(q)) = Remainder(q[1]) \o rest /\ rest \in Seq(Wired) BY QueueFirst
<1>2. Remainder(q[1]) = <<>> BY SessionAssumption DEF Remainder
<1> HIDE DEF rest
<1>3. <<>> \o rest = rest BY <1>1, ConcatEmptySeq
<1> QED BY ONLY <1>1, <1>2, <1>3 DEF rest

\* command_queue.h:35-49: a message is accepted and queued whole.
LEMMA StreamAccepts ==
    ASSUME NEW q \in Seq(Entries), NEW acc \in Seq(BOOLEAN), NEW d \in BOOLEAN,
           NEW r \in Seq(Wired), NEW w \in Seq(Wired),
           r \o w \o FlattenSeq(Remainders(q)) = StreamUpTo(acc, Len(acc))
    PROVE  r \o w \o FlattenSeq(Remainders(Append(q, [n |-> Len(acc) + 1, sent |-> 0, descriptor |-> d])))
             = StreamUpTo(Append(acc, d), Len(acc) + 1)
<1> DEFINE m == [n |-> Len(acc) + 1, sent |-> 0, descriptor |-> d]
           f == FlattenSeq(Remainders(q))
<1>1. m \in Entries BY SessionAssumption DEF Entries
<1>2. FlattenSeq(Remainders(Append(q, m))) = f \o Remainder(m)
  <2> HIDE DEF m
  <2> QED BY <1>1, QueueAppend
<1>3. Remainder(m) = UnitsOf(Append(acc, d), Len(acc) + 1)
  <2>1. Append(acc, d)[Len(acc) + 1] = d OBVIOUS
  <2>2. m.n = Len(acc) + 1 /\ m.sent = 0 /\ m.descriptor = d OBVIOUS
  <2> HIDE DEF m
  <2>3. HeaderSize - 0 = HeaderSize /\ HeaderSize \in Nat /\ \A j \in Nat : 0 + j = j BY SessionAssumption
  <2>4. Remainder(m) = [j \in 1..(HeaderSize + (IF d THEN 1 ELSE 0)) |-> <<Len(acc) + 1, j>>]
    BY <2>2, <2>3 DEF Remainder
  <2>5. UnitsOf(Append(acc, d), Len(acc) + 1) = [j \in 1..(HeaderSize + (IF d THEN 1 ELSE 0)) |-> <<Len(acc) + 1, j>>]
    BY <2>1 DEF UnitsOf
  <2> QED BY ONLY <2>4, <2>5
<1>4. f \in Seq(Wired)
  <2>1. Remainders(q) \in Seq(Seq(Wired)) BY RemaindersType
  <2> QED BY <2>1, FlattenType
<1>5. Remainder(m) \in Seq(Wired) BY <1>1, RemainderType
<1> DEFINE v == Remainder(m)
<1> HIDE DEF m, f, v
<1>6. r \o w \in Seq(Wired) BY ConcatProperties
<1>7. (r \o w) \o (f \o v) = ((r \o w) \o f) \o v
  <2>1. v \in Seq(Wired) BY <1>5 DEF v
  <2> QED BY ONLY <1>4, <1>6, <2>1, Associative, Zenon
<1>8. StreamUpTo(Append(acc, d), Len(acc) + 1) = StreamUpTo(acc, Len(acc)) \o v BY <1>3, StreamGrows DEF v
<1>9. r \o w \o f = StreamUpTo(acc, Len(acc)) BY DEF f
<1>10. r \o w \o FlattenSeq(Remainders(Append(q, m))) = StreamUpTo(Append(acc, d), Len(acc) + 1)
  BY ONLY <1>2, <1>7, <1>8, <1>9 DEF v
<1> QED BY ONLY <1>10 DEF m

\* The open duplicates of a queue.
LEMMA DescriptorsOf ==
    ASSUME NEW q \in Seq(Entries)
    PROVE  \A x : x \in Descriptors(q) <=> \E j \in 1..Len(q) : q[j].descriptor /\ q[j].n = x
<1>1. ToSet(q) = {q[j] : j \in 1..Len(q)} BY DEF ToSet
<1> QED BY <1>1 DEF Descriptors

\* command_queue.h:35-49: a message is appended.
LEMMA AppendStep ==
    ASSUME OutInv, NEW d \in BOOLEAN, append(d), wire' = wire, read' = read
    PROVE  OutInv'
<1> USE SessionAssumption
<1> DEFINE l == Len(accepted)
           k == Len(commands)
           m == [n |-> Len(accepted) + 1, sent |-> 0, descriptor |-> d]
<1>t. OutTypes BY DEF OutInv
<1>1. /\ commands' = Append(commands, m) /\ accepted' = Append(accepted, d)
      /\ copies' = IF d THEN copies \cup {l + 1} ELSE copies
      /\ bytes' = bytes + HeaderSize /\ count' = count + 1
      /\ bytes + HeaderSize <= MaxBytes /\ count < MaxMessages
  BY DEF append, Fits
<1>2. m \in Entries /\ m.n = l + 1 /\ m.sent = 0 /\ m.descriptor = d BY <1>t DEF OutTypes, Entries
<1> HIDE DEF m
<1>3. /\ l \in Nat /\ k \in Nat /\ Len(accepted') = l + 1 /\ Len(commands') = k + 1
      /\ \A j \in 1..l : accepted'[j] = accepted[j]
      /\ accepted'[l + 1] = d
      /\ \A j \in 1..k : commands'[j] = commands[j]
      /\ commands'[k + 1] = m
  BY <1>1, <1>2, <1>t DEF OutTypes
<1>4. commands' \in Seq(Entries) /\ accepted' \in Seq(BOOLEAN) BY <1>1, <1>2, <1>t DEF OutTypes
<1>5. OutTypes'
  <2>1. bytes' \in 0..MaxBytes /\ count' \in 0..MaxMessages BY <1>1, <1>t DEF OutTypes
  <2>2. copies' \subseteq copies \cup {l + 1} /\ copies \subseteq Nat /\ l + 1 \in Nat
    BY <1>1, <1>3, <1>t DEF OutTypes
  <2> QED BY <1>4, <1>t, <2>1, <2>2 DEF OutTypes
<1>6. CountsMatchQueue'
  <2>1. bytes = HeaderSize * k /\ count = k BY DEF OutInv, CountsMatchQueue
  <2>2. HeaderSize * (k + 1) = HeaderSize * k + HeaderSize BY <1>3
  <2> QED BY <1>1, <1>3, <2>1, <2>2 DEF CountsMatchQueue
<1>7. CopiesAreOwned'
  <2>1. copies = Descriptors(commands) BY DEF OutInv, CopiesAreOwned
  <2>2. \A x : x \in Descriptors(commands) <=> \E j \in 1..k : commands[j].descriptor /\ commands[j].n = x
    BY <1>t, DescriptorsOf DEF OutTypes
  <2>3. \A x : x \in Descriptors(commands') <=>
                 \E j \in 1..(k + 1) : commands'[j].descriptor /\ commands'[j].n = x
    BY <1>3, <1>4, DescriptorsOf
  <2>4. ASSUME NEW x PROVE x \in copies' <=> x \in Descriptors(commands')
    <3>1. (\E j \in 1..(k + 1) : commands'[j].descriptor /\ commands'[j].n = x) <=>
            \/ \E j \in 1..k : commands[j].descriptor /\ commands[j].n = x
            \/ d /\ l + 1 = x
      <4>1. \A j \in 1..(k + 1) : j \in 1..k \/ j = k + 1 BY <1>3
      <4>2. k + 1 \in 1..(k + 1) /\ \A j \in 1..k : j \in 1..(k + 1) BY <1>3
      <4> HIDE DEF k, l
      <4> QED BY ONLY <1>2, <1>3, <4>1, <4>2
    <3> QED BY ONLY <1>1, <2>1, <2>2, <2>3, <3>1
  <2> QED BY <2>4 DEF CopiesAreOwned
<1>8. QueueShape'
  <2>1. /\ k <= l
        /\ \A j \in 1..k :
             /\ commands[j].n = l - k + j
             /\ j > 1 => commands[j].sent = 0
             /\ commands[j].descriptor => accepted[commands[j].n]
             /\ accepted[commands[j].n] /\ ~commands[j].descriptor => j = 1 /\ commands[j].sent = HeaderSize
    BY DEF OutInv, QueueShape
  <2> HIDE DEF k, l
  <2>2. ASSUME NEW j \in 1..(k + 1)
        PROVE  /\ commands'[j].n = (l + 1) - (k + 1) + j
               /\ j > 1 => commands'[j].sent = 0
               /\ commands'[j].descriptor => accepted'[commands'[j].n]
               /\ accepted'[commands'[j].n] /\ ~commands'[j].descriptor =>
                    j = 1 /\ commands'[j].sent = HeaderSize
    <3>1. CASE j = k + 1
      <4>1. commands'[j] = m BY ONLY <1>3, <3>1
      <4> QED BY ONLY <1>2, <1>3, <2>1, <3>1, <4>1
    <3>2. CASE j \in 1..k
      <4>1. commands'[j] = commands[j] BY ONLY <1>3, <3>2
      <4>2. commands[j].n \in 1..l BY ONLY <1>3, <2>1, <3>2
      <4>3. accepted'[commands[j].n] = accepted[commands[j].n] BY ONLY <1>3, <4>2
      <4> QED BY ONLY <1>3, <2>1, <3>2, <4>1, <4>3
    <3> QED BY <1>3, <3>1, <3>2
  <2>3. k + 1 <= l + 1 BY ONLY <1>3, <2>1
  <2> QED BY ONLY <1>3, <2>2, <2>3 DEF QueueShape
<1>9. StreamWhole'
  <2>1. read \o wire \o FlattenSeq(Remainders(commands)) = StreamUpTo(accepted, Len(accepted))
    BY OutInTerms DEF OutInv, StreamWhole
  <2>2. read \o wire \o FlattenSeq(Remainders(Append(commands, m)))
          = StreamUpTo(Append(accepted, d), Len(accepted) + 1)
    BY ONLY <1>t, <2>1, d \in BOOLEAN, StreamAccepts DEF OutTypes, m
  <2>3. Len(accepted') = Len(accepted) + 1 BY <1>3
  <2> QED BY ONLY <1>1, <2>2, <2>3, wire' = wire, read' = read, OutInTermsNext DEF StreamWhole
<1> QED BY <1>5, <1>6, <1>7, <1>8, <1>9 DEF OutInv

\* command_queue.h:52-83: the first message is replaced by what is left of it.
LEMMA SendStep ==
    ASSUME OutInv, commands # <<>>, NEW m \in Entries, NEW u \in Seq(Wired),
           Remainder(commands[1]) = u \o Remainder(m),
           m.n = First.n, m.descriptor => First.descriptor,
           First.descriptor /\ ~m.descriptor => m.sent = HeaderSize,
           First.sent = HeaderSize => m.sent = HeaderSize,
           commands' = [commands EXCEPT ![1] = m], wire' = wire \o u, read' = read,
           copies' = IF First.descriptor /\ ~m.descriptor THEN copies \ {First.n} ELSE copies,
           UNCHANGED <<bytes, count, accepted>>
    PROVE  OutInv'
<1> USE SessionAssumption
<1> DEFINE l == Len(accepted)
           k == Len(commands)
<1>t. OutTypes BY DEF OutInv
<1>1. First = commands[1] /\ First \in Entries BY <1>t DEF First, OutTypes
<1>2. /\ l \in Nat /\ k \in Nat /\ k >= 1 /\ Len(accepted') = l /\ Len(commands') = k
      /\ commands' \in Seq(Entries)
      /\ \A j \in 1..k : commands'[j] = IF j = 1 THEN m ELSE commands[j]
  BY <1>t DEF OutTypes
<1>3. OutTypes'
  <2>1. wire' \in Seq(Wired) BY <1>t DEF OutTypes
  <2> QED BY <1>2, <1>t, <2>1 DEF OutTypes
<1>4. CountsMatchQueue' BY <1>2 DEF OutInv, CountsMatchQueue
<1>5. /\ k <= l
      /\ \A j \in 1..k :
           /\ commands[j].n = l - k + j
           /\ j > 1 => commands[j].sent = 0
           /\ commands[j].descriptor => accepted[commands[j].n]
           /\ accepted[commands[j].n] /\ ~commands[j].descriptor => j = 1 /\ commands[j].sent = HeaderSize
  BY DEF OutInv, QueueShape
<1>6. CopiesAreOwned'
  <2>1. copies = Descriptors(commands) BY DEF OutInv, CopiesAreOwned
  <2>2. \A x : x \in Descriptors(commands) <=> \E j \in 1..k : commands[j].descriptor /\ commands[j].n = x
    BY <1>t, DescriptorsOf DEF OutTypes
  <2>3. \A x : x \in Descriptors(commands') <=> \E j \in 1..k : commands'[j].descriptor /\ commands'[j].n = x
    <3>1. commands' \in Seq(Entries) /\ Len(commands') = k BY <1>2
    <3> QED BY ONLY <3>1, DescriptorsOf
  <2> HIDE DEF k, l
  <2>4. \A j \in 1..k : j # 1 => commands[j].n # commands[1].n
    <3> TAKE j \in 1..k
    <3>1. commands[j].n = l - k + j /\ commands[1].n = l - k + 1 BY ONLY <1>2, <1>5, j \in 1..k
    <3> QED BY ONLY <1>2, <3>1, j \in 1..k
  <2>5. ASSUME NEW x PROVE x \in copies' <=> x \in Descriptors(commands')
    <3>1. 1 \in 1..k BY ONLY <1>2
    <3>2. CASE First.descriptor /\ ~m.descriptor
      <4>1. x \in copies' <=> (\E j \in 1..k : commands[j].descriptor /\ commands[j].n = x) /\ x # commands[1].n
        BY <1>1, <2>1, <2>2, <3>2
      <4>2. (\E j \in 1..k : commands'[j].descriptor /\ commands'[j].n = x)
              <=> \E j \in 1..k : j # 1 /\ commands[j].descriptor /\ commands[j].n = x
        BY ONLY <1>2, <3>2
      <4> QED BY ONLY <2>3, <2>4, <3>1, <4>1, <4>2
    <3>3. CASE ~(First.descriptor /\ ~m.descriptor)
      <4>1. x \in copies' <=> \E j \in 1..k : commands[j].descriptor /\ commands[j].n = x
        BY <2>1, <2>2, <3>3
      <4>2. (\E j \in 1..k : commands'[j].descriptor /\ commands'[j].n = x)
              <=> \E j \in 1..k : commands[j].descriptor /\ commands[j].n = x
        BY <1>1, <1>2, <3>1, <3>3
      <4> QED BY ONLY <2>3, <4>1, <4>2
    <3> QED BY <3>2, <3>3
  <2> QED BY <2>5 DEF CopiesAreOwned
<1>7. QueueShape'
  <2> HIDE DEF k, l
  <2>1. 1 \in 1..k /\ accepted' = accepted BY <1>2
  <2>2. ASSUME NEW j \in 1..k
        PROVE  /\ commands'[j].n = l - k + j
               /\ j > 1 => commands'[j].sent = 0
               /\ commands'[j].descriptor => accepted[commands'[j].n]
               /\ accepted[commands'[j].n] /\ ~commands'[j].descriptor =>
                    j = 1 /\ commands'[j].sent = HeaderSize
    <3>1. CASE j = 1
      <4>1. commands'[j] = m BY ONLY <1>2, <3>1, j \in 1..k
      <4>2. /\ commands[1].n = l - k + 1
            /\ commands[1].descriptor => accepted[commands[1].n]
            /\ accepted[commands[1].n] /\ ~commands[1].descriptor => commands[1].sent = HeaderSize
        BY ONLY <1>5, <2>1
      <4> QED BY <1>1, <3>1, <4>1, <4>2
    <3>2. CASE j # 1
      <4>1. commands'[j] = commands[j] BY ONLY <1>2, <3>2, j \in 1..k
      <4> QED BY ONLY <1>5, <3>2, <4>1, j \in 1..k
    <3> QED BY <3>1, <3>2
  <2> QED BY ONLY <1>2, <1>5, <2>1, <2>2 DEF QueueShape
<1>8. StreamWhole'
  <2>1. read \o wire \o FlattenSeq(Remainders(commands)) = StreamUpTo(accepted, Len(accepted))
    BY OutInTerms DEF OutInv, StreamWhole
  <2>2. read \o (wire \o u) \o FlattenSeq(Remainders(commands'))
          = read \o wire \o FlattenSeq(Remainders(commands))
    <3> DEFINE rest == FlattenSeq(Remainders(Tail(commands)))
               e == Remainder(m)
               x == read \o wire
    <3>1. commands \in Seq(Entries) /\ read \in Seq(Wired) /\ wire \in Seq(Wired) BY <1>t DEF OutTypes
    <3>2. commands' \in Seq(Entries) /\ commands' # <<>> /\ commands'[1] = m /\ Tail(commands') = Tail(commands)
      BY <3>1
    <3>3. FlattenSeq(Remainders(commands)) = (u \o e) \o rest /\ rest \in Seq(Wired) BY <3>1, QueueFirst
    <3>4. FlattenSeq(Remainders(commands')) = e \o rest
      <4>1. FlattenSeq(Remainders(commands')) = Remainder(commands'[1]) \o FlattenSeq(Remainders(Tail(commands')))
        BY <3>2, QueueFirst
      <4> QED BY <3>2, <4>1
    <3>5. e \in Seq(Wired) BY RemainderType
    <3>6. rest \in Seq(Wired) /\ u \in Seq(Wired) /\ x \in Seq(Wired) BY <3>1, <3>3
    <3>7. read \o (wire \o u) = x \o u BY ONLY <3>1, <3>6, Associative DEF x
    <3> DEFINE y == e \o rest
    <3>8. y \in Seq(Wired) BY <3>5, <3>6, ConcatProperties
    <3> HIDE DEF rest, e, x, y
    <3>9. (u \o e) \o rest = u \o y BY ONLY <3>5, <3>6, Associative DEF y
    <3>10. (x \o u) \o y = x \o (u \o y) BY ONLY <3>6, <3>8, Associative
    <3> QED BY ONLY <3>3, <3>4, <3>7, <3>9, <3>10 DEF x, y
  <2>3. accepted' = accepted OBVIOUS
  <2> QED BY ONLY <2>1, <2>2, <2>3, wire' = wire \o u, read' = read, OutInTermsNext DEF StreamWhole
<1> QED BY <1>3, <1>4, <1>6, <1>7, <1>8 DEF OutInv

\* command_queue.h:55-58: bytes of the first message are sent.
LEMMA SendPartStep ==
    ASSUME OutInv, NEW k \in 1..HeaderSize, SendPart(k)
    PROVE  OutInv'
<1> USE SessionAssumption
<1>t. OutTypes BY DEF OutInv
<1>1. commands # <<>> /\ First.sent < HeaderSize /\ k <= HeaderSize - First.sent BY DEF SendPart
<1>2. First = commands[1] /\ First \in Entries BY <1>1, <1>t DEF First, OutTypes
<1>3. First.n \in Nat /\ First.sent \in 0..HeaderSize /\ First.descriptor \in BOOLEAN BY <1>2 DEF Entries
<1> DEFINE m == [First EXCEPT !.sent = First.sent + k]
           u == [j \in 1..k |-> <<First.n, First.sent + j>>]
<1>4. m \in Entries /\ m.n = First.n /\ m.sent = First.sent + k /\ m.descriptor = First.descriptor
  <2>1. First.sent + k \in 0..HeaderSize BY <1>1, <1>3
  <2> QED BY <1>2, <2>1 DEF Entries
<1>5. u \in Seq(Wired) /\ Len(u) = k /\ \A j \in 1..k : u[j] = <<First.n, First.sent + j>>
  <2>1. \A j \in 1..k : <<First.n, First.sent + j>> \in Wired BY <1>3 DEF Wired
  <2> QED BY <2>1
<1>6. commands' = [commands EXCEPT ![1] = m]
  BY <1>1, <1>2 DEF SendPart
<1>7. wire' = wire \o u BY DEF SendPart
<1>8. UNCHANGED <<bytes, count, accepted, copies, read>> BY DEF SendPart
<1> HIDE DEF m, u
<1>9. Remainder(commands[1]) = u \o Remainder(m)
  <2> DEFINE a == Remainder(commands[1])
             b == Remainder(m)
             x == IF First.descriptor THEN 1 ELSE 0
  <2>x. x \in {0, 1} OBVIOUS
  <2>1. a = [j \in 1..(HeaderSize - First.sent + x) |-> <<First.n, First.sent + j>>]
    BY <1>2 DEF Remainder
  <2>2. b = [j \in 1..(HeaderSize - (First.sent + k) + x) |-> <<First.n, (First.sent + k) + j>>]
    BY <1>4 DEF Remainder
  <2>3. a \in Seq(Wired) /\ b \in Seq(Wired) BY <1>2, <1>4, RemainderType
  <2> HIDE DEF a, b, x
  <2>4. /\ Len(a) = HeaderSize - First.sent + x
        /\ \A j \in 1..Len(a) : a[j] = <<First.n, First.sent + j>>
    BY ONLY <1>1, <1>3, <2>x, <2>1, <2>3, SessionAssumption
  <2>5. /\ Len(b) = HeaderSize - (First.sent + k) + x
        /\ \A j \in 1..Len(b) : b[j] = <<First.n, (First.sent + k) + j>>
    BY ONLY <1>1, <1>3, <2>x, <2>2, <2>3, SessionAssumption, k \in 1..HeaderSize
  <2>6. /\ u \o b \in Seq(Wired) /\ Len(u \o b) = Len(u) + Len(b)
        /\ \A j \in 1..(Len(u) + Len(b)) : (u \o b)[j] = IF j <= Len(u) THEN u[j] ELSE b[j - Len(u)]
    BY ONLY <1>5, <2>3, ConcatProperties
  <2>7. Len(a) = Len(u \o b) BY ONLY <1>3, <1>5, <2>x, <2>4, <2>5, <2>6, SessionAssumption, k \in 1..HeaderSize
  <2>8. ASSUME NEW j \in 1..Len(a) PROVE a[j] = (u \o b)[j]
    <3>0. Len(a) \in Nat /\ Len(b) \in Nat /\ j \in 1..(Len(u) + Len(b)) BY ONLY <2>3, <2>6, <2>7, j \in 1..Len(a), LenProperties
    <3>1. CASE j <= k
      <4>1. j \in 1..k BY ONLY <3>0, <3>1, k \in 1..HeaderSize
      <4>2. (u \o b)[j] = u[j] BY ONLY <1>5, <2>6, <3>0, <3>1
      <4> QED BY ONLY <1>5, <2>4, <4>1, <4>2, j \in 1..Len(a)
    <3>2. CASE j > k
      <4>1. j - k \in 1..Len(b) BY ONLY <1>5, <3>0, <3>2, k \in 1..HeaderSize
      <4>2. (u \o b)[j] = b[j - k] BY ONLY <1>5, <2>6, <3>0, <3>2, k \in 1..HeaderSize
      <4>3. b[j - k] = <<First.n, (First.sent + k) + (j - k)>> BY ONLY <2>5, <4>1
      <4>4. (First.sent + k) + (j - k) = First.sent + j BY ONLY <1>3, <3>0, k \in 1..HeaderSize, SessionAssumption
      <4> QED BY ONLY <2>4, <4>2, <4>3, <4>4, j \in 1..Len(a)
    <3> QED BY ONLY <3>0, <3>1, <3>2, k \in 1..HeaderSize, SessionAssumption
  <2>9. a = u \o b BY ONLY <2>3, <2>6, <2>7, <2>8, SeqEqual
  <2> QED BY <2>9 DEF a, b
<1>10. /\ m.descriptor => First.descriptor
       /\ First.descriptor /\ ~m.descriptor => m.sent = HeaderSize
       /\ First.sent = HeaderSize => m.sent = HeaderSize
       /\ copies' = IF First.descriptor /\ ~m.descriptor THEN copies \ {First.n} ELSE copies
  BY <1>1, <1>3, <1>4, <1>8
<1> QED BY ONLY OutInv, <1>1, <1>4, <1>5, <1>6, <1>7, <1>8, <1>9, <1>10, SendStep

\* command_queue.h:59-74: the descriptor of the first message is sent.
LEMMA SendDescriptorStep ==
    ASSUME OutInv, SendDescriptor
    PROVE  OutInv'
<1> USE SessionAssumption
<1>t. OutTypes BY DEF OutInv
<1>1. commands # <<>> /\ First.sent = HeaderSize /\ First.descriptor BY DEF SendDescriptor
<1>2. First = commands[1] /\ First \in Entries BY <1>1, <1>t DEF First, OutTypes
<1>3. First.n \in Nat BY <1>2 DEF Entries
<1> DEFINE m == [First EXCEPT !.descriptor = FALSE]
           x == <<First.n, HeaderSize + 1>>
           u == Append(<<>>, x)
<1>4. m \in Entries /\ m.n = First.n /\ m.sent = HeaderSize /\ ~m.descriptor
  BY <1>1, <1>2, <1>3 DEF Entries
<1>5. x \in Wired BY <1>3 DEF Wired
<1>6. commands' = [commands EXCEPT ![1] = m] BY <1>1, <1>2 DEF SendDescriptor
<1>7. wire' = Append(wire, x) BY DEF SendDescriptor
<1>8. UNCHANGED <<bytes, count, accepted, read>> /\ copies' = copies \ {First.n} BY DEF SendDescriptor
<1>9. Remainder(m) = <<>> BY <1>4 DEF Remainder
<1> HIDE DEF m, x
<1>10. u \in Seq(Wired) /\ Len(u) = 1 /\ u[1] = x BY <1>5
<1>11. wire' = wire \o u
  <2>1. wire \in Seq(Wired) BY <1>t DEF OutTypes
  <2> QED BY <1>5, <1>7, <2>1
<1> HIDE DEF u
<1>12. Remainder(commands[1]) = u
  <2>1. Remainder(commands[1]) = [j \in 1..(HeaderSize - HeaderSize + 1) |-> <<First.n, HeaderSize + j>>]
    BY <1>1, <1>2 DEF Remainder
  <2>2. HeaderSize - HeaderSize + 1 = 1 OBVIOUS
  <2>3. Remainder(commands[1]) = [j \in 1..1 |-> <<First.n, HeaderSize + j>>] BY ONLY <2>1, <2>2
  <2> QED BY ONLY <1>10, <2>3 DEF x
<1>13. u \o Remainder(m) = u BY ONLY <1>9, <1>10, ConcatEmptySeq
<1>14. Remainder(commands[1]) = u \o Remainder(m) BY ONLY <1>12, <1>13
<1>15. /\ m.descriptor => First.descriptor
       /\ First.descriptor /\ ~m.descriptor => m.sent = HeaderSize
       /\ First.sent = HeaderSize => m.sent = HeaderSize
       /\ copies' = IF First.descriptor /\ ~m.descriptor THEN copies \ {First.n} ELSE copies
  BY <1>1, <1>4, <1>8
<1> QED BY ONLY OutInv, <1>1, <1>4, <1>6, <1>8, <1>10, <1>11, <1>14, <1>15, SendStep

\* command_queue.h:75-83: the first message is done with.
LEMMA RetireStep ==
    ASSUME OutInv, Retire
    PROVE  OutInv'
<1> USE SessionAssumption
<1> DEFINE l == Len(accepted)
           k == Len(commands)
<1>t. OutTypes BY DEF OutInv
<1>1. /\ commands # <<>> /\ commands[1].sent = HeaderSize /\ ~commands[1].descriptor
      /\ commands' = Tail(commands) /\ bytes' = bytes - HeaderSize /\ count' = count - 1
      /\ UNCHANGED <<copies, accepted, wire, read>>
  BY DEF Retire, IsSent, First
<1>2. /\ l \in Nat /\ k \in Nat /\ k >= 1 /\ Len(commands') = k - 1 /\ commands' \in Seq(Entries)
      /\ \A j \in 1..(k - 1) : commands'[j] = commands[j + 1]
  BY <1>1, <1>t DEF OutTypes
<1>3. bytes = HeaderSize * k /\ count = k BY DEF OutInv, CountsMatchQueue
<1>4. HeaderSize * (k - 1) = HeaderSize * k - HeaderSize /\ HeaderSize * (k - 1) >= 0 BY <1>2
<1>5. OutTypes'
  <2>1. bytes' \in 0..MaxBytes /\ count' \in 0..MaxMessages BY <1>1, <1>2, <1>3, <1>4, <1>t DEF OutTypes
  <2> QED BY <1>1, <1>2, <1>t, <2>1 DEF OutTypes
<1>6. CountsMatchQueue' BY <1>1, <1>2, <1>3, <1>4 DEF CountsMatchQueue
<1>7. CopiesAreOwned'
  <2>1. copies = Descriptors(commands) BY DEF OutInv, CopiesAreOwned
  <2>2. \A x : x \in Descriptors(commands) <=> \E j \in 1..k : commands[j].descriptor /\ commands[j].n = x
    BY <1>t, DescriptorsOf DEF OutTypes
  <2>3. \A x : x \in Descriptors(commands') <=>
                 \E j \in 1..(k - 1) : commands'[j].descriptor /\ commands'[j].n = x
    <3>1. commands' \in Seq(Entries) /\ Len(commands') = k - 1 BY <1>2
    <3> QED BY ONLY <3>1, DescriptorsOf
  <2>4. ASSUME NEW x
        PROVE (\E j \in 1..k : commands[j].descriptor /\ commands[j].n = x)
                <=> \E j \in 1..(k - 1) : commands'[j].descriptor /\ commands'[j].n = x
    <3> HIDE DEF k
    <3>1. ASSUME NEW j \in 1..k, commands[j].descriptor, commands[j].n = x
          PROVE  \E i \in 1..(k - 1) : commands'[i].descriptor /\ commands'[i].n = x
      <4>1. j # 1 BY ONLY <1>1, <3>1
      <4>2. j - 1 \in 1..(k - 1) /\ (j - 1) + 1 = j BY ONLY <1>2, <4>1, j \in 1..k
      <4>3. commands'[j - 1] = commands[j] BY ONLY <1>2, <4>2
      <4> QED BY ONLY <3>1, <4>2, <4>3
    <3>2. ASSUME NEW j \in 1..(k - 1), commands'[j].descriptor, commands'[j].n = x
          PROVE  \E i \in 1..k : commands[i].descriptor /\ commands[i].n = x
      <4>1. j + 1 \in 1..k /\ commands'[j] = commands[j + 1] BY ONLY <1>2, j \in 1..(k - 1)
      <4> QED BY ONLY <3>2, <4>1
    <3> QED BY <3>1, <3>2
  <2>5. \A x : x \in copies' <=> x \in Descriptors(commands') BY ONLY <1>1, <2>1, <2>2, <2>3, <2>4
  <2> QED BY <2>5 DEF CopiesAreOwned
<1>8. QueueShape'
  <2>1. /\ k <= l
        /\ \A j \in 1..k :
             /\ commands[j].n = l - k + j
             /\ j > 1 => commands[j].sent = 0
             /\ commands[j].descriptor => accepted[commands[j].n]
             /\ accepted[commands[j].n] /\ ~commands[j].descriptor => j = 1 /\ commands[j].sent = HeaderSize
    BY DEF OutInv, QueueShape
  <2>a. Len(accepted') = l /\ accepted' = accepted BY <1>1
  <2> HIDE DEF k, l
  <2>2. ASSUME NEW j \in 1..(k - 1)
        PROVE  /\ commands'[j].n = l - (k - 1) + j
               /\ commands'[j].sent = 0
               /\ commands'[j].descriptor => accepted[commands'[j].n]
               /\ ~(accepted[commands'[j].n] /\ ~commands'[j].descriptor)
    <3>1. j + 1 \in 1..k /\ commands'[j] = commands[j + 1] /\ j + 1 > 1 /\ j + 1 # 1
          /\ l - k + (j + 1) = l - (k - 1) + j
      BY ONLY <1>2, j \in 1..(k - 1)
    <3> QED BY ONLY <2>1, <3>1
  <2>3. k - 1 <= l BY ONLY <1>2, <2>1
  <2> QED BY ONLY <1>2, <2>a, <2>2, <2>3 DEF QueueShape
<1>9. StreamWhole'
  <2>1. read \o wire \o FlattenSeq(Remainders(commands)) = StreamUpTo(accepted, Len(accepted))
    BY OutInTerms DEF OutInv, StreamWhole
  <2>2. FlattenSeq(Remainders(commands)) = FlattenSeq(Remainders(Tail(commands)))
    BY <1>1, <1>t, StreamRetires DEF OutTypes
  <2> QED BY ONLY <1>1, <2>1, <2>2, OutInTermsNext DEF StreamWhole
<1> QED BY <1>5, <1>6, <1>7, <1>8, <1>9 DEF OutInv

\* The server reads from the socket what comes first in it.
LEMMA PeerReadsStep ==
    ASSUME OutInv, PeerReads
    PROVE  OutInv'
<1>t. OutTypes BY DEF OutInv
<1>1. /\ wire # <<>> /\ read' = Append(read, Head(wire)) /\ wire' = Tail(wire)
      /\ UNCHANGED <<commands, bytes, count, copies, accepted>>
  BY DEF PeerReads, queueVars
<1>2. /\ read \in Seq(Wired) /\ wire \in Seq(Wired) /\ Head(wire) \in Wired
      /\ Append(read, Head(wire)) \in Seq(Wired) /\ Tail(wire) \in Seq(Wired)
  BY <1>1, <1>t DEF OutTypes
<1>3. Append(read, Head(wire)) \o Tail(wire) = read \o wire BY <1>1, <1>2
<1>4. OutTypes' BY <1>1, <1>2, <1>t DEF OutTypes
<1>5. CountsMatchQueue' /\ CopiesAreOwned' /\ QueueShape'
  BY <1>1 DEF OutInv, CountsMatchQueue, CopiesAreOwned, QueueShape, Descriptors, ToSet
<1>6. StreamWhole'
  <2>1. read \o wire \o FlattenSeq(Remainders(commands)) = StreamUpTo(accepted, Len(accepted))
    BY OutInTerms DEF OutInv, StreamWhole
  <2> QED BY ONLY <1>1, <1>3, <2>1, OutInTermsNext DEF StreamWhole
<1> QED BY <1>4, <1>5, <1>6 DEF OutInv

\* command_queue.h:25-34: the queue is cleared with the connection.
LEMMA ClearStep ==
    ASSUME OutInv, clear, accepted' = <<>>, wire' = <<>>, read' = <<>>
    PROVE  OutInv'
<1> USE SessionAssumption
<1>1. commands' = <<>> /\ bytes' = 0 /\ count' = 0 /\ copies' = copies \ Descriptors(commands)
  BY DEF clear
<1>2. copies' = {} BY <1>1 DEF OutInv, CopiesAreOwned
<1>3. OutTypes' BY <1>1, <1>2 DEF OutTypes
<1>4. CountsMatchQueue' BY <1>1 DEF CountsMatchQueue
<1>5. CopiesAreOwned' BY <1>1, <1>2 DEF CopiesAreOwned, Descriptors, ToSet
<1>6. QueueShape' BY <1>1 DEF QueueShape
<1>7. StreamWhole'
  <2>1. FlattenSeq(Remainders(<<>>)) = <<>>
    <3>1. <<>> \in Seq(Entries) OBVIOUS
    <3>2. Remainders(<<>>) \in Seq(Seq(Wired)) /\ Len(Remainders(<<>>)) = 0 BY <3>1, RemaindersType
    <3>3. Remainders(<<>>) = <<>> BY ONLY <3>2, EmptySeq
    <3> QED BY <3>2, <3>3 DEF FlattenSeq
  <2>2. StreamUpTo(accepted', Len(accepted')) = <<>> BY EmptyStream
  <2> QED BY <1>1, <2>1, <2>2, OutInTermsNext DEF StreamWhole
<1> QED BY <1>3, <1>4, <1>5, <1>6, <1>7 DEF OutInv

\* Steps of the other direction.
LEMMA OutFrame ==
    ASSUME OutInv, UNCHANGED outVars
    PROVE  OutInv'
<1>1. UNCHANGED <<commands, bytes, count, copies, accepted, wire, read>> BY DEF outVars, queueVars
<1>2. StreamWhole' <=> StreamWhole
  BY ONLY <1>1, OutInTerms, OutInTermsNext DEF StreamWhole
<1> QED BY <1>1, <1>2 DEF OutInv, OutTypes, CountsMatchQueue, CopiesAreOwned, QueueShape, Descriptors, ToSet

-----------------------------------------------------------------------------
(* Events from the server: lorie/session.cpp.                              *)

\* The types of what was received.
InTypes ==
    /\ fd \in 0..MaxSessions
    /\ running \in PayloadKinds \cup {"plain", "data", None}
    /\ incoming \in Seq(Units) /\ events \in Seq(PeerKinds)
    /\ header \in Seq(Units) /\ Len(header) < HeaderSize
    /\ pending \in SUBSET PayloadKinds
    /\ payload \in [PayloadKinds -> Seq(Units)]
    /\ begun \in Nat

\* The unit that comes next: its event and its part.
Cursor ==
    IF pending # {}
    THEN IF Len(payload[events[begun]]) = PayloadSize THEN <<begun + 1, 1>>
         ELSE <<begun, HeaderSize + Len(payload[events[begun]]) + 1>>
    ELSE IF pc = "descriptor" THEN <<begun, HeaderSize + 1>>
    ELSE <<begun + 1, Len(header) + 1>>

\* The units in the socket are of the present connection and follow each other.
UnitsAreOrdered ==
    /\ \A i \in 1..Len(incoming) :
         /\ incoming[i].n \in 1..Len(events)
         /\ incoming[i] = ExpectedUnit(incoming[i].n, incoming[i].part)
         /\ incoming[i].part \in 1..UnitCount(incoming[i].kind)
    /\ \A i, j \in 1..Len(incoming) :
         i <= j /\ incoming[i].part + (j - i) <= UnitCount(incoming[i].kind) =>
            incoming[j].n = incoming[i].n /\ incoming[j].part = incoming[i].part + (j - i)
    /\ \A i \in 1..(Len(incoming) - 1) : incoming[i].part = UnitCount(incoming[i].kind) =>
            incoming[i + 1].n = incoming[i].n + 1 /\ incoming[i + 1].part = 1

\* The first of them is the one that comes next, and all that was sent is there
\* as long as the server holds its end.
CursorInv ==
    /\ incoming # <<>> => <<incoming[1].n, incoming[1].part>> = Cursor
    /\ peerOpen =>
         IF incoming = <<>> THEN Cursor = <<Len(events) + 1, 1>>
         ELSE LET u == incoming[Len(incoming)] IN u.n = Len(events) /\ u.part = UnitCount(u.kind)

\* What of the present event has been read.
PartsInv ==
    /\ begun <= Len(events)
    /\ fd = 0 => pending = {}
    /\ pending # {} => begun >= 1 /\ pending = {events[begun]} /\ header = <<>> /\ pc # "descriptor"
    /\ pc = "descriptor" => begun >= 1 /\ events[begun] = "data" /\ header = <<>> /\ running = None
    /\ header # <<>> => begun < Len(events)
    /\ \A j \in 1..Len(header) : header[j] = ExpectedUnit(begun + 1, j)
    /\ \A k \in PayloadKinds : \A j \in 1..Len(payload[k]) :
         k \in pending /\ payload[k][j] = ExpectedUnit(begun, HeaderSize + j)
    /\ \A k \in PayloadKinds : Len(payload[k]) <= PayloadSize
    /\ fd # 0 /\ running # None =>
         /\ begun >= 1 /\ running = events[begun] /\ header = <<>>
         /\ running \in pending => Len(payload[running]) = PayloadSize

\* The invariant of the events.
InInv == InTypes /\ UnitsAreOrdered /\ CursorInv /\ PartsInv

\* The units of an event.
LEMMA UnitCounts ==
    /\ \A k \in PayloadKinds : UnitCount(k) = HeaderSize + PayloadSize
    /\ UnitCount("data") = HeaderSize + 1
    /\ UnitCount("plain") = HeaderSize /\ UnitCount("bad") = HeaderSize
    /\ "data" \notin PayloadKinds /\ "plain" \notin PayloadKinds /\ "bad" \notin PayloadKinds
    /\ \A k \in PeerKinds : UnitCount(k) \in Nat /\ UnitCount(k) >= HeaderSize
<1>1. "data" \notin PayloadKinds /\ "plain" \notin PayloadKinds /\ "bad" \notin PayloadKinds BY DEF PayloadKinds
<1>2. /\ \A k \in PayloadKinds : UnitCount(k) = HeaderSize + PayloadSize
      /\ UnitCount("data") = HeaderSize + 1
      /\ UnitCount("plain") = HeaderSize /\ UnitCount("bad") = HeaderSize
  BY <1>1 DEF UnitCount
<1>3. \A k \in PeerKinds : k \in PayloadKinds \/ k = "data" \/ k = "plain" \/ k = "bad"
  BY SessionAssumption
<1>4. HeaderSize \in Nat /\ PayloadSize \in Nat BY SessionAssumption
<1> QED BY <1>1, <1>2, <1>3, <1>4

\* Where reading k units from u leads.
Beyond(u, k) == IF u.part + k <= UnitCount(u.kind) THEN <<u.n, u.part + k>> ELSE <<u.n + 1, 1>>

\* session.cpp:82-173: recv() takes units of one event off the socket.
LEMMA ConsumeFacts ==
    ASSUME InInv, NEW k \in 1..Len(incoming), Consume(k), events' = events, fd' = fd,
           NEW u, u = incoming[1], u.part + k - 1 <= UnitCount(u.kind)
    PROVE  /\ incoming' \in Seq(Units)
           /\ UnitsAreOrdered'
           /\ \A i \in 1..k : incoming[i] = ExpectedUnit(u.n, u.part + (i - 1))
           /\ incoming' # <<>> => <<incoming'[1].n, incoming'[1].part>> = Beyond(u, k)
           /\ peerOpen => IF incoming' = <<>> THEN Beyond(u, k) = <<Len(events) + 1, 1>>
                          ELSE LET v == incoming'[Len(incoming')]
                               IN  v.n = Len(events) /\ v.part = UnitCount(v.kind)
<1> DEFINE l == Len(incoming)
<1>1. incoming \in Seq(Units) /\ l \in Nat /\ 1 \in 1..l BY DEF InInv, InTypes
<1>2. incoming' = SubSeq(incoming, k + 1, l) BY DEF Consume
<1>3. incoming' \in Seq(Units) /\ Len(incoming') = l - k /\ \A i \in 1..(l - k) : incoming'[i] = incoming[k + i]
  BY <1>1, <1>2
<1>4. /\ \A i \in 1..l : /\ incoming[i].n \in 1..Len(events)
                         /\ incoming[i] = ExpectedUnit(incoming[i].n, incoming[i].part)
                         /\ incoming[i].part \in 1..UnitCount(incoming[i].kind)
      /\ \A i, j \in 1..l :
           i <= j /\ incoming[i].part + (j - i) <= UnitCount(incoming[i].kind) =>
              incoming[j].n = incoming[i].n /\ incoming[j].part = incoming[i].part + (j - i)
      /\ \A i \in 1..(l - 1) : incoming[i].part = UnitCount(incoming[i].kind) =>
              incoming[i + 1].n = incoming[i].n + 1 /\ incoming[i + 1].part = 1
  BY DEF InInv, UnitsAreOrdered
<1>5. \A n, p : ExpectedUnit(n, p)' = ExpectedUnit(n, p) BY DEF ExpectedUnit
<1>6. \A i \in 1..l : UnitCount(incoming[i].kind) \in Nat /\ incoming[i].n \in Nat /\ incoming[i].part \in Nat
  <2> TAKE i \in 1..l
  <2>1. incoming[i] \in Units BY <1>1
  <2> QED BY <2>1, UnitCounts DEF Units
<1> HIDE DEF l
<1>7. UnitsAreOrdered'
  <2>1. ASSUME NEW i \in 1..(l - k)
        PROVE  /\ incoming'[i].n \in 1..Len(events)
               /\ incoming'[i] = ExpectedUnit(incoming'[i].n, incoming'[i].part)
               /\ incoming'[i].part \in 1..UnitCount(incoming'[i].kind)
    <3>1. k + i \in 1..l /\ incoming'[i] = incoming[k + i] BY ONLY <1>1, <1>3, i \in 1..(l - k), k \in 1..l DEF l
    <3> QED BY ONLY <1>4, <3>1
  <2>2. ASSUME NEW i \in 1..(l - k), NEW j \in 1..(l - k),
               i <= j, incoming'[i].part + (j - i) <= UnitCount(incoming'[i].kind)
        PROVE  incoming'[j].n = incoming'[i].n /\ incoming'[j].part = incoming'[i].part + (j - i)
    <3>1. /\ k + i \in 1..l /\ incoming'[i] = incoming[k + i]
          /\ k + j \in 1..l /\ incoming'[j] = incoming[k + j]
          /\ k + i <= k + j /\ (k + j) - (k + i) = j - i
      BY ONLY <1>1, <1>3, <2>2, i \in 1..(l - k), j \in 1..(l - k), k \in 1..l DEF l
    <3> QED BY ONLY <1>4, <2>2, <3>1
  <2>3. ASSUME NEW i \in 1..(l - k - 1), incoming'[i].part = UnitCount(incoming'[i].kind)
        PROVE  incoming'[i + 1].n = incoming'[i].n + 1 /\ incoming'[i + 1].part = 1
    <3>1. /\ k + i \in 1..(l - 1) /\ incoming'[i] = incoming[k + i]
          /\ incoming'[i + 1] = incoming[(k + i) + 1]
      <4>1. k + i \in 1..(l - 1) /\ i \in 1..(l - k) /\ i + 1 \in 1..(l - k) /\ k + (i + 1) = (k + i) + 1
        BY ONLY <1>1, i \in 1..(l - k - 1), k \in 1..l DEF l
      <4> QED BY ONLY <1>3, <4>1
    <3> QED BY ONLY <1>4, <2>3, <3>1
  <2>4. \A n, p : ExpectedUnit(n, p)' = ExpectedUnit(n, p) BY <1>5
  <2>5. \A i \in 1..(l - k) : ExpectedUnit(incoming'[i].n, incoming'[i].part)
                                = ExpectedUnit(incoming[i].n, incoming[i].part)'
    BY DEF ExpectedUnit
  <2>6. \A x : UnitCount(x)' = UnitCount(x) OBVIOUS
  <2> QED BY <1>3, <2>1, <2>2, <2>3, <2>5 DEF UnitsAreOrdered
<1>8. ASSUME NEW i \in 1..k PROVE incoming[i] = ExpectedUnit(u.n, u.part + (i - 1))
  <2>1. i \in 1..l /\ 1 <= i /\ u.part + (i - 1) <= UnitCount(u.kind)
    BY <1>1, <1>6 DEF l
  <2>2. incoming[i].n = u.n /\ incoming[i].part = u.part + (i - 1) BY ONLY <1>1, <1>4, <2>1, u = incoming[1]
  <2>3. incoming[i] = ExpectedUnit(incoming[i].n, incoming[i].part) BY ONLY <1>4, <2>1
  <2> QED BY ONLY <2>2, <2>3
<1>k. k \in 1..l BY DEF l
<1>9. incoming[k].n = u.n /\ incoming[k].part = u.part + (k - 1) /\ incoming[k].kind = u.kind
  <2>1. k \in 1..k BY <1>k, <1>1
  <2>2. incoming[k] = ExpectedUnit(u.n, u.part + (k - 1)) BY <1>8, <2>1
  <2>3. u = ExpectedUnit(u.n, u.part) BY <1>1, <1>4
  <2> QED BY ONLY <2>2, <2>3 DEF ExpectedUnit
<1>u. u.part \in Nat /\ u.n \in Nat /\ UnitCount(u.kind) \in Nat BY <1>1, <1>6
<1>10. ASSUME incoming' # <<>> PROVE <<incoming'[1].n, incoming'[1].part>> = Beyond(u, k)
  <2>1. k < l /\ incoming'[1] = incoming[k + 1] /\ k + 1 \in 1..l /\ k \in 1..(l - 1)
    BY <1>1, <1>3, <1>10, <1>k
  <2>2. CASE u.part + k <= UnitCount(u.kind)
    <3>1. (k + 1) - 1 = k /\ 1 <= k + 1 BY <1>k, <1>1
    <3>2. incoming[k + 1].n = u.n /\ incoming[k + 1].part = u.part + k
      BY ONLY <1>1, <1>4, <2>1, <2>2, <3>1, u = incoming[1]
    <3> QED BY ONLY <2>1, <2>2, <3>2 DEF Beyond
  <2>3. CASE ~(u.part + k <= UnitCount(u.kind))
    <3>1. incoming[k].part = UnitCount(incoming[k].kind)
      <4>1. u.part + (k - 1) = UnitCount(u.kind) BY ONLY <1>u, <1>k, <1>1, <2>3, u.part + k - 1 <= UnitCount(u.kind)
      <4> QED BY ONLY <1>9, <4>1
    <3>2. incoming[k + 1].n = u.n + 1 /\ incoming[k + 1].part = 1 BY ONLY <1>4, <1>9, <2>1, <3>1
    <3> QED BY ONLY <2>1, <2>3, <3>2 DEF Beyond
  <2> QED BY <2>2, <2>3
<1>11. ASSUME peerOpen
       PROVE IF incoming' = <<>> THEN Beyond(u, k) = <<Len(events) + 1, 1>>
             ELSE LET v == incoming'[Len(incoming')] IN v.n = Len(events) /\ v.part = UnitCount(v.kind)
  <2>1. incoming[l].n = Len(events) /\ incoming[l].part = UnitCount(incoming[l].kind)
    BY <1>1, <1>11 DEF InInv, CursorInv, l
  <2>2. CASE incoming' = <<>>
    <3>1. k = l BY <1>1, <1>3, <1>k, <2>2
    <3>2. ~(u.part + k <= UnitCount(u.kind)) BY ONLY <1>1, <1>9, <1>u, <1>k, <2>1, <3>1
    <3> QED BY ONLY <1>9, <2>1, <2>2, <3>1, <3>2 DEF Beyond
  <2>3. CASE incoming' # <<>>
    <3>1. Len(incoming') \in 1..(l - k) /\ k + Len(incoming') = l BY <1>1, <1>3, <1>k, <2>3
    <3>2. incoming'[Len(incoming')] = incoming[l] BY ONLY <1>3, <3>1
    <3> QED BY ONLY <2>1, <2>3, <3>2
  <2> QED BY <2>2, <2>3
<1> QED BY <1>3, <1>7, <1>8, <1>10, <1>11

\* What a call of recv() takes is in the socket, and no more than it asked for.
LEMMA ReceivedBound ==
    ASSUME NEW a \in Int, NEW b \in Int, NEW k \in 1..Min({a, b})
    PROVE  k \in Nat /\ k >= 1 /\ k <= a /\ k <= b
<1> DEFINE m == IF a <= b THEN a ELSE b
<1>1. m \in {a, b} /\ \A y \in {a, b} : m <= y OBVIOUS
<1>2. Min({a, b}) \in {a, b} /\ \A y \in {a, b} : Min({a, b}) <= y
  BY <1>1, Zenon DEF Min
<1> QED BY <1>2

\* Steps that leave the events alone.
LEMMA InFrame ==
    ASSUME InInv, UNCHANGED <<fd, peerOpen, running, inVars>>,
           (pc = "descriptor") <=> (pc' = "descriptor")
    PROVE  InInv'
<1>1. UNCHANGED <<fd, peerOpen, running, incoming, events, header, pending, payload, begun>> BY DEF inVars
<1>2. Cursor' = Cursor BY <1>1 DEF Cursor
<1>3. UnitsAreOrdered' BY <1>1 DEF InInv, UnitsAreOrdered, ExpectedUnit
<1>4. CursorInv' BY <1>1, <1>2 DEF InInv, CursorInv
<1>5. PartsInv' BY <1>1 DEF InInv, PartsInv, ExpectedUnit
<1> QED BY <1>1, <1>3, <1>4, <1>5 DEF InInv, InTypes

\* session.cpp:56-61: a connection ends, or begins, with nothing half read.
LEMMA InReset ==
    ASSUME InTypes, ResetEvents, incoming' = <<>>, events' = <<>>, begun' = 0,
           fd' \in 0..MaxSessions, running' = running, pc' # "descriptor",
           fd' # 0 => running' = None
    PROVE  InInv'
<1> USE SessionAssumption
<1>1. header' = <<>> /\ pending' = {} /\ payload' = [k \in PayloadKinds |-> <<>>]
  BY DEF ResetEvents, NoPayload
<1>2. \A k \in PayloadKinds : payload'[k] = <<>> BY <1>1
<1>3. InTypes' BY <1>1 DEF InTypes
<1>4. UnitsAreOrdered' BY DEF UnitsAreOrdered
<1>5. Cursor' = <<1, 1>> BY <1>1 DEF Cursor
<1>6. CursorInv' BY <1>5 DEF CursorInv
<1>7. PartsInv' BY <1>1, <1>2 DEF PartsInv
<1> QED BY <1>3, <1>4, <1>6, <1>7 DEF InInv

\* session.cpp:82-173: what was read leads to the unit that comes next.
LEMMA InConsume ==
    ASSUME InInv, NEW k \in 1..Len(incoming), Consume(k), UNCHANGED <<events, fd, peerOpen>>,
           NEW u, u = incoming[1], u.part + k - 1 <= UnitCount(u.kind),
           InTypes', PartsInv', Cursor' = Beyond(u, k)
    PROVE  InInv'
<1>1. /\ UnitsAreOrdered'
      /\ incoming' # <<>> => <<incoming'[1].n, incoming'[1].part>> = Beyond(u, k)
      /\ peerOpen => IF incoming' = <<>> THEN Beyond(u, k) = <<Len(events) + 1, 1>>
                     ELSE LET v == incoming'[Len(incoming')]
                          IN  v.n = Len(events) /\ v.part = UnitCount(v.kind)
  BY ConsumeFacts
<1>2. CursorInv' BY <1>1 DEF CursorInv
<1> QED BY <1>1, <1>2 DEF InInv

\* A buffer holds the first units of event n after part o, and the socket begins
\* with k units of it from part p on.
Collected(buffer, n, o) == \A j \in 1..Len(buffer) : buffer[j] = ExpectedUnit(n, o + j)
InFront(n, p, k) == \A i \in 1..k : incoming[i] = ExpectedUnit(n, p + (i - 1))

\* session.cpp:84-88, 117-120, 132-135, 146-149, 167-170: what recv() brings continues what was collected.
LEMMA Collects ==
    ASSUME InInv, NEW buffer \in Seq(Units), NEW n \in Nat, NEW o \in Nat, NEW k \in 1..Len(incoming),
           Collected(buffer, n, o), NEW p, p = o + Len(buffer) + 1, InFront(n, p, k)
    PROVE  /\ Received(buffer, k) \in Seq(Units)
           /\ Len(Received(buffer, k)) = Len(buffer) + k
           /\ Collected(Received(buffer, k), n, o)
<1> DEFINE t == SubSeq(incoming, 1, k)
           l == Len(buffer)
<1>1. incoming \in Seq(Units) /\ Len(incoming) \in Nat /\ l \in Nat /\ k \in Nat BY DEF InInv, InTypes
<1>2. t \in Seq(Units) /\ Len(t) = k /\ \A i \in 1..k : t[i] = incoming[i] BY <1>1
<1>3. Received(buffer, k) = buffer \o t BY DEF Received
<1>4. /\ buffer \o t \in Seq(Units) /\ Len(buffer \o t) = l + k
      /\ \A j \in 1..(l + k) : (buffer \o t)[j] = IF j <= l THEN buffer[j] ELSE t[j - l]
  BY <1>2, ConcatProperties
<1> HIDE DEF t, l
<1>5. ASSUME NEW j \in 1..(l + k) PROVE (buffer \o t)[j] = ExpectedUnit(n, o + j)
  <2>1. CASE j <= l
    <3>1. j \in 1..Len(buffer) BY <1>1, <2>1 DEF l
    <3> QED BY <1>4, <2>1, <3>1 DEF Collected
  <2>2. CASE ~(j <= l)
    <3>1. j - l \in 1..k BY <1>1, <2>2
    <3>2. (buffer \o t)[j] = incoming[j - l] BY ONLY <1>2, <1>4, <2>2, <3>1, j \in 1..(l + k)
    <3>3. incoming[j - l] = ExpectedUnit(n, (o + l + 1) + ((j - l) - 1)) BY <3>1 DEF InFront, l
    <3>4. (o + l + 1) + ((j - l) - 1) = o + j BY ONLY <1>1, <3>1, o \in Nat, j \in 1..(l + k)
    <3> QED BY ONLY <3>2, <3>3, <3>4
  <2> QED BY <2>1, <2>2
<1> QED BY <1>3, <1>4, <1>5 DEF Collected, l

\* The unit at the front of the socket.
LEMMA FrontUnit ==
    ASSUME InInv, incoming # <<>>, NEW u, u = incoming[1]
    PROVE  /\ u \in Units /\ u.n \in 1..Len(events) /\ <<u.n, u.part>> = Cursor
           /\ u.kind = events[u.n] /\ u.kind \in PeerKinds
           /\ UnitCount(u.kind) \in Nat /\ u.part \in 1..UnitCount(u.kind)
<1>1. incoming \in Seq(Units) /\ 1 \in 1..Len(incoming) BY DEF InInv, InTypes
<1>2. u \in Units BY <1>1
<1>3. u.n \in 1..Len(events) /\ u = ExpectedUnit(u.n, u.part) /\ u.part \in 1..UnitCount(u.kind)
  BY <1>1 DEF InInv, UnitsAreOrdered
<1>4. u.kind = events[u.n] BY ONLY <1>3 DEF ExpectedUnit
<1>5. u.kind \in PeerKinds BY <1>2 DEF Units
<1>6. UnitCount(u.kind) \in Nat BY <1>5, UnitCounts
<1>7. <<u.n, u.part>> = Cursor BY DEF InInv, CursorInv
<1> QED BY <1>2, <1>3, <1>4, <1>5, <1>6, <1>7

\* session.cpp:162-246: a part of a header is read, or all that was left of it.
LEMMA ReceiveHeaderStep ==
    ASSUME InInv, NEW k \in 1..HeaderSize, ReceiveHeader(k)
    PROVE  InInv'
<1> USE SessionAssumption
<1> DEFINE u == incoming[1]
           h == Len(header)
           whole == Received(header, k)
<1>t. InTypes BY DEF InInv
<1>1. /\ fd # 0 /\ pc = "idle" /\ running = None /\ pending = {} /\ Consume(k)
      /\ UNCHANGED <<fd, peerOpen, events, payload>>
      /\ k \in 1..Min({HeaderSize - h, Len(incoming)})
      /\ IF Len(whole) < HeaderSize
         THEN header' = whole /\ UNCHANGED <<pending, running, pc, begun>>
         ELSE header' = <<>> /\ begun' = begun + 1 /\ Dispatch(whole[1].kind)
  BY DEF ReceiveHeader, LooperIdle
<1>2. h \in Nat /\ Len(incoming) \in Nat /\ begun \in Nat /\ Len(events) \in Nat /\ h < HeaderSize BY <1>t DEF InTypes
<1>3. k \in Nat /\ k >= 1 /\ k <= HeaderSize - h /\ k \in 1..Len(incoming) /\ incoming # <<>>
  <2>1. HeaderSize - h \in Int /\ Len(incoming) \in Int BY <1>2
  <2>2. k \in Nat /\ k >= 1 /\ k <= HeaderSize - h /\ k <= Len(incoming)
    BY ONLY <1>1, <2>1, ReceivedBound
  <2> QED BY <1>2, <2>2
<1>4. /\ u \in Units /\ u.n \in 1..Len(events) /\ <<u.n, u.part>> = Cursor
      /\ u.kind = events[u.n] /\ u.kind \in PeerKinds
      /\ UnitCount(u.kind) \in Nat /\ u.part \in 1..UnitCount(u.kind)
  BY <1>3, FrontUnit
<1>5. u.n = begun + 1 /\ u.part = h + 1 BY <1>1, <1>4 DEF Cursor
<1>6. UnitCount(u.kind) >= HeaderSize BY <1>4, UnitCounts
<1> HIDE DEF u, h
<1>7. u.part + k - 1 <= UnitCount(u.kind) BY <1>2, <1>3, <1>4, <1>5, <1>6
<1>8. \A i \in 1..k : incoming[i] = ExpectedUnit(begun + 1, (h + 1) + (i - 1))
  BY <1>1, <1>3, <1>5, <1>7, ConsumeFacts DEF u
<1>9. /\ whole \in Seq(Units) /\ Len(whole) = h + k
      /\ \A j \in 1..(h + k) : whole[j] = ExpectedUnit(begun + 1, j)
  <2>0. PICK o \in Nat, n \in Nat, p \in Nat : o = 0 /\ n = begun + 1 /\ p = h + 1 BY <1>2
  <2>1. Collected(header, n, o)
    <3>1. \A j \in 1..Len(header) : o + j = j BY <2>0, <1>2 DEF h
    <3> QED BY <2>0, <3>1 DEF InInv, PartsInv, Collected
  <2>2. InFront(n, p, k) /\ p = o + Len(header) + 1 BY <1>2, <1>8, <2>0 DEF InFront, h
  <2>3. header \in Seq(Units) BY <1>t DEF InTypes
  <2>4. whole \in Seq(Units) /\ Len(whole) = Len(header) + k /\ Collected(whole, n, o)
    BY ONLY InInv, <1>3, <2>1, <2>2, <2>3, o \in Nat, n \in Nat, Collects
  <2>5. \A j \in 1..(h + k) : o + j = j BY <1>2, <1>3, <2>0
  <2> HIDE DEF whole
  <2> QED BY <2>0, <2>4, <2>5 DEF h, Collected
<1>10. \A x \in PayloadKinds : payload[x] \in Seq(Units) /\ Len(payload[x]) = 0
  <2> TAKE x \in PayloadKinds
  <2>1. payload[x] \in Seq(Units) BY <1>t DEF InTypes
  <2>2. ~(1 \in 1..Len(payload[x])) BY <1>1 DEF InInv, PartsInv
  <2> QED BY <2>1, <2>2
<1>11. begun < Len(events) BY <1>2, <1>4, <1>5
<1> HIDE DEF whole
<1>12. CASE Len(whole) < HeaderSize
  <2>1. header' = whole /\ UNCHANGED <<pending, running, pc, begun>> BY <1>1, <1>12
  <2>2. InTypes'
    <3>1. incoming' \in Seq(Units) BY <1>1, <1>3, <1>7, ConsumeFacts DEF u
    <3> QED BY <1>1, <1>9, <1>12, <1>t, <2>1, <3>1 DEF InTypes
  <2>3. Cursor' = Beyond(u, k)
    <3>1. Cursor' = <<begun + 1, h + k + 1>> BY <1>1, <1>9, <2>1 DEF Cursor
    <3>2. u.part + k = h + k + 1 /\ u.part + k <= UnitCount(u.kind) BY <1>2, <1>3, <1>4, <1>5, <1>6, <1>9, <1>12
    <3> QED BY <1>5, <3>1, <3>2 DEF Beyond
  <2>4. PartsInv'
    <3>1. \A n, p : ExpectedUnit(n, p)' = ExpectedUnit(n, p) BY <1>1 DEF ExpectedUnit
    <3>2. \A j \in 1..Len(header') : header'[j] = [session |-> fd, n |-> begun + 1, part |-> j, kind |-> events[begun + 1]]
      BY <1>9, <2>1 DEF ExpectedUnit
    <3>3. \A x \in PayloadKinds : Len(payload'[x]) = 0 /\ ~(\E j \in 1..Len(payload'[x]) : TRUE) BY <1>1, <1>10
    <3>4. PayloadSize \in Nat OBVIOUS
    <3> QED BY <1>1, <1>2, <1>11, <2>1, <3>2, <3>3, <3>4 DEF PartsInv, ExpectedUnit
  <2> QED BY <1>1, <1>3, <1>7, <2>2, <2>3, <2>4, InConsume DEF u
<1>13. CASE ~(Len(whole) < HeaderSize)
  <2> DEFINE kind == whole[1].kind
  <2>1. header' = <<>> /\ begun' = begun + 1 /\ Dispatch(kind) BY <1>1, <1>13
  <2>2. h + k = HeaderSize BY <1>2, <1>3, <1>9, <1>13
  <2>3. kind = u.kind /\ kind = events[begun + 1] /\ kind \in PeerKinds
    <3>1. whole[1] = ExpectedUnit(begun + 1, 1) BY <1>2, <1>3, <1>9
    <3> QED BY <1>4, <1>5, <3>1 DEF ExpectedUnit
  <2> HIDE DEF kind
  <2>4. /\ pending' = IF kind \in PayloadKinds THEN {kind} ELSE {}
        /\ running' = IF kind = "plain" THEN "plain" ELSE None
        /\ pc' = IF kind = "data" THEN "descriptor" ELSE "idle"
    BY <1>1, <2>1 DEF Dispatch
  <2>5. InTypes'
    <3>1. incoming' \in Seq(Units) BY <1>1, <1>3, <1>7, ConsumeFacts DEF u
    <3>2. pending' \in SUBSET PayloadKinds /\ running' \in PayloadKinds \cup {"plain", "data", None} BY <2>4
    <3> QED BY <1>1, <1>2, <1>t, <2>1, <3>1, <3>2 DEF InTypes
  <2>6. Cursor' = Beyond(u, k)
    <3>0. u.part + k = HeaderSize + 1 /\ events'[begun'] = kind BY <1>1, <1>2, <1>3, <1>5, <2>1, <2>2, <2>3
    <3>1. CASE kind \in PayloadKinds
      <4>1. Len(payload'[kind]) = 0 /\ PayloadSize # 0 /\ kind # "data" BY <1>1, <1>10, <3>1, UnitCounts
      <4>2. Cursor' = <<begun + 1, HeaderSize + 0 + 1>> BY <2>1, <2>4, <3>0, <3>1, <4>1 DEF Cursor
      <4>3. u.part + k <= UnitCount(u.kind) BY <2>3, <3>0, <3>1, UnitCounts
      <4> QED BY <1>5, <3>0, <4>2, <4>3 DEF Beyond
    <3>2. CASE kind = "data"
      <4>1. kind \notin PayloadKinds BY <3>2, UnitCounts
      <4>2. Cursor' = <<begun + 1, HeaderSize + 1>> BY <2>1, <2>4, <3>2, <4>1 DEF Cursor
      <4>3. u.part + k <= UnitCount(u.kind) BY <2>3, <3>0, <3>2, UnitCounts
      <4> QED BY <1>5, <3>0, <4>2, <4>3 DEF Beyond
    <3>3. CASE kind \notin PayloadKinds /\ kind # "data"
      <4>1. kind = "plain" \/ kind = "bad" BY <2>3, <3>3
      <4>2. Cursor' = <<(begun + 1) + 1, 1>> BY <2>1, <2>4, <3>3 DEF Cursor
      <4>3. UnitCount(u.kind) = HeaderSize BY <2>3, <4>1, UnitCounts
      <4> QED BY <1>5, <3>0, <4>2, <4>3 DEF Beyond
    <3> QED BY <3>1, <3>2, <3>3
  <2>7. PartsInv'
    <3>1. \A x \in PayloadKinds : Len(payload'[x]) = 0 /\ ~(\E j \in 1..Len(payload'[x]) : TRUE) BY <1>1, <1>10
    <3>2. events'[begun'] = kind /\ begun' <= Len(events') /\ begun' >= 1 /\ fd' # 0
      BY <1>1, <1>2, <1>11, <2>1, <2>3
    <3>3. "plain" \notin PayloadKinds /\ "data" \notin PayloadKinds BY UnitCounts
    <3>4. None # "plain" OBVIOUS
    <3> QED BY <2>1, <2>4, <3>1, <3>2, <3>3, <3>4 DEF PartsInv
  <2> QED BY <1>1, <1>3, <1>7, <2>5, <2>6, <2>7, InConsume DEF u
<1> QED BY <1>12, <1>13

\* session.cpp:82-155: a part of a payload is read, or all that was left of it.
LEMMA ReceivePayloadStep ==
    ASSUME InInv, NEW kind \in PayloadKinds, NEW k \in 1..PayloadSize, ReceivePayload(kind, k)
    PROVE  InInv'
<1> USE SessionAssumption
<1> DEFINE u == incoming[1]
           h == Len(payload[kind])
           whole == Received(payload[kind], k)
<1>t. InTypes BY DEF InInv
<1>1. /\ fd # 0 /\ pc = "idle" /\ running = None /\ kind \in pending /\ Consume(k)
      /\ UNCHANGED <<fd, peerOpen, pc, events, header, pending, begun>>
      /\ k \in 1..Min({PayloadSize - h, Len(incoming)})
      /\ payload' = [payload EXCEPT ![kind] = whole]
      /\ running' = IF h + k = PayloadSize THEN kind ELSE None
  BY DEF ReceivePayload, LooperIdle
<1>2. h \in Nat /\ Len(incoming) \in Nat /\ begun \in Nat /\ Len(events) \in Nat /\ payload[kind] \in Seq(Units)
  BY <1>t DEF InTypes
<1>3. k \in Nat /\ k >= 1 /\ k <= PayloadSize - h /\ k \in 1..Len(incoming) /\ incoming # <<>>
  <2>1. PayloadSize - h \in Int /\ Len(incoming) \in Int BY <1>2
  <2>2. k \in Nat /\ k >= 1 /\ k <= PayloadSize - h /\ k <= Len(incoming)
    BY ONLY <1>1, <2>1, ReceivedBound
  <2> QED BY <1>2, <2>2
<1>4. /\ u \in Units /\ u.n \in 1..Len(events) /\ <<u.n, u.part>> = Cursor
      /\ u.kind = events[u.n] /\ u.kind \in PeerKinds
      /\ UnitCount(u.kind) \in Nat /\ u.part \in 1..UnitCount(u.kind)
  BY <1>3, FrontUnit
<1>5. begun >= 1 /\ events[begun] = kind /\ pending = {kind} /\ header = <<>> BY <1>1 DEF InInv, PartsInv
<1>6. u.n = begun /\ u.part = HeaderSize + h + 1
  <2>1. h # PayloadSize BY <1>2, <1>3
  <2> QED BY <1>1, <1>4, <1>5, <2>1 DEF Cursor
<1>7. u.kind = kind /\ UnitCount(u.kind) = HeaderSize + PayloadSize BY <1>4, <1>5, <1>6, UnitCounts
<1> HIDE DEF u, h
<1>8. u.part + k - 1 <= UnitCount(u.kind) BY <1>2, <1>3, <1>6, <1>7
<1>9. /\ incoming' \in Seq(Units)
      /\ \A i \in 1..k : incoming[i] = ExpectedUnit(begun, (HeaderSize + h + 1) + (i - 1))
  BY <1>1, <1>3, <1>6, <1>8, ConsumeFacts DEF u
<1>10. /\ whole \in Seq(Units) /\ Len(whole) = h + k
       /\ \A j \in 1..(h + k) : whole[j] = ExpectedUnit(begun, HeaderSize + j)
  <2>0. PICK p \in Nat : p = HeaderSize + h + 1 BY <1>2
  <2>1. Collected(payload[kind], begun, HeaderSize) BY DEF InInv, PartsInv, Collected
  <2>2. InFront(begun, p, k) /\ p = HeaderSize + Len(payload[kind]) + 1 BY <1>2, <1>9, <2>0 DEF InFront, h
  <2>3. whole \in Seq(Units) /\ Len(whole) = Len(payload[kind]) + k /\ Collected(whole, begun, HeaderSize)
    BY ONLY InInv, <1>2, <1>3, <2>1, <2>2, Collects, SessionAssumption
  <2> HIDE DEF whole
  <2> QED BY <2>3 DEF h, Collected
<1> HIDE DEF whole
<1>11. /\ payload' \in [PayloadKinds -> Seq(Units)] /\ payload'[kind] = whole
       /\ \A x \in PayloadKinds : x # kind => payload'[x] = payload[x]
  BY <1>1, <1>10, <1>t DEF InTypes
<1>12. InTypes' BY <1>1, <1>9, <1>11, <1>t DEF InTypes
<1>13. Cursor' = Beyond(u, k)
  <2>1. Len(payload'[events'[begun']]) = h + k /\ pending' # {} BY <1>1, <1>5, <1>10, <1>11
  <2>2. CASE h + k = PayloadSize
    <3>1. Cursor' = <<begun + 1, 1>> BY <1>1, <2>1, <2>2 DEF Cursor
    <3>2. ~(u.part + k <= UnitCount(u.kind)) BY <1>2, <1>3, <1>6, <1>7, <2>2
    <3> QED BY <1>6, <3>1, <3>2 DEF Beyond
  <2>3. CASE h + k # PayloadSize
    <3>1. Cursor' = <<begun, HeaderSize + (h + k) + 1>> BY <1>1, <2>1, <2>3 DEF Cursor
    <3>2. u.part + k <= UnitCount(u.kind) /\ u.part + k = HeaderSize + (h + k) + 1 BY <1>2, <1>3, <1>6, <1>7, <2>3
    <3> QED BY <1>6, <3>1, <3>2 DEF Beyond
  <2> QED BY <2>2, <2>3
<1>14. PartsInv'
  <2>1. \A x \in PayloadKinds : Len(payload'[x]) <= PayloadSize
    <3>1. \A x \in PayloadKinds : Len(payload[x]) <= PayloadSize BY DEF InInv, PartsInv
    <3>2. h + k <= PayloadSize BY <1>2, <1>3
    <3> QED BY <1>10, <1>11, <3>1, <3>2
  <2>2. ASSUME NEW x \in PayloadKinds, NEW j \in 1..Len(payload'[x])
        PROVE  x \in pending /\ payload'[x][j] = ExpectedUnit(begun, HeaderSize + j)
    <3>1. CASE x = kind BY <1>1, <1>10, <1>11, <3>1
    <3>2. CASE x # kind BY <1>11, <3>2 DEF InInv, PartsInv
    <3> QED BY <3>1, <3>2
  <2>3. \A x \in PayloadKinds : \A j \in 1..Len(payload'[x]) :
          x \in pending' /\ payload'[x][j] = [session |-> fd', n |-> begun', part |-> HeaderSize + j, kind |-> events'[begun']]
    BY <1>1, <2>2 DEF ExpectedUnit
  <2>4. running' # None => running' = kind /\ Len(payload'[running']) = PayloadSize BY <1>1, <1>10, <1>11
  <2>5. /\ begun <= Len(events) /\ header = <<>> /\ \A j \in 1..Len(header) : FALSE
    BY <1>5 DEF InInv, PartsInv
  <2>6. begun' = begun /\ events' = events /\ header' = <<>> /\ fd' # 0 /\ pc' = "idle" /\ pending' = {kind}
    BY <1>1, <1>5
  <2> QED BY <1>5, <2>1, <2>3, <2>4, <2>5, <2>6 DEF PartsInv, ExpectedUnit
<1> QED BY <1>1, <1>3, <1>8, <1>12, <1>13, <1>14, InConsume DEF u

\* With nothing pending, no payload has been read.
LEMMA NothingCollected ==
    ASSUME InInv, pending = {}
    PROVE  \A x \in PayloadKinds : payload[x] = <<>>
<1> TAKE x \in PayloadKinds
<1>1. payload[x] \in Seq(Units) BY DEF InInv, InTypes
<1>2. ~(1 \in 1..Len(payload[x])) BY DEF InInv, PartsInv
<1> QED BY <1>1, <1>2

\* session.cpp:191-230: the descriptor of an event follows its header.
LEMMA ReceiveDescriptorStep ==
    ASSUME InInv, ReceiveDescriptor
    PROVE  InInv'
<1> USE SessionAssumption
<1> DEFINE u == incoming[1]
<1>t. InTypes BY DEF InInv
<1>1. /\ pc = "descriptor" /\ incoming # <<>> /\ Consume(1) /\ pc' = "idle" /\ running' = "data"
      /\ UNCHANGED <<fd, peerOpen, events, header, pending, payload, begun>>
  BY DEF ReceiveDescriptor
<1>2. begun >= 1 /\ events[begun] = "data" /\ header = <<>> /\ pending = {}
  BY <1>1 DEF InInv, PartsInv
<1>3. /\ u \in Units /\ u.n \in 1..Len(events) /\ <<u.n, u.part>> = Cursor
      /\ u.kind = events[u.n] /\ u.kind \in PeerKinds
      /\ UnitCount(u.kind) \in Nat /\ u.part \in 1..UnitCount(u.kind)
  BY <1>1, FrontUnit
<1>4. u.n = begun /\ u.part = HeaderSize + 1 BY <1>1, <1>2, <1>3 DEF Cursor
<1>5. UnitCount(u.kind) = HeaderSize + 1 BY <1>2, <1>3, <1>4, UnitCounts
<1>6. 1 \in 1..Len(incoming) /\ begun \in Nat BY <1>1, <1>t DEF InTypes
<1> HIDE DEF u
<1>7. u.part + 1 - 1 <= UnitCount(u.kind) /\ ~(u.part + 1 <= UnitCount(u.kind)) BY <1>4, <1>5
<1>8. incoming' \in Seq(Units) BY <1>1, <1>6, <1>7, ConsumeFacts DEF u
<1>9. InTypes' BY <1>1, <1>8, <1>t DEF InTypes
<1>10. Cursor' = Beyond(u, 1)
  <2>1. Cursor' = <<begun + 1, 1>> BY <1>1, <1>2, <1>6 DEF Cursor
  <2> QED BY <1>4, <1>7, <2>1 DEF Beyond
<1>11. PartsInv'
  <2>1. \A x \in PayloadKinds : payload'[x] = <<>> BY <1>1, <1>2, NothingCollected
  <2>2. begun' <= Len(events') BY <1>1 DEF InInv, PartsInv
  <2> QED BY <1>1, <1>2, <2>1, <2>2 DEF PartsInv
<1> QED BY <1>1, <1>6, <1>7, <1>9, <1>10, <1>11, InConsume DEF u

\* session.cpp:108-109, 123-126, 139-141, 152-153: after the callback the flag and the count are reset.
LEMMA CallbackReturnsStep ==
    ASSUME InInv, CallbackReturns
    PROVE  InInv'
<1> USE SessionAssumption
<1>t. InTypes BY DEF InInv
<1>1. /\ pc = "idle" /\ running # None /\ running' = None /\ pending' = pending \ {running}
      /\ payload' = [x \in PayloadKinds |-> IF x = running THEN <<>> ELSE payload[x]]
      /\ UNCHANGED <<fd, peerOpen, pc, incoming, events, header, begun>>
  BY DEF CallbackReturns
<1>2. pending' = {}
  <2>1. CASE fd = 0 BY <1>1, <2>1 DEF InInv, PartsInv
  <2>2. CASE fd # 0
    <3>1. running = events[begun] BY <1>1, <2>2 DEF InInv, PartsInv
    <3>2. pending = {} \/ pending = {events[begun]} BY DEF InInv, PartsInv
    <3> QED BY <1>1, <3>1, <3>2
  <2> QED BY <2>1, <2>2
<1>3. \A x \in PayloadKinds : payload'[x] = <<>>
  <2> TAKE x \in PayloadKinds
  <2>1. CASE x = running BY <1>1, <2>1
  <2>2. CASE x # running
    <3>1. x \notin pending BY <1>1, <1>2, <2>2
    <3>2. payload[x] \in Seq(Units) /\ ~(1 \in 1..Len(payload[x])) BY <1>t, <3>1 DEF InInv, InTypes, PartsInv
    <3> QED BY <1>1, <2>2, <3>2
  <2> QED BY <2>1, <2>2
<1>4. Cursor' = Cursor
  <2>1. Cursor' = <<begun + 1, Len(header) + 1>> BY <1>1, <1>2 DEF Cursor
  <2>2. CASE pending = {} BY <1>1, <2>1, <2>2 DEF Cursor
  <2>3. CASE pending # {}
    <3>1. fd # 0 BY <2>3 DEF InInv, PartsInv
    <3>2. running = events[begun] /\ header = <<>> /\ (running \in pending => Len(payload[running]) = PayloadSize)
      BY <1>1, <3>1 DEF InInv, PartsInv
    <3>3. running \in pending BY <1>1, <1>2, <2>3
    <3> QED BY <2>1, <2>3, <3>2, <3>3 DEF Cursor
  <2> QED BY <2>2, <2>3
<1>5. InTypes'
  <2>1. payload' \in [PayloadKinds -> Seq(Units)]
    <3>1. \A x \in PayloadKinds : (IF x = running THEN <<>> ELSE payload[x]) \in Seq(Units) BY <1>t DEF InTypes
    <3> QED BY <1>1, <3>1
  <2> QED BY <1>1, <1>2, <1>t, <2>1 DEF InTypes
<1>6. UnitsAreOrdered' BY <1>1 DEF InInv, UnitsAreOrdered, ExpectedUnit
<1>7. CursorInv' BY <1>1, <1>4 DEF InInv, CursorInv
<1>8. PartsInv'
  <2>1. /\ begun <= Len(events) /\ (header # <<>> => begun < Len(events))
        /\ \A j \in 1..Len(header) : header[j] = ExpectedUnit(begun + 1, j)
    BY DEF InInv, PartsInv
  <2> QED BY <1>1, <1>2, <1>3, <2>1 DEF PartsInv, ExpectedUnit
<1> QED BY <1>5, <1>6, <1>7, <1>8 DEF InInv

\* The server writes an event behind those in the socket.
LEMMA PeerSendsStep ==
    ASSUME InInv, fd # 0, NEW kind \in PeerKinds, PeerSends(kind)
    PROVE  InInv'
<1> USE SessionAssumption
<1> DEFINE l == Len(incoming)
           q == Len(events)
           c == UnitCount(kind)
           e == [j \in 1..c |-> [session |-> fd, n |-> q + 1, part |-> j, kind |-> kind]]
<1>t. InTypes BY DEF InInv
<1>1. /\ peerOpen /\ events' = Append(events, kind) /\ incoming' = incoming \o e
      /\ UNCHANGED <<fd, peerOpen, pc, running, header, pending, payload, begun>>
  BY DEF PeerSends, connVars
<1>2. l \in Nat /\ q \in Nat /\ begun \in Nat /\ incoming \in Seq(Units) /\ events \in Seq(PeerKinds)
  BY <1>t DEF InTypes
<1>3. c \in Nat /\ c >= 1 BY UnitCounts
<1>4. /\ events' \in Seq(PeerKinds) /\ Len(events') = q + 1 /\ events'[q + 1] = kind
      /\ \A i \in 1..q : events'[i] = events[i]
  BY <1>1, <1>2
<1>5. e \in Seq(Units) /\ Len(e) = c
  <2>1. fd \in 1..MaxSessions BY <1>t DEF InTypes
  <2>2. \A j \in 1..c : [session |-> fd, n |-> q + 1, part |-> j, kind |-> kind] \in Units
    BY <1>2, <1>3, <2>1 DEF Units
  <2> HIDE DEF c, q
  <2> QED BY ONLY <1>3, <2>2 DEF e
<1>6. /\ incoming' \in Seq(Units) /\ Len(incoming') = l + c
      /\ \A i \in 1..(l + c) : incoming'[i] = IF i <= l THEN incoming[i] ELSE e[i - l]
  <2> HIDE DEF e, c
  <2>1. /\ incoming \o e \in Seq(Units) /\ Len(incoming \o e) = l + c
        /\ \A i \in 1..(l + c) : (incoming \o e)[i] = IF i <= l THEN incoming[i] ELSE e[i - l]
    BY ONLY <1>2, <1>5, ConcatProperties DEF l
  <2> QED BY <1>1, <2>1
<1>e. \A j \in 1..c : e[j] = [session |-> fd, n |-> q + 1, part |-> j, kind |-> kind] OBVIOUS
<1> HIDE DEF l, q, c, e
<1>7. \A i \in 1..l : i \in 1..(l + c) /\ incoming'[i] = incoming[i]
  <2> TAKE i \in 1..l
  <2>1. i \in 1..(l + c) /\ i <= l BY ONLY <1>2, <1>3, i \in 1..l
  <2> QED BY ONLY <1>6, <2>1
<1>8. \A i \in 1..(l + c) : i > l => i - l \in 1..c /\
        incoming'[i] = [session |-> fd, n |-> q + 1, part |-> i - l, kind |-> kind]
  <2> TAKE i \in 1..(l + c)
  <2> HAVE i > l
  <2>1. i - l \in 1..c /\ ~(i <= l) BY ONLY <1>2, <1>3, i > l, i \in 1..(l + c)
  <2> QED BY ONLY <1>6, <1>e, <2>1, i \in 1..(l + c)
<1>9. /\ \A i \in 1..l : /\ incoming[i].n \in 1..q
                         /\ incoming[i] = ExpectedUnit(incoming[i].n, incoming[i].part)
                         /\ incoming[i].part \in 1..UnitCount(incoming[i].kind)
      /\ \A i, j \in 1..l :
           i <= j /\ incoming[i].part + (j - i) <= UnitCount(incoming[i].kind) =>
              incoming[j].n = incoming[i].n /\ incoming[j].part = incoming[i].part + (j - i)
      /\ \A i \in 1..(l - 1) : incoming[i].part = UnitCount(incoming[i].kind) =>
              incoming[i + 1].n = incoming[i].n + 1 /\ incoming[i + 1].part = 1
  BY DEF InInv, UnitsAreOrdered, l, q
<1>10. \A i \in 1..l : incoming[i].kind = events[incoming[i].n] /\ UnitCount(incoming[i].kind) \in Nat
                       /\ incoming[i].part \in Nat
  <2> TAKE i \in 1..l
  <2>1. incoming[i] = ExpectedUnit(incoming[i].n, incoming[i].part) BY <1>9
  <2>2. incoming[i].kind = events[incoming[i].n] BY ONLY <2>1 DEF ExpectedUnit
  <2>3. incoming[i] \in Units BY <1>2 DEF l
  <2>4. incoming[i].kind \in PeerKinds /\ incoming[i].part \in Nat BY <2>3 DEF Units
  <2> QED BY <2>2, <2>4, UnitCounts
<1>11. l > 0 => incoming[l].n = q /\ incoming[l].part = UnitCount(incoming[l].kind)
  BY <1>1, <1>2 DEF InInv, CursorInv, l, q
<1>12. ASSUME NEW i \in 1..(l + c)
       PROVE  /\ incoming'[i].n \in 1..(q + 1)
              /\ incoming'[i] = [session |-> fd', n |-> incoming'[i].n, part |-> incoming'[i].part,
                                 kind |-> events'[incoming'[i].n]]
              /\ incoming'[i].part \in 1..UnitCount(incoming'[i].kind)
  <2>1. CASE i <= l
    <3>1. i \in 1..l BY <1>2, <2>1
    <3>2. incoming'[i] = incoming[i] BY <1>7, <3>1
    <3>3. /\ incoming[i].n \in 1..q
          /\ incoming[i] = [session |-> fd, n |-> incoming[i].n, part |-> incoming[i].part,
                            kind |-> events[incoming[i].n]]
          /\ incoming[i].part \in 1..UnitCount(incoming[i].kind)
      BY ONLY <1>9, <3>1 DEF ExpectedUnit
    <3>4. events'[incoming[i].n] = events[incoming[i].n] BY ONLY <1>4, <3>3
    <3>5. incoming[i].n \in 1..(q + 1) BY ONLY <1>2, <3>3
    <3> QED BY ONLY <1>1, <3>2, <3>3, <3>4, <3>5
  <2>2. CASE i > l
    <3>1. /\ i - l \in 1..c
          /\ incoming'[i] = [session |-> fd, n |-> q + 1, part |-> i - l, kind |-> kind]
      BY <1>8, <2>2
    <3>2. /\ incoming'[i].n = q + 1 /\ incoming'[i].part = i - l /\ incoming'[i].kind = kind BY ONLY <3>1
    <3>3. q + 1 \in 1..(q + 1) BY <1>2
    <3> QED BY ONLY <1>1, <1>4, <3>1, <3>2, <3>3 DEF c
  <2> QED BY <1>2, <1>3, <2>1, <2>2
<1>13. ASSUME NEW i \in 1..(l + c), NEW j \in 1..(l + c), i <= j,
              incoming'[i].part + (j - i) <= UnitCount(incoming'[i].kind)
       PROVE  incoming'[j].n = incoming'[i].n /\ incoming'[j].part = incoming'[i].part + (j - i)
  <2>1. CASE j <= l
    <3>1. i \in 1..l /\ j \in 1..l BY <1>2, <1>13, <2>1
    <3> QED BY ONLY <1>7, <1>9, <1>13, <3>1
  <2>2. CASE i > l
    <3>1. j > l BY <1>2, <1>3, <1>13, <2>2
    <3>2. /\ incoming'[i] = [session |-> fd, n |-> q + 1, part |-> i - l, kind |-> kind]
          /\ incoming'[j] = [session |-> fd, n |-> q + 1, part |-> j - l, kind |-> kind]
      BY ONLY <1>8, <2>2, <3>1, i \in 1..(l + c), j \in 1..(l + c)
    <3>3. (i - l) + (j - i) = j - l BY <1>2, <1>3
    <3> QED BY ONLY <3>2, <3>3
  <2>3. CASE i <= l /\ j > l
    <3>1. i \in 1..l /\ l \in 1..l /\ l > 0 /\ i <= l /\ l - i < j - i BY <1>2, <1>3, <2>3
    <3>2. incoming[i].part + (j - i) <= UnitCount(incoming[i].kind) BY ONLY <1>7, <1>13, <3>1
    <3>3. incoming[i].part \in Nat /\ UnitCount(incoming[i].kind) \in Nat BY ONLY <1>10, <3>1
    <3>4. incoming[i].part + (l - i) < UnitCount(incoming[i].kind)
      BY ONLY <1>2, <1>3, <3>1, <3>2, <3>3, i \in 1..(l + c), j \in 1..(l + c)
    <3>5. incoming[l].n = incoming[i].n /\ incoming[l].part = incoming[i].part + (l - i)
      <4>1. incoming[i].part + (l - i) <= UnitCount(incoming[i].kind) BY <1>2, <3>1, <3>3, <3>4
      <4> QED BY ONLY <1>9, <3>1, <4>1
    <3>6. incoming[l].kind = incoming[i].kind BY ONLY <1>10, <3>1, <3>5
    <3>7. incoming[l].part = UnitCount(incoming[i].kind) BY ONLY <1>11, <3>1, <3>6
    <3> QED BY ONLY <1>2, <3>1, <3>3, <3>4, <3>5, <3>7
  <2> QED BY <1>2, <1>3, <2>1, <2>2, <2>3
<1>14. ASSUME NEW i \in 1..((l + c) - 1), incoming'[i].part = UnitCount(incoming'[i].kind)
       PROVE  incoming'[i + 1].n = incoming'[i].n + 1 /\ incoming'[i + 1].part = 1
  <2>0. i \in 1..(l + c) /\ i + 1 \in 1..(l + c) BY <1>2, <1>3
  <2>1. CASE i < l
    <3>1. i \in 1..(l - 1) /\ i \in 1..l /\ i + 1 \in 1..l BY <1>2, <1>3, <2>1
    <3> QED BY ONLY <1>7, <1>9, <1>14, <3>1
  <2>2. CASE i = l
    <3>1. i \in 1..l /\ i > 0 /\ i + 1 > l /\ (i + 1) - l = 1 BY <1>2, <1>3, <2>2
    <3>2. incoming'[i + 1] = [session |-> fd, n |-> q + 1, part |-> 1, kind |-> kind] BY ONLY <1>8, <2>0, <3>1
    <3>3. incoming'[i].n = q BY ONLY <1>7, <1>11, <2>2, <3>1
    <3> QED BY ONLY <3>2, <3>3
  <2>3. CASE i > l
    <3>1. incoming'[i] = [session |-> fd, n |-> q + 1, part |-> i - l, kind |-> kind] BY <1>8, <2>0, <2>3
    <3>2. i - l = c BY ONLY <1>14, <3>1 DEF c
    <3> QED BY <1>2, <1>3, <3>2
  <2> QED BY <1>2, <1>3, <2>1, <2>2, <2>3
<1>15. UnitsAreOrdered'
  <2>1. \A i \in 1..(l + c) : incoming'[i] = ExpectedUnit(incoming[i].n, incoming[i].part)'
    BY <1>12 DEF ExpectedUnit
  <2> QED BY <1>4, <1>6, <1>12, <1>13, <1>14, <2>1 DEF UnitsAreOrdered
<1>16. begun <= q /\ (begun >= 1 => events'[begun] = events[begun])
  <2>1. begun <= q BY DEF InInv, PartsInv, q
  <2>2. begun >= 1 => begun \in 1..q BY <1>2, <2>1
  <2> QED BY <1>4, <2>1, <2>2
<1>17. Cursor' = Cursor
  <2>1. pending # {} => begun >= 1 BY DEF InInv, PartsInv
  <2> QED BY <1>1, <1>16, <2>1 DEF Cursor
<1>18. CursorInv'
  <2>1. l + c \in 1..(l + c) /\ 1 \in 1..(l + c) /\ l + c > l /\ (l + c) - l = c /\ l + c # 0 BY <1>2, <1>3
  <2>2. incoming' # <<>> BY <1>6, <2>1
  <2>3. <<incoming'[1].n, incoming'[1].part>> = Cursor
    <3>1. CASE l = 0
      <4>1. incoming = <<>> BY <1>2, <3>1 DEF l
      <4>2. Cursor = <<q + 1, 1>> BY <1>1, <4>1 DEF InInv, CursorInv, q
      <4>3. incoming'[1] = [session |-> fd, n |-> q + 1, part |-> 1, kind |-> kind]
        <5>1. 1 > l /\ 1 - l = 1 BY <3>1
        <5> QED BY ONLY <1>8, <2>1, <5>1
      <4> QED BY ONLY <4>2, <4>3
    <3>2. CASE l # 0
      <4>1. 1 \in 1..l /\ incoming # <<>> BY <1>2, <3>2 DEF l
      <4>2. <<incoming[1].n, incoming[1].part>> = Cursor BY <4>1 DEF InInv, CursorInv
      <4> QED BY ONLY <1>7, <4>1, <4>2
    <3> QED BY <3>1, <3>2
  <2>4. incoming'[l + c] = [session |-> fd, n |-> q + 1, part |-> c, kind |-> kind] BY ONLY <1>8, <2>1
  <2>5. incoming'[l + c].n = Len(events') /\ incoming'[l + c].part = UnitCount(incoming'[l + c].kind)
    BY ONLY <1>4, <2>4 DEF c
  <2> QED BY ONLY <1>6, <1>17, <2>2, <2>3, <2>5 DEF CursorInv
<1>19. PartsInv'
  <2>1. header # <<>> => begun + 1 \in 1..q BY <1>2 DEF InInv, PartsInv, q
  <2>2. header # <<>> => events'[begun + 1] = events[begun + 1] BY <1>4, <2>1
  <2>3. \A j \in 1..Len(header) : header # <<>> BY <1>t DEF InTypes
  <2>4. \A j \in 1..Len(header') :
          header'[j] = [session |-> fd', n |-> begun' + 1, part |-> j, kind |-> events'[begun' + 1]]
    BY <1>1, <2>2, <2>3 DEF InInv, PartsInv, ExpectedUnit
  <2>5. \A x \in PayloadKinds : \A j \in 1..Len(payload'[x]) :
          x \in pending' /\ payload'[x][j] = [session |-> fd', n |-> begun', part |-> HeaderSize + j, kind |-> events'[begun']]
    <3> TAKE x \in PayloadKinds
    <3>1. \A j \in 1..Len(payload[x]) : x \in pending /\ payload[x][j] = ExpectedUnit(begun, HeaderSize + j)
      BY DEF InInv, PartsInv
    <3>2. x \in pending => begun >= 1 BY DEF InInv, PartsInv
    <3> QED BY <1>1, <1>16, <3>1, <3>2 DEF ExpectedUnit
  <2>6. begun' <= Len(events') /\ (header' # <<>> => begun' < Len(events')) BY <1>1, <1>2, <1>4, <1>16
  <2>7. /\ fd = 0 => pending = {}
        /\ pending # {} => begun >= 1 /\ pending = {events[begun]} /\ header = <<>> /\ pc # "descriptor"
        /\ pc = "descriptor" => begun >= 1 /\ events[begun] = "data" /\ header = <<>> /\ running = None
        /\ \A x \in PayloadKinds : Len(payload[x]) <= PayloadSize
        /\ fd # 0 /\ running # None =>
             /\ begun >= 1 /\ running = events[begun] /\ header = <<>>
             /\ running \in pending => Len(payload[running]) = PayloadSize
    BY DEF InInv, PartsInv
  <2> QED BY <1>1, <1>16, <2>4, <2>5, <2>6, <2>7 DEF PartsInv, ExpectedUnit
<1>20. InTypes' BY <1>1, <1>4, <1>6, <1>t DEF InTypes
<1> QED BY <1>15, <1>18, <1>19, <1>20 DEF InInv

\* The server vanishes: of what it wrote, a first part is there to be read.
LEMMA PeerClosesStep ==
    ASSUME InInv, NEW k \in 0..Len(incoming), PeerCloses(k)
    PROVE  InInv'
<1>t. InTypes BY DEF InInv
<1>1. /\ peerOpen' = FALSE /\ incoming' = SubSeq(incoming, 1, k)
      /\ UNCHANGED <<fd, pc, running, events, header, pending, payload, begun>>
  BY DEF PeerCloses
<1>2. /\ incoming' \in Seq(Units) /\ Len(incoming') = k /\ \A i \in 1..k : incoming'[i] = incoming[i]
      /\ Len(incoming) \in Nat
  BY <1>1, <1>t DEF InTypes
<1>3. \A i \in 1..k : i \in 1..Len(incoming) BY <1>2
<1>4. \A i \in 1..(k - 1) : i \in 1..k /\ i + 1 \in 1..k /\ i \in 1..(Len(incoming) - 1) BY <1>2
<1>5. UnitsAreOrdered' BY <1>1, <1>2, <1>3, <1>4 DEF InInv, UnitsAreOrdered, ExpectedUnit
<1>6. CursorInv'
  <2>1. Cursor' = Cursor BY <1>1 DEF Cursor
  <2>2. incoming' # <<>> => 1 \in 1..k /\ incoming # <<>> BY <1>1, <1>2
  <2> QED BY <1>1, <1>2, <2>1, <2>2 DEF InInv, CursorInv
<1>7. PartsInv' BY <1>1 DEF InInv, PartsInv, ExpectedUnit
<1> QED BY <1>1, <1>2, <1>5, <1>6, <1>7, <1>t DEF InInv, InTypes

-----------------------------------------------------------------------------
(* Both directions.                                                        *)

\* The inductive invariant.
SessionInv == ConnInv /\ OutInv /\ InInv

\* session.cpp:43-63, command_queue.h:25-34: everything of a connection goes
\* with it.
LEMMA ResetStep ==
    ASSUME SessionInv, clear, ResetEvents, ForgetSocket, fd' \in 0..MaxSessions, running' = running,
           pc' # "descriptor", fd' # 0 => running = None
    PROVE  OutInv' /\ InInv'
<1>1. /\ accepted' = <<>> /\ wire' = <<>> /\ read' = <<>>
      /\ incoming' = <<>> /\ events' = <<>> /\ begun' = 0
  BY DEF ForgetSocket
<1>2. OutInv' BY <1>1, ClearStep DEF SessionInv
<1>3. InInv' BY <1>1, InReset DEF SessionInv, InInv
<1> QED BY <1>2, <1>3

\* session.cpp:43-63: disconnect().
LEMMA DisconnectStep ==
    ASSUME SessionInv, disconnect
    PROVE  SessionInv'
<1> USE SessionAssumption
<1>1. /\ clear /\ ResetEvents /\ ForgetSocket /\ fd' = 0 /\ peerOpen' = FALSE /\ watching' = {}
      /\ pc' = "idle" /\ greetings' = 0 /\ UNCHANGED <<sessions, running>>
  BY DEF disconnect
<1>2. ConnInv'
  <2>1. ConnInv BY DEF SessionInv
  <2>2. fd' \in 0..MaxSessions /\ greetings' \in 0..2 /\ watching' \in SUBSET {"input", "output"} BY <1>1
  <2>3. sessions' \in 0..MaxSessions BY <1>1, <2>1 DEF ConnInv
  <2>4. peerOpen' \in BOOLEAN /\ ~peerOpen' BY <1>1, Zenon
  <2> QED BY <1>1, <2>2, <2>3, <2>4 DEF ConnInv
<1>3. OutInv' /\ InInv' BY <1>1, ResetStep
<1> QED BY <1>2, <1>3 DEF SessionInv

\* session.cpp:73-80: a command is taken.
LEMMA AcceptStep ==
    ASSUME SessionInv, NEW d \in BOOLEAN, Accept(d), pc \in {"idle", "greet"}, fd # 0, greetings' \in 0..2
    PROVE  SessionInv'
<1>1. append(d) /\ pc' = "flush" /\ UNCHANGED <<fd, sessions, peerOpen, watching, running, wire, read, inVars>>
  BY DEF Accept
<1>2. ConnInv' BY <1>1 DEF SessionInv, ConnInv
<1>3. OutInv' BY <1>1, AppendStep DEF SessionInv
<1>4. InInv' BY <1>1, InFrame DEF SessionInv
<1> QED BY <1>2, <1>3, <1>4 DEF SessionInv

\* Steps that change nothing of the session but where it is.
LEMMA LooperStep ==
    ASSUME SessionInv, ConnInv', UNCHANGED <<fd, peerOpen, running, outVars, inVars>>,
           pc # "descriptor", pc' # "descriptor"
    PROVE  SessionInv'
BY InFrame, OutFrame DEF SessionInv

\* session.cpp:13-39: a session begins with nothing queued and nothing read.
LEMMA SessionInit ==
    ASSUME Init
    PROVE  SessionInv
<1> USE SessionAssumption
<1>1. ConnInv
  <2>1. fd \in 0..MaxSessions /\ greetings \in 0..2 /\ watching \in SUBSET {"input", "output"}
        /\ sessions \in 0..MaxSessions /\ pc = "idle"
    BY DEF Init
  <2>2. peerOpen \in BOOLEAN /\ ~peerOpen BY Zenon DEF Init
  <2> QED BY <2>1, <2>2 DEF ConnInv
<1>2. OutInv
  <2>1. OutTypes BY DEF Init, OutTypes
  <2>2. CountsMatchQueue /\ CopiesAreOwned /\ QueueShape
    BY DEF Init, CountsMatchQueue, CopiesAreOwned, QueueShape, Descriptors, ToSet
  <2>3. StreamWhole
    <3>1. FlattenSeq(Remainders(<<>>)) = <<>>
      <4>1. <<>> \in Seq(Entries) OBVIOUS
      <4>2. Remainders(<<>>) \in Seq(Seq(Wired)) /\ Len(Remainders(<<>>)) = 0 BY <4>1, RemaindersType
      <4>3. Remainders(<<>>) = <<>> BY ONLY <4>2, EmptySeq
      <4> QED BY <4>2, <4>3 DEF FlattenSeq
    <3>2. StreamUpTo(accepted, 0) = <<>> BY EmptyStream
    <3> QED BY <3>1, <3>2, OutInTerms DEF Init, StreamWhole
  <2> QED BY <2>1, <2>2, <2>3 DEF OutInv
<1>3. InInv
  <2>1. \A x \in PayloadKinds : payload[x] = <<>> BY DEF Init, NoPayload
  <2>2. InTypes BY DEF Init, InTypes, NoPayload
  <2>3. UnitsAreOrdered /\ CursorInv BY DEF Init, UnitsAreOrdered, CursorInv, Cursor
  <2>4. PartsInv BY <2>1 DEF Init, PartsInv
  <2> QED BY <2>2, <2>3, <2>4 DEF InInv
<1> QED BY <1>1, <1>2, <1>3 DEF SessionInv

\* One step per action: the Looper, its callbacks and the server.
LEMMA SessionStep ==
    ASSUME SessionInv, [Next]_vars
    PROVE  SessionInv'
<1> USE SessionAssumption
<1>i. ConnInv /\ OutInv /\ InInv BY DEF SessionInv
<1>1. ASSUME NEW d \in BOOLEAN, Command(d) PROVE SessionInv'
  <2>1. fd # 0 /\ pc = "idle" /\ ((Accept(d) /\ greetings' = greetings) \/ disconnect) BY <1>1 DEF Command
  <2>2. greetings \in 0..2 BY <1>i DEF ConnInv
  <2> QED BY <2>1, <2>2, AcceptStep, DisconnectStep
<1>2. ASSUME NEW k \in 1..HeaderSize, SendPart(k) PROVE SessionInv'
  <2>1. UNCHANGED <<fd, sessions, peerOpen, watching, pc, greetings, running, inVars>> BY <1>2 DEF SendPart, connVars
  <2>2. ConnInv' BY <1>i, <2>1 DEF ConnInv
  <2> QED BY <1>i, <1>2, <2>1, <2>2, SendPartStep, InFrame DEF SessionInv
<1>3. ASSUME SendDescriptor PROVE SessionInv'
  <2>1. UNCHANGED <<fd, sessions, peerOpen, watching, pc, greetings, running, inVars>> BY <1>3 DEF SendDescriptor, connVars
  <2>2. ConnInv' BY <1>i, <2>1 DEF ConnInv
  <2> QED BY <1>i, <1>3, <2>1, <2>2, SendDescriptorStep, InFrame DEF SessionInv
<1>4. ASSUME Retire PROVE SessionInv'
  <2>1. UNCHANGED <<fd, sessions, peerOpen, watching, pc, greetings, running, inVars>> BY <1>4 DEF Retire, connVars
  <2>2. ConnInv' BY <1>i, <2>1 DEF ConnInv
  <2> QED BY <1>i, <1>4, <2>1, <2>2, RetireStep, InFrame DEF SessionInv
<1>5. ASSUME Flushed PROVE SessionInv'
  <2>1. /\ pc = "flush" /\ watching' = watch /\ pc' = IF greetings > 0 THEN "greet" ELSE "idle"
        /\ UNCHANGED <<fd, sessions, peerOpen, greetings, running, outVars, inVars>>
    BY <1>5 DEF Flushed
  <2>2. watch \in SUBSET {"input", "output"} BY DEF watch
  <2>3. ConnInv' BY <1>i, <2>1, <2>2 DEF ConnInv
  <2> QED BY <2>1, <2>3, LooperStep
<1>6. ASSUME FlushFails \/ RejectHeader \/ PeerLost PROVE SessionInv'
  BY <1>6, DisconnectStep DEF FlushFails, RejectHeader, PeerLost
<1>7. ASSUME Writable PROVE SessionInv'
  <2>1. /\ fd # 0 /\ pc = "idle" /\ pc' = "flush"
        /\ UNCHANGED <<fd, sessions, peerOpen, watching, greetings, running, outVars, inVars>>
    BY <1>7 DEF Writable, LooperIdle
  <2>2. ConnInv' BY <1>i, <2>1 DEF ConnInv
  <2> QED BY <2>1, <2>2, LooperStep
<1>8. ASSUME connect PROVE SessionInv'
  <2>1. /\ running = None /\ sessions < MaxSessions /\ clear /\ ResetEvents /\ ForgetSocket
        /\ sessions' = sessions + 1 /\ running' = running
        /\ \/ /\ fd' = sessions + 1 /\ peerOpen' = TRUE
              /\ watching' = {"input"} /\ pc' = "greet" /\ greetings' = 2
           \/ /\ fd' = 0 /\ peerOpen' = FALSE
              /\ watching' = {} /\ pc' = "idle" /\ greetings' = 0
    BY <1>8 DEF connect
  <2>2. ConnInv'
    <3>1. /\ fd' \in 0..MaxSessions /\ greetings' \in 0..2 /\ watching' \in SUBSET {"input", "output"}
          /\ sessions' \in 0..MaxSessions /\ pc' \in {"idle", "greet"}
      BY <1>i, <2>1 DEF ConnInv
    <3>2. peerOpen' \in BOOLEAN BY <2>1, Zenon
    <3>3. fd' = sessions + 1 => fd' # 0 BY <1>i DEF ConnInv
    <3>4. peerOpen' => fd' # 0 BY <2>1, <3>3, Zenon
    <3>5. (fd' = 0 => pc' = "idle") /\ (pc' = "greet" => greetings' > 0)
      <4>1. CASE fd' = sessions + 1 /\ pc' = "greet" /\ greetings' = 2 BY <3>3, <4>1
      <4>2. CASE fd' = 0 /\ pc' = "idle" BY <4>2
      <4> QED BY <2>1, <4>1, <4>2
    <3> QED BY <3>1, <3>2, <3>4, <3>5 DEF ConnInv
  <2>3. OutInv' /\ InInv'
    <3>1. fd' \in 0..MaxSessions /\ pc' # "descriptor" BY <2>1, <2>2 DEF ConnInv
    <3> QED BY <2>1, <3>1, ResetStep
  <2> QED BY <2>2, <2>3 DEF SessionInv
<1>9. ASSUME Greet PROVE SessionInv'
  <2>1. pc = "greet" /\ ((Accept(TRUE) /\ greetings' = greetings - 1) \/ disconnect) BY <1>9 DEF Greet
  <2>2. greetings - 1 \in 0..2 /\ fd # 0 BY <1>i, <2>1 DEF ConnInv
  <2>3. TRUE \in BOOLEAN OBVIOUS
  <2> QED BY <2>1, <2>2, <2>3, AcceptStep, DisconnectStep
<1>10. ASSUME Destroy PROVE SessionInv'
  <2>1. /\ pc = "idle" /\ running = None /\ clear /\ ResetEvents /\ ForgetSocket
        /\ fd' = 0 /\ peerOpen' = FALSE /\ watching' = {} /\ sessions' = MaxSessions
        /\ UNCHANGED <<pc, greetings, running>>
    BY <1>10 DEF Destroy
  <2>2. ConnInv'
    <3>1. fd' \in 0..MaxSessions /\ greetings' \in 0..2 /\ watching' \in SUBSET {"input", "output"}
          /\ sessions' \in 0..MaxSessions /\ pc' = "idle"
      BY <1>i, <2>1 DEF ConnInv
    <3>2. peerOpen' \in BOOLEAN /\ ~peerOpen' BY <2>1, Zenon
    <3> QED BY <3>1, <3>2 DEF ConnInv
  <2>3. OutInv' /\ InInv' BY <2>1, ResetStep
  <2> QED BY <2>2, <2>3 DEF SessionInv
<1>11. ASSUME NEW k \in 1..HeaderSize, ReceiveHeader(k) PROVE SessionInv'
  <2>1. fd # 0 /\ pc = "idle" /\ UNCHANGED <<fd, sessions, peerOpen, watching, greetings, outVars>>
    BY <1>11 DEF ReceiveHeader, LooperIdle
  <2>2. pc' \in {"idle", "descriptor"}
    <3>1. pc' = pc \/ Dispatch(Received(header, k)[1].kind) BY <1>11 DEF ReceiveHeader
    <3> QED BY <2>1, <3>1 DEF Dispatch
  <2>3. ConnInv' BY <1>i, <2>1, <2>2 DEF ConnInv
  <2> QED BY <1>i, <1>11, <2>1, <2>3, ReceiveHeaderStep, OutFrame DEF SessionInv
<1>12. ASSUME NEW kind \in PayloadKinds, NEW k \in 1..PayloadSize, ReceivePayload(kind, k) PROVE SessionInv'
  <2>1. UNCHANGED <<fd, sessions, peerOpen, watching, pc, greetings, outVars>> BY <1>12 DEF ReceivePayload
  <2>2. ConnInv' BY <1>i, <2>1 DEF ConnInv
  <2> QED BY <1>i, <1>12, <2>1, <2>2, ReceivePayloadStep, OutFrame DEF SessionInv
<1>13. ASSUME NEW kind \in PayloadKinds, RejectPayload(kind) PROVE SessionInv'
  BY <1>13, DisconnectStep DEF RejectPayload
<1>14. ASSUME ReceiveDescriptor PROVE SessionInv'
  <2>1. pc' = "idle" /\ UNCHANGED <<fd, sessions, peerOpen, watching, greetings, outVars>> BY <1>14 DEF ReceiveDescriptor
  <2>2. ConnInv' BY <1>i, <2>1 DEF ConnInv
  <2> QED BY <1>i, <1>14, <2>1, <2>2, ReceiveDescriptorStep, OutFrame DEF SessionInv
<1>15. ASSUME CallbackReturns PROVE SessionInv'
  <2>1. UNCHANGED <<fd, sessions, peerOpen, watching, pc, greetings, outVars>> BY <1>15 DEF CallbackReturns
  <2>2. ConnInv' BY <1>i, <2>1 DEF ConnInv
  <2> QED BY <1>i, <1>15, <2>1, <2>2, CallbackReturnsStep, OutFrame DEF SessionInv
<1>16. ASSUME PeerReads PROVE SessionInv'
  <2>1. UNCHANGED <<fd, sessions, peerOpen, watching, pc, greetings, running, inVars>> BY <1>16 DEF PeerReads, connVars
  <2>2. ConnInv' BY <1>i, <2>1 DEF ConnInv
  <2> QED BY <1>i, <1>16, <2>1, <2>2, PeerReadsStep, InFrame DEF SessionInv
<1>17. ASSUME NEW kind \in PeerKinds, PeerSends(kind) PROVE SessionInv'
  <2>1. UNCHANGED <<fd, sessions, peerOpen, watching, pc, greetings, outVars>> /\ peerOpen
    BY <1>17 DEF PeerSends, connVars
  <2>2. ConnInv' /\ fd # 0 BY <1>i, <2>1 DEF ConnInv
  <2> QED BY <1>i, <1>17, <2>1, <2>2, PeerSendsStep, OutFrame DEF SessionInv
<1>18. ASSUME NEW k \in 0..Len(incoming), PeerCloses(k) PROVE SessionInv'
  <2>1. peerOpen' = FALSE /\ UNCHANGED <<fd, sessions, watching, pc, greetings, outVars>> BY <1>18 DEF PeerCloses
  <2>2. ConnInv' BY <1>i, <2>1 DEF ConnInv
  <2> QED BY <1>i, <1>18, <2>1, <2>2, PeerClosesStep, OutFrame DEF SessionInv
<1>19. ASSUME UNCHANGED vars PROVE SessionInv'
  <2>1. UNCHANGED <<fd, sessions, peerOpen, watching, pc, greetings, running, outVars, inVars>>
    BY <1>19 DEF vars, connVars
  <2>2. ConnInv' BY <1>i, <2>1 DEF ConnInv
  <2> QED BY <1>i, <2>1, <2>2, InFrame, OutFrame DEF SessionInv
<1> QED BY <1>1, <1>2, <1>3, <1>4, <1>5, <1>6, <1>7, <1>8, <1>9, <1>10, <1>11, <1>12, <1>13, <1>14,
           <1>15, <1>16, <1>17, <1>18, <1>19 DEF Next, Flush

\* What the invariant says of the properties.
LEMMA SessionMeans ==
    ASSUME SessionInv
    PROVE  TypeOK /\ QueueIsAccounted /\ MessagesAreWhole
<1>1. TypeOK BY DEF SessionInv, ConnInv, OutInv, OutTypes, InInv, InTypes, TypeOK, Wired
<1>2. QueueIsAccounted BY DEF SessionInv, OutInv, QueueIsAccounted
<1>3. StreamIsWhole BY DEF SessionInv, OutInv, StreamWhole, StreamIsWhole
<1>4. EventsAreWhole
  <2>1. DOMAIN header = 1..Len(header) /\ \A kind \in PayloadKinds : DOMAIN payload[kind] = 1..Len(payload[kind])
    BY DEF SessionInv, InInv, InTypes
  <2> QED BY <2>1 DEF SessionInv, InInv, PartsInv, EventsAreWhole
<1> QED BY <1>1, <1>2, <1>3, <1>4 DEF MessagesAreWhole

\* The invariant holds in every behaviour.
LEMMA SessionAlways == Spec => []SessionInv
<1>1. Init => SessionInv BY SessionInit
<1>2. SessionInv /\ [Next]_vars => SessionInv' BY SessionStep
<1> QED BY <1>1, <1>2, PTL DEF Spec

\* session.cpp:13-39, command_queue.h:13-20: the state of a session is well typed,
\* the byte and message counts within the bounds of the queue included.
THEOREM TypesCorrect == Spec => []TypeOK
<1>1. SessionInv => TypeOK BY SessionMeans
<1> QED BY <1>1, SessionAlways, PTL

\* command_queue.h:12-89: the queue's counts and its duplicated descriptors are
\* those of the messages in it, through partial writes and lost connections.
THEOREM AccountsCorrect == Spec => []QueueIsAccounted
<1>1. SessionInv => QueueIsAccounted BY SessionMeans
<1> QED BY <1>1, SessionAlways, PTL

\* command_queue.h:10-11, session.cpp:43-246: neither direction of the socket
\* joins parts of different messages, whatever the sizes of messages, payloads,
\* queue and socket, and however send() and recv() divide them.
THEOREM MessagesCorrect == Spec => []MessagesAreWhole
<1>1. SessionInv => MessagesAreWhole BY SessionMeans
<1> QED BY <1>1, SessionAlways, PTL

-----------------------------------------------------------------------------
(* The session implements CommandStream.                                   *)

\* The messages of acc whose last unit is among those read.
Ended(acc, rd) == {n \in DOMAIN acc : <<n, HeaderSize + (IF acc[n] THEN 1 ELSE 0)>> \in ToSet(rd)}

\* Arrived in these terms, before and after a step.
LEMMA ArrivedIsEnded ==
    /\ Arrived = Cardinality(Ended(accepted, read))
    /\ Arrived' = Cardinality(Ended(accepted', read'))
BY DEF Arrived, Ended, ToSet

\* There are no more of them than messages.
LEMMA EndedIsFinite ==
    ASSUME NEW acc \in Seq(BOOLEAN), NEW rd
    PROVE  /\ IsFiniteSet(Ended(acc, rd))
           /\ Cardinality(Ended(acc, rd)) \in Nat /\ Cardinality(Ended(acc, rd)) <= Len(acc)
<1>1. Ended(acc, rd) \subseteq 1..Len(acc) /\ Len(acc) \in Nat BY DEF Ended
<1>2. IsFiniteSet(1..Len(acc)) /\ Cardinality(1..Len(acc)) = Len(acc)
  <2>1. 1 \in Int /\ Len(acc) \in Int BY <1>1
  <2>2. Cardinality(1..Len(acc)) = IF 1 > Len(acc) THEN 0 ELSE Len(acc) - 1 + 1 BY <2>1, FS_Interval
  <2>3. IsFiniteSet(1..Len(acc)) BY <2>1, FS_Interval
  <2> QED BY <1>1, <2>2, <2>3
<1>3. IsFiniteSet(Ended(acc, rd)) /\ Cardinality(Ended(acc, rd)) <= Cardinality(1..Len(acc))
  BY <1>1, <1>2, FS_Subset
<1>4. Cardinality(Ended(acc, rd)) \in Nat BY <1>3, FS_CardinalityType
<1> QED BY <1>2, <1>3, <1>4

\* command_queue.h:10-11: what has been read belongs to accepted messages, and
\* the next unit in the socket has not been read before.
LEMMA ReadOnce ==
    ASSUME OutInv
    PROVE  /\ \A x \in ToSet(read) : x[1] \in 1..Len(accepted)
           /\ wire # <<>> => Head(wire) \notin ToSet(read)
<1> DEFINE s == StreamUpTo(accepted, Len(accepted))
           v == FlattenSeq(Remainders(commands))
           l == Len(read)
           w == Len(wire)
<1>t. OutTypes BY DEF OutInv
<1>1. read \in Seq(Wired) /\ wire \in Seq(Wired) /\ l \in Nat /\ w \in Nat /\ Len(accepted) \in Nat
  BY <1>t DEF OutTypes
<1>2. v \in Seq(Wired)
  <2>1. Remainders(commands) \in Seq(Seq(Wired)) BY <1>t, RemaindersType DEF OutTypes
  <2> QED BY <2>1, FlattenType
<1>3. (read \o wire) \o v = s BY OutInTerms DEF OutInv, StreamWhole
<1> HIDE DEF v, s
<1>4. /\ read \o wire \in Seq(Wired) /\ Len(read \o wire) = l + w
      /\ \A i \in 1..(l + w) : (read \o wire)[i] = IF i <= l THEN read[i] ELSE wire[i - l]
  BY <1>1, ConcatProperties
<1> DEFINE a == read \o wire
<1>5. Len(v) \in Nat BY <1>2
<1>6. Len(s) = (l + w) + Len(v) /\ \A i \in 1..(l + w) : s[i] = a[i]
  <2> HIDE DEF a
  <2>1. a \in Seq(Wired) /\ Len(a) = l + w BY <1>4 DEF a
  <2>2. /\ Len(a \o v) = Len(a) + Len(v)
        /\ \A i \in 1..(Len(a) + Len(v)) : (a \o v)[i] = IF i <= Len(a) THEN a[i] ELSE v[i - Len(a)]
    BY ONLY <1>2, <2>1, ConcatProperties
  <2>3. a \o v = s BY <1>3 DEF a
  <2>4. \A i \in 1..(l + w) : i \in 1..((l + w) + Len(v)) /\ i <= l + w BY <1>1, <1>5
  <2> HIDE DEF l, w
  <2> QED BY ONLY <2>1, <2>2, <2>3, <2>4
<1>7. /\ \A i \in 1..Len(s) : s[i][1] \in 1..Len(accepted)
      /\ \A i, j \in 1..Len(s) : s[i] = s[j] => i = j
  BY <1>1, StreamIsInjective DEF s
<1>8. \A i \in 1..l : i \in 1..Len(s) /\ s[i] = read[i]
  <2> TAKE i \in 1..l
  <2>1. i \in 1..(l + w) /\ i <= l /\ i \in 1..Len(s) BY <1>1, <1>5, <1>6
  <2> QED BY <1>4, <1>6, <2>1
<1>9. \A x \in ToSet(read) : \E i \in 1..l : x = read[i] BY <1>1 DEF ToSet
<1>10. \A x \in ToSet(read) : x[1] \in 1..Len(accepted)
  <2> HIDE DEF l
  <2> QED BY ONLY <1>7, <1>8, <1>9
<1>11. ASSUME wire # <<>> PROVE Head(wire) \notin ToSet(read)
  <2>1. w >= 1 /\ Head(wire) = wire[1] BY <1>1, <1>11
  <2>2. l + 1 \in 1..(l + w) /\ ~(l + 1 <= l) /\ (l + 1) - l = 1 /\ l + 1 \in 1..Len(s) /\ \A i \in 1..l : i # l + 1
    BY <1>1, <1>5, <1>6, <2>1
  <2>3. s[l + 1] = Head(wire) BY <1>4, <1>6, <2>1, <2>2
  <2> HIDE DEF l
  <2> QED BY ONLY <1>7, <1>8, <1>9, <2>2, <2>3
<1> QED BY <1>10, <1>11

\* A command is accepted: none has arrived by that.
LEMMA AppendArrives ==
    ASSUME OutInv, NEW d \in BOOLEAN, accepted' = Append(accepted, d), read' = read
    PROVE  Arrived' = Arrived
<1>1. accepted \in Seq(BOOLEAN) /\ Len(accepted) \in Nat BY DEF OutInv, OutTypes
<1>2. /\ DOMAIN accepted = 1..Len(accepted) /\ DOMAIN accepted' = 1..(Len(accepted) + 1)
      /\ \A n \in 1..Len(accepted) : accepted'[n] = accepted[n]
  BY <1>1
<1>3. \A n \in 1..(Len(accepted) + 1) : n \in 1..Len(accepted) \/ n \notin 1..Len(accepted) BY <1>1
<1>4. \A n \in 1..Len(accepted) : n \in 1..(Len(accepted) + 1) BY <1>1
<1>5. \A n, p : <<n, p>> \in ToSet(read) => n \in 1..Len(accepted)
  <2> TAKE n, p
  <2> HAVE <<n, p>> \in ToSet(read)
  <2>1. <<n, p>>[1] \in 1..Len(accepted) BY ReadOnce
  <2> QED BY <2>1
<1>6. Ended(accepted', read') = Ended(accepted, read)
  <2>1. ASSUME NEW n \in Ended(accepted', read') PROVE n \in Ended(accepted, read)
    <3>1. n \in 1..Len(accepted) BY <1>5 DEF Ended
    <3> QED BY <1>2, <3>1 DEF Ended
  <2>2. ASSUME NEW n \in Ended(accepted, read) PROVE n \in Ended(accepted', read')
    BY <1>2, <1>4 DEF Ended
  <2> QED BY <2>1, <2>2
<1> QED BY <1>6, ArrivedIsEnded

\* A unit is read: at most one message ends with it.
LEMMA ReadArrives ==
    ASSUME OutInv, PeerReads
    PROVE  Arrived' = Arrived \/ (Arrived < Len(accepted) /\ Arrived' = Arrived + 1)
<1>1. wire # <<>> /\ read' = Append(read, Head(wire)) /\ accepted' = accepted
  BY DEF PeerReads, queueVars
<1>2. accepted \in Seq(BOOLEAN) /\ read \in Seq(Wired) BY DEF OutInv, OutTypes
<1> DEFINE x == Head(wire)
           E == Ended(accepted, read)
           F == Ended(accepted, read')
<1>3. ToSet(read') = ToSet(read) \cup {x}
  <2>1. /\ Len(read) \in Nat /\ Len(read') = Len(read) + 1 /\ read'[Len(read) + 1] = x
        /\ \A i \in 1..Len(read) : read'[i] = read[i]
        /\ DOMAIN read = 1..Len(read) /\ DOMAIN read' = 1..(Len(read) + 1)
    BY <1>1, <1>2
  <2>2. \A i \in 1..(Len(read) + 1) : i \in 1..Len(read) \/ i = Len(read) + 1 BY <2>1
  <2>3. Len(read) + 1 \in 1..(Len(read) + 1) /\ \A i \in 1..Len(read) : i \in 1..(Len(read) + 1) BY <2>1
  <2> HIDE DEF x
  <2> QED BY ONLY <2>1, <2>2, <2>3 DEF ToSet
<1>4. x \notin ToSet(read) BY <1>1, ReadOnce
<1>5. Arrived = Cardinality(E) /\ Arrived' = Cardinality(F) BY <1>1, ArrivedIsEnded
<1>6. /\ IsFiniteSet(E) /\ Cardinality(E) \in Nat
      /\ Cardinality(F) \in Nat /\ Cardinality(F) <= Len(accepted)
  BY <1>2, EndedIsFinite
<1> HIDE DEF x
<1>7. CASE \E n \in DOMAIN accepted : x = <<n, HeaderSize + (IF accepted[n] THEN 1 ELSE 0)>>
  <2>1. PICK n \in DOMAIN accepted : x = <<n, HeaderSize + (IF accepted[n] THEN 1 ELSE 0)>> BY <1>7
  <2>2. n \notin E BY <1>4, <2>1 DEF Ended
  <2>3. \A m \in DOMAIN accepted : m # n => <<m, HeaderSize + (IF accepted[m] THEN 1 ELSE 0)>> # x BY <2>1
  <2>4. F = E \cup {n} BY ONLY <1>3, <2>1, <2>3 DEF Ended
  <2> HIDE DEF E, F
  <2>5. Cardinality(F) = Cardinality(E) + 1 BY <1>6, <2>2, <2>4, FS_AddElement
  <2> QED BY ONLY <1>2, <1>5, <1>6, <2>5
<1>8. CASE ~\E n \in DOMAIN accepted : x = <<n, HeaderSize + (IF accepted[n] THEN 1 ELSE 0)>>
  <2>1. F = E BY ONLY <1>3, <1>8 DEF Ended
  <2> QED BY <1>5, <2>1
<1> QED BY <1>7, <1>8

\* Nothing has arrived on a new connection, or on none.
LEMMA NothingArrived ==
    ASSUME accepted' = <<>>
    PROVE  Arrived' = 0
<1>1. Ended(accepted', read') = {} BY DEF Ended
<1> QED BY <1>1, ArrivedIsEnded, FS_EmptySet

\* Steps that accept no message, and read none.
LEMMA ArrivedFrame ==
    ASSUME UNCHANGED <<accepted, read>>
    PROVE  Arrived' = Arrived
BY ArrivedIsEnded

\* Every step of the session is a step of CommandStream or leaves it alone.
LEMMA StreamStepOf ==
    ASSUME SessionInv, [Next]_vars
    PROVE  [Stream!Next]_(Stream!vars)
<1>i. ConnInv /\ OutInv BY DEF SessionInv
<1>a. ASSUME ForgetSocket, fd' = 0 PROVE Stream!Close
  <2>1. accepted' = <<>> BY <1>a DEF ForgetSocket
  <2>2. Arrived' = 0 BY <2>1, NothingArrived
  <2> QED BY <1>a, <2>1, <2>2 DEF Stream!Close
<1>b. ASSUME disconnect PROVE Stream!Close BY <1>a, <1>b DEF disconnect
<1>c. ASSUME NEW d \in BOOLEAN, Accept(d), fd # 0 PROVE Stream!Send(d)
  <2>1. accepted' = Append(accepted, d) /\ fd' = fd /\ read' = read BY <1>c DEF Accept, append
  <2>2. Arrived' = Arrived BY <1>i, <2>1, AppendArrives
  <2> QED BY <1>c, <2>1, <2>2 DEF Stream!Send
<1>d. ASSUME UNCHANGED <<fd, accepted, read>> PROVE UNCHANGED Stream!vars
  <2>1. Arrived' = Arrived BY <1>d, ArrivedFrame
  <2> QED BY <1>d, <2>1 DEF Stream!vars
<1>e. UNCHANGED outVars => UNCHANGED <<accepted, read>> BY DEF outVars, queueVars
<1>f. UNCHANGED connVars => fd' = fd BY DEF connVars
<1>1. ASSUME NEW d \in BOOLEAN, Command(d) PROVE Stream!Next
  <2>1. fd # 0 /\ (Accept(d) \/ disconnect) BY <1>1 DEF Command
  <2> QED BY <1>b, <1>c, <2>1 DEF Stream!Next
<1>2. ASSUME Greet PROVE Stream!Next
  <2>1. fd # 0 /\ (Accept(TRUE) \/ disconnect) BY <1>2, <1>i DEF Greet, ConnInv
  <2>2. TRUE \in BOOLEAN OBVIOUS
  <2> QED BY <1>b, <1>c, <2>1, <2>2 DEF Stream!Next
<1>3. ASSUME FlushFails \/ RejectHeader \/ PeerLost \/ (\E kind \in PayloadKinds : RejectPayload(kind))
      PROVE  Stream!Next
  <2>1. disconnect BY <1>3 DEF FlushFails, RejectHeader, PeerLost, RejectPayload
  <2> QED BY <1>b, <2>1 DEF Stream!Next
<1>4. ASSUME Destroy PROVE Stream!Next BY <1>a, <1>4 DEF Destroy, Stream!Next
<1>5. ASSUME connect PROVE Stream!Next
  <2>1. CASE fd' = 0 BY <1>a, <1>5, <2>1 DEF connect, Stream!Next
  <2>2. CASE fd' # 0
    <3>1. accepted' = <<>> BY <1>5 DEF connect, ForgetSocket
    <3>2. Arrived' = 0 BY <3>1, NothingArrived
    <3> QED BY <2>2, <3>1, <3>2 DEF Stream!Open, Stream!Next
  <2> QED BY <2>1, <2>2
<1>6. ASSUME PeerReads PROVE Stream!Next \/ UNCHANGED Stream!vars
  <2>1. peerOpen /\ fd' = fd /\ accepted' = accepted BY <1>6 DEF PeerReads, connVars, queueVars
  <2>2. fd # 0 BY <1>i, <2>1 DEF ConnInv
  <2>3. Arrived' = Arrived \/ (Arrived < Len(accepted) /\ Arrived' = Arrived + 1) BY <1>i, <1>6, ReadArrives
  <2> QED BY <2>1, <2>2, <2>3 DEF Stream!Arrive, Stream!Next, Stream!vars
<1>7. ASSUME (\E k \in 1..HeaderSize : SendPart(k)) \/ SendDescriptor \/ Retire
      PROVE  UNCHANGED Stream!vars
  <2>1. UNCHANGED <<fd, accepted, read>> BY <1>7, <1>f DEF SendPart, SendDescriptor, Retire
  <2> QED BY <1>d, <2>1
<1>8. ASSUME Flushed \/ Writable \/ (\E k \in 1..HeaderSize : ReceiveHeader(k))
             \/ (\E kind \in PayloadKinds, k \in 1..PayloadSize : ReceivePayload(kind, k))
             \/ ReceiveDescriptor \/ CallbackReturns \/ (\E k \in 0..Len(incoming) : PeerCloses(k))
      PROVE  UNCHANGED Stream!vars
  <2>1. UNCHANGED <<fd, outVars>>
    BY <1>8 DEF Flushed, Writable, ReceiveHeader, ReceivePayload, ReceiveDescriptor, CallbackReturns, PeerCloses
  <2> QED BY <1>d, <1>e, <2>1
<1>9. ASSUME (\E kind \in PeerKinds : PeerSends(kind)) \/ UNCHANGED vars PROVE UNCHANGED Stream!vars
  <2>1. UNCHANGED <<fd, outVars>> BY <1>9, <1>f DEF PeerSends, vars
  <2> QED BY <1>d, <1>e, <2>1
<1> QED BY <1>1, <1>2, <1>3, <1>4, <1>5, <1>6, <1>7, <1>8, <1>9 DEF Next, Flush

\* docs/embedding.md:179-183, command_queue.h, session.cpp: through partial
\* writes, a full socket, lost connections and reconnections, the session is an
\* ordered stream of whole commands.
THEOREM StreamImplemented == Spec => StreamSpec
<1>1. Init => Stream!Init
  <2> SUFFICES ASSUME Init PROVE Stream!Init OBVIOUS
  <2>1. accepted = <<>> /\ fd = 0 BY DEF Init
  <2>2. Ended(accepted, read) = {} BY <2>1 DEF Ended
  <2>3. Arrived = 0 BY <2>2, ArrivedIsEnded, FS_EmptySet
  <2> QED BY <2>1, <2>3 DEF Stream!Init
<1>2. SessionInv /\ [Next]_vars => [Stream!Next]_(Stream!vars) BY StreamStepOf
<1> QED BY <1>1, <1>2, SessionAlways, PTL DEF Spec, StreamSpec, Stream!Spec

=============================================================================
