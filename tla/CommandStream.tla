--------------------------- MODULE CommandStream ---------------------------
(***************************************************************************)
(* What the host's session promises about its commands (docs/embedding.md, *)
(* Native Transport and Lifetime): as long as a connection lasts, commands *)
(* arrive whole, once and in the order of the calls, with the descriptor   *)
(* each of them carries; when the connection ends, what has not arrived is *)
(* gone with it.                                                           *)
(***************************************************************************)
EXTENDS Naturals, Sequences

VARIABLES
    open,     \* whether there is a connection
    sent,     \* for each accepted command, whether a descriptor goes with it
    arrived   \* how many of them the peer has whole

vars == <<open, sent, arrived>>

Init == open = FALSE /\ sent = <<>> /\ arrived = 0

\* A new connection, which replaces any other.
Open == open' = TRUE /\ sent' = <<>> /\ arrived' = 0

Close == open' = FALSE /\ sent' = <<>> /\ arrived' = 0

Send(d) ==
    /\ open
    /\ sent' = Append(sent, d)
    /\ UNCHANGED <<open, arrived>>

Arrive ==
    /\ open
    /\ arrived < Len(sent)
    /\ arrived' = arrived + 1
    /\ UNCHANGED <<open, sent>>

Next == Open \/ Close \/ (\E d \in BOOLEAN : Send(d)) \/ Arrive

Spec == Init /\ [][Next]_vars
=============================================================================
