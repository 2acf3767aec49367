------------------------- MODULE ExactlyOnceReplies -------------------------
(***************************************************************************)
(* What the host promises a client about replies (spec 4.4, 4.5 and 5),   *)
(* with the handlers, the retry, the reader and the transport abstracted  *)
(* away.  Per connection: the request ids the host has accepted, the log  *)
(* of the ids it has answered, in the order the replies were written, and *)
(* whether the connection is still alive.                                  *)
(*                                                                         *)
(*  - a request is accepted once per id, only while the connection lives; *)
(*    it may be answered in the same step (an unknown method or an         *)
(*    unparsable frame is answered by the reader itself);                  *)
(*  - an accepted request is answered at most once, and only while the    *)
(*    connection lives; replies are only ever appended;                     *)
(*  - a closed connection stays closed;                                    *)
(*  - every accepted request on a live connection is eventually answered.  *)
(***************************************************************************)
EXTENDS Sequences

CONSTANTS
    Conns,   \* client connections
    Ids      \* request ids

VARIABLES
    accepted,   \* accepted[c]: ids of the requests the host took from c
    answered,   \* answered[c]: the ids of the replies written to c, in order
    live        \* live[c]: c has not been closed

avars == <<accepted, answered, live>>

Answered(c) == {answered[c][k] : k \in DOMAIN answered[c]}

Init ==
    /\ accepted = [c \in Conns |-> {}]
    /\ answered = [c \in Conns |-> <<>>]
    /\ live = [c \in Conns |-> TRUE]

(* The host takes request i from c, and may answer it at once.            *)
Accept(c, i) ==
    /\ live[c]
    /\ i \notin accepted[c]
    /\ accepted' = [accepted EXCEPT ![c] = @ \cup {i}]
    /\ \/ UNCHANGED answered
       \/ answered' = [answered EXCEPT ![c] = Append(@, i)]
    /\ UNCHANGED live

(* The host answers an accepted request that has no reply yet.            *)
Answer(c, i) ==
    /\ live[c]
    /\ i \in accepted[c]
    /\ i \notin Answered(c)
    /\ answered' = [answered EXCEPT ![c] = Append(@, i)]
    /\ UNCHANGED <<accepted, live>>

Close(c) ==
    /\ live[c]
    /\ live' = [live EXCEPT ![c] = FALSE]
    /\ UNCHANGED <<accepted, answered>>

Next ==
    \E c \in Conns :
        \/ Close(c)
        \/ \E i \in Ids : Accept(c, i) \/ Answer(c, i)

SafeSpec == Init /\ [][Next]_avars

Spec == SafeSpec /\ \A c \in Conns, i \in Ids : WF_avars(Answer(c, i))
=============================================================================
