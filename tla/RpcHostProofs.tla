--------------------------- MODULE RpcHostProofs ---------------------------
(***************************************************************************)
(* Proofs about RpcHost: the type invariant, and that no request id on a   *)
(* connection is ever answered twice (UniqueReplies), for every value of   *)
(* the constants.                                                          *)
(***************************************************************************)
EXTENDS RpcHost, TLAPS

(* The generation of an owner's connection counts its reconnects, each of *)
(* which followed a break: it stays within MaxBreaks.                      *)
GenInv ==
    \A o \in Owners : db[o].gen + (IF db[o].broken THEN 1 ELSE 0) = breaks[o]

(* A handler in its except clause holds the exception it caught.          *)
ExcInv ==
    \A c \in Conns, i \in Ids : hs[c][i].pc = "except" => hs[c][i].exc \in Excs

(* Frames the client sent carry an id when they are requests.             *)
InboxTypeInv ==
    \A c \in Conns : \A k \in DOMAIN inbox[c] :
        inbox[c][k].kind = "request" => inbox[c][k].id \in Ids

TypeInv == TypeOK /\ GenInv /\ ExcInv /\ InboxTypeInv

(* The bookkeeping behind UniqueReplies.  A handler that still runs has   *)
(* not been answered; an id not yet read has no handler, and neither has  *)
(* it been answered; the ids waiting in the inbox are fresh and distinct.  *)
RunningUnanswered ==
    \A c \in Conns, i \in Ids : hs[c][i].pc \in Running => i \notin ReplyIds(c)

UndispatchedIdle ==
    \A c \in Conns, i \in Ids : i \notin dispatched[c] => hs[c][i].pc = "idle"

InboxFresh ==
    \A c \in Conns : \A k \in DOMAIN inbox[c] :
        inbox[c][k].id # NoId =>
            /\ inbox[c][k].id \in usedIds[c]
            /\ inbox[c][k].id \notin dispatched[c]

InboxDistinct ==
    \A c \in Conns : \A j, k \in DOMAIN inbox[c] :
        j # k /\ inbox[c][j].id # NoId => inbox[c][j].id # inbox[c][k].id

DispatchedUsed ==
    \A c \in Conns : dispatched[c] \subseteq usedIds[c]

(* Every reply on a connection carries an id the reader took from it: a  *)
(* retry or a fault conversion never answers an id that was not read.      *)
RepliesCorrelate ==
    \A c \in Conns : ReplyIds(c) \subseteq dispatched[c]

ReplyInv ==
    /\ UniqueReplies
    /\ RepliesCorrelate
    /\ RunningUnanswered
    /\ UndispatchedIdle
    /\ InboxFresh
    /\ InboxDistinct
    /\ DispatchedUsed

IInv == TypeInv /\ ReplyInv
-----------------------------------------------------------------------------
USE ConstAssumption

LEMMA InitTypeInv == Init => TypeInv
  BY DEF Init, TypeInv, TypeOK, GenInv, ExcInv, InboxTypeInv, IdleHandler,
         Handler, PCs, Params, DefaultParams, Shapes, Unbound

LEMMA InitIInv == Init => IInv
  <1> SUFFICES ASSUME Init PROVE IInv
    OBVIOUS
  <1>1. TypeInv
    BY InitTypeInv
  <1>2. UniqueReplies /\ RepliesCorrelate
    BY DEF Init, UniqueReplies, RepliesCorrelate, ReplyIds
  <1>3. RunningUnanswered /\ UndispatchedIdle
    BY DEF Init, RunningUnanswered, UndispatchedIdle, IdleHandler, Running, PCs
  <1>4. InboxFresh /\ InboxDistinct /\ DispatchedUsed
    BY DEF Init, InboxFresh, InboxDistinct, DispatchedUsed
  <1>5. QED
    BY <1>1, <1>2, <1>3, <1>4 DEF IInv, ReplyInv

(* Appending a reply to a log adds exactly its id, and keeps the ids of  *)
(* the log distinct when that id was not in it yet.                       *)
LEMMA AppendReply ==
  ASSUME NEW s \in Seq(Reply), NEW r \in Reply
  PROVE  /\ {Append(s, r)[k].id : k \in DOMAIN Append(s, r)}
               = {s[k].id : k \in DOMAIN s} \cup {r.id}
         /\ (/\ \A j, k \in DOMAIN s : j # k => s[j].id # s[k].id
             /\ r.id \notin {s[k].id : k \in DOMAIN s})
            => \A j, k \in DOMAIN Append(s, r) :
                   j # k => Append(s, r)[j].id # Append(s, r)[k].id
  <1> DEFINE t == Append(s, r)
  <1>1. DOMAIN t = 1..Len(s) + 1 /\ t[Len(s) + 1] = r
        /\ \A k \in 1..Len(s) : t[k] = s[k]
    OBVIOUS
  <1>2. DOMAIN s = 1..Len(s)
    OBVIOUS
  <1>3. {t[k].id : k \in DOMAIN t} = {s[k].id : k \in DOMAIN s} \cup {r.id}
    BY <1>1, <1>2
  <1>4. ASSUME \A j, k \in DOMAIN s : j # k => s[j].id # s[k].id,
               r.id \notin {s[k].id : k \in DOMAIN s},
               NEW j \in DOMAIN t, NEW k \in DOMAIN t, j # k
        PROVE  t[j].id # t[k].id
    BY <1>1, <1>2, <1>4
  <1>5. QED
    BY <1>3, <1>4

(* The write of a reply r on connection c, whose id c has not answered    *)
(* yet, keeps every connection's replies distinct and adds at most r's id. *)
LEMMA WriteReply ==
  ASSUME TypeOK, UniqueReplies, NEW c \in Conns, NEW r \in Reply,
         r.id \notin ReplyIds(c),
         out' = [out EXCEPT ![c] = IF open[c] THEN Append(@, r) ELSE @]
  PROVE  /\ UniqueReplies'
         /\ \A d \in Conns \ {c} : ReplyIds(d)' = ReplyIds(d)
         /\ ReplyIds(c)' \subseteq ReplyIds(c) \cup {r.id}
  <1>1. CASE open[c]
    <2>1. out'[c] = Append(out[c], r) /\ out[c] \in Seq(Reply)
      BY <1>1 DEF TypeOK
    <2>2. ReplyIds(c)' = ReplyIds(c) \cup {r.id}
      <3>1. {out'[c][k].id : k \in DOMAIN out'[c]} = {out[c][k].id : k \in DOMAIN out[c]} \cup {r.id}
        BY <2>1, AppendReply
      <3>2. QED
        BY <3>1 DEF ReplyIds
    <2>3. \A j, k \in DOMAIN out'[c] : j # k => out'[c][j].id # out'[c][k].id
      <3>1. \A j, k \in DOMAIN out[c] : j # k => out[c][j].id # out[c][k].id
        BY DEF UniqueReplies
      <3>2. r.id \notin {out[c][k].id : k \in DOMAIN out[c]}
        BY DEF ReplyIds
      <3>3. QED
        BY <2>1, <3>1, <3>2, AppendReply
    <2>4. QED
      BY <2>2, <2>3 DEF UniqueReplies, ReplyIds, TypeOK
  <1>2. CASE ~open[c]
    BY <1>2 DEF UniqueReplies, ReplyIds, TypeOK
  <1>3. QED
    BY <1>1, <1>2

(* The shape of every handler step: it replaces the handler's record     *)
(* and either writes no reply and keeps the handler running, or writes    *)
(* one reply for its own id and finishes the handler.                      *)
HandlerFrame ==
    UNCHANGED <<phase, markdown, registry, inbox, sent, usedIds, dispatched, open, breaks>>

ReplyStep(c, i) ==
    \E r \in Reply :
        /\ r.id = i
        /\ out' = [out EXCEPT ![c] = IF open[c] THEN Append(@, r) ELSE @]
        /\ pending' = [pending EXCEPT ![c] = @ \ {i}]

HandlerEffect(c, i, nh) ==
    /\ hs' = [hs EXCEPT ![c][i] = nh]
    /\ nh.pc = "except" => nh.exc \in Excs
    /\ \/ out' = out /\ pending' = pending /\ nh.pc \in Running
       \/ nh.pc = "done" /\ ReplyStep(c, i)

DbStep ==
    db' \in [Owners -> [gen : 0..MaxBreaks, broken : BOOLEAN]] /\ GenInv'

LEMMA HandlerShape ==
  ASSUME TypeInv, NEW c \in Conns, NEW i \in Ids, HandlerStep(c, i)
  PROVE  /\ hs[c][i].pc \in Running
         /\ HandlerFrame
         /\ DbStep
         /\ \E nh \in Handler : HandlerEffect(c, i, nh)
  <1> DEFINE h == hs[c][i]
  <1>0. HandlerFrame /\ h \in Handler
    BY DEF HandlerStep, HandlerFrame, TypeInv, TypeOK, startVars, clientVars
  <1>1. h.pc \in Running
    BY DEF HandlerStep, Validate, GetConnection, CreateMetadata, Script, Except, Running, PCs
  <1> SUFFICES DbStep /\ \E nh \in Handler : HandlerEffect(c, i, nh)
    BY <1>0, <1>1
  <1>2. CASE Validate(c, i)
    <2>1. CASE h.params.shape = "none"
      <3> DEFINE nh == [h EXCEPT !.pc = "done", !.exc = "params_none"]
                 r == [id |-> i, kind |-> "error", msg |-> "params_none"]
      <3>1. nh \in Handler /\ nh.pc = "done" /\ r \in Reply /\ r.id = i
        BY <1>0 DEF Handler, PCs, Reply, Msgs, Excs, Unbound
      <3>2. /\ out' = [out EXCEPT ![c] = IF open[c] THEN Append(@, r) ELSE @]
                /\ pending' = [pending EXCEPT ![c] = @ \ {i}]
                /\ hs' = [hs EXCEPT ![c][i] = nh] /\ db' = db
        BY <1>2, <2>1 DEF Validate, RequestError, SendReply, Write, SetHandler
      <3>3. HandlerEffect(c, i, nh)
        BY <3>1, <3>2 DEF HandlerEffect, ReplyStep, Running, PCs, Excs
      <3>4. DbStep
        BY <1>0, <3>2 DEF DbStep, HandlerFrame, TypeInv, TypeOK, GenInv
      <3>5. QED
        BY <3>1, <3>3, <3>4
    <2>2. CASE h.params.shape # "none"
      <3> DEFINE nh == [h EXCEPT !.pc = "get_conn"]
      <3>1. nh \in Handler /\ nh.pc = "get_conn"
        BY <1>0 DEF Handler, PCs, Reply, Msgs, Excs, Unbound
      <3>2. out' = out /\ pending' = pending /\ hs' = [hs EXCEPT ![c][i] = nh] /\ db' = db
        BY <1>2, <2>2 DEF Validate, SetHandler
      <3>3. HandlerEffect(c, i, nh)
        BY <3>1, <3>2 DEF HandlerEffect, ReplyStep, Running, PCs, Excs
      <3>4. DbStep
        BY <1>0, <3>2 DEF DbStep, HandlerFrame, TypeInv, TypeOK, GenInv
      <3>5. QED
        BY <3>1, <3>3, <3>4
    <2>3. QED
      BY <2>1, <2>2
  <1>3. CASE GetConnection(c, i)
    <2> DEFINE o == h.params.owner
    <2>1. o \in Owners /\ h.pc = "get_conn"
      BY <1>0, <1>3 DEF GetConnection, Handler, Params
    <2>2. CASE ~db[o].broken /\ hs' = [hs EXCEPT ![c][i] = [h EXCEPT !.pc = "metadata", !.conn = db[o].gen]]
               /\ db' = db
      <3> DEFINE nh == [h EXCEPT !.pc = "metadata", !.conn = db[o].gen]
      <3>1. nh \in Handler /\ nh.pc = "metadata"
        BY <1>0, <2>1 DEF TypeInv, TypeOK, Handler, PCs, Reply, Msgs, Excs, Unbound
      <3>2. out' = out /\ pending' = pending /\ hs' = [hs EXCEPT ![c][i] = nh] /\ db' = db
        BY <1>3, <2>2 DEF GetConnection
      <3>3. HandlerEffect(c, i, nh)
        BY <3>1, <3>2 DEF HandlerEffect, ReplyStep, Running, PCs, Excs
      <3>4. DbStep
        BY <1>0, <3>2 DEF DbStep, HandlerFrame, TypeInv, TypeOK, GenInv
      <3>5. QED
        BY <3>1, <3>3, <3>4
    <2>3. CASE db[o].broken /\ db' = [db EXCEPT ![o] = [gen |-> @.gen + 1, broken |-> FALSE]]
               /\ hs' = [hs EXCEPT ![c][i] = [h EXCEPT !.pc = "metadata", !.conn = db'[o].gen]]
      <3>1. db[o].gen + 1 = breaks[o] /\ breaks[o] \in 0..MaxBreaks /\ db[o].gen \in Nat
        BY <2>1, <2>3 DEF TypeInv, TypeOK, GenInv
      <3>2. db' \in [Owners -> [gen : 0..MaxBreaks, broken : BOOLEAN]] /\ db'[o].gen = db[o].gen + 1
        BY <2>1, <2>3, <3>1 DEF TypeInv, TypeOK
      <3>3. DbStep
        <4>1. breaks' = breaks
          BY <1>0 DEF HandlerFrame
        <4>2. ASSUME NEW p \in Owners
              PROVE  db'[p].gen + (IF db'[p].broken THEN 1 ELSE 0) = breaks'[p]
          <5>1. CASE p = o
            BY <2>1, <2>3, <3>1, <4>1, <5>1
          <5>2. CASE p # o
            BY <2>3, <4>1, <5>2 DEF TypeInv, TypeOK, GenInv
          <5>3. QED
            BY <5>1, <5>2
        <4>3. QED
          BY <3>2, <4>2 DEF DbStep, GenInv
      <3> DEFINE nh == [h EXCEPT !.pc = "metadata", !.conn = db'[o].gen]
      <3>4. nh \in Handler /\ nh.pc = "metadata" /\ hs' = [hs EXCEPT ![c][i] = nh]
        BY <1>0, <2>3, <3>1, <3>2 DEF Handler, PCs
      <3>5. HandlerEffect(c, i, nh)
        BY <1>3, <3>4 DEF GetConnection, HandlerEffect, Running, PCs
      <3>6. QED
        BY <3>3, <3>4, <3>5
    <2>4. CASE db[o].broken /\ hs' = [hs EXCEPT ![c][i] = [h EXCEPT !.pc = "metadata", !.conn = db[o].gen]]
               /\ db' = db
      <3> DEFINE nh == [h EXCEPT !.pc = "metadata", !.conn = db[o].gen]
      <3>1. nh \in Handler /\ nh.pc = "metadata"
        BY <1>0, <2>1 DEF TypeInv, TypeOK, Handler, PCs, Reply, Msgs, Excs, Unbound
      <3>2. out' = out /\ pending' = pending /\ hs' = [hs EXCEPT ![c][i] = nh] /\ db' = db
        BY <1>3, <2>4 DEF GetConnection
      <3>3. HandlerEffect(c, i, nh)
        BY <3>1, <3>2 DEF HandlerEffect, ReplyStep, Running, PCs, Excs
      <3>4. DbStep
        BY <1>0, <3>2 DEF DbStep, HandlerFrame, TypeInv, TypeOK, GenInv
      <3>5. QED
        BY <3>1, <3>3, <3>4
    <2>5. CASE hs' = [hs EXCEPT ![c][i] = [h EXCEPT !.pc = "except", !.exc = "conn_error"]]
               /\ db' = db
      <3> DEFINE nh == [h EXCEPT !.pc = "except", !.exc = "conn_error"]
      <3>1. nh \in Handler /\ nh.pc = "except"
        BY <1>0 DEF Handler, PCs, Reply, Msgs, Excs, Unbound
      <3>2. out' = out /\ pending' = pending /\ hs' = [hs EXCEPT ![c][i] = nh] /\ db' = db
        BY <1>3, <2>5 DEF GetConnection
      <3>3. HandlerEffect(c, i, nh)
        BY <3>1, <3>2 DEF HandlerEffect, ReplyStep, Running, PCs, Excs
      <3>4. DbStep
        BY <1>0, <3>2 DEF DbStep, HandlerFrame, TypeInv, TypeOK, GenInv
      <3>5. QED
        BY <3>1, <3>3, <3>4
    <2>6. QED
      BY <1>3, <2>2, <2>3, <2>4, <2>5 DEF GetConnection, SetHandler
  <1>4. CASE CreateMetadata(c, i)
    <2>1. CASE h.params.shape = "no_objects"
      <3> DEFINE nh == [h EXCEPT !.pc = "except", !.exc = "index_error"]
      <3>1. nh \in Handler /\ nh.pc = "except"
        BY <1>0 DEF Handler, PCs, Reply, Msgs, Excs, Unbound
      <3>2. out' = out /\ pending' = pending /\ hs' = [hs EXCEPT ![c][i] = nh] /\ db' = db
        BY <1>4, <2>1 DEF CreateMetadata, SetHandler
      <3>3. HandlerEffect(c, i, nh)
        BY <3>1, <3>2 DEF HandlerEffect, ReplyStep, Running, PCs, Excs
      <3>4. DbStep
        BY <1>0, <3>2 DEF DbStep, HandlerFrame, TypeInv, TypeOK, GenInv
      <3>5. QED
        BY <3>1, <3>3, <3>4
    <2>2. CASE h.params.shape # "no_objects"
      <3> DEFINE nh == [h EXCEPT !.pc = "script"]
      <3>1. nh \in Handler /\ nh.pc = "script"
        BY <1>0 DEF Handler, PCs, Reply, Msgs, Excs, Unbound
      <3>2. out' = out /\ pending' = pending /\ hs' = [hs EXCEPT ![c][i] = nh] /\ db' = db
        BY <1>4, <2>2 DEF CreateMetadata, SetHandler
      <3>3. HandlerEffect(c, i, nh)
        BY <3>1, <3>2 DEF HandlerEffect, ReplyStep, Running, PCs, Excs
      <3>4. DbStep
        BY <1>0, <3>2 DEF DbStep, HandlerFrame, TypeInv, TypeOK, GenInv
      <3>5. QED
        BY <3>1, <3>3, <3>4
    <2>3. QED
      BY <2>1, <2>2
  <1>5. CASE Script(c, i)
    <2>1. CASE /\ SendReply(c, i, "result", "script")
               /\ hs' = [hs EXCEPT ![c][i] = [h EXCEPT !.pc = "done"]]
               /\ db' = db
      <3> DEFINE nh == [h EXCEPT !.pc = "done"]
                 r == [id |-> i, kind |-> "result", msg |-> "script"]
      <3>1. nh \in Handler /\ nh.pc = "done" /\ r \in Reply /\ r.id = i
        BY <1>0 DEF Handler, PCs, Reply, Msgs, Excs, Unbound
      <3>2. /\ out' = [out EXCEPT ![c] = IF open[c] THEN Append(@, r) ELSE @]
                /\ pending' = [pending EXCEPT ![c] = @ \ {i}]
                /\ hs' = [hs EXCEPT ![c][i] = nh] /\ db' = db
        BY <2>1 DEF SendReply, Write
      <3>3. HandlerEffect(c, i, nh)
        BY <3>1, <3>2 DEF HandlerEffect, ReplyStep, Running, PCs, Excs
      <3>4. DbStep
        BY <1>0, <3>2 DEF DbStep, HandlerFrame, TypeInv, TypeOK, GenInv
      <3>5. QED
        BY <3>1, <3>3, <3>4
    <2>2. CASE /\ hs' = [hs EXCEPT ![c][i] = [h EXCEPT !.pc = "except", !.exc =
                    IF Broken(h.params.owner, h.conn) THEN "db_error" ELSE "script_error"]]
               /\ out' = out /\ pending' = pending /\ db' = db
      <3> DEFINE nh == [h EXCEPT !.pc = "except", !.exc =
                      IF Broken(h.params.owner, h.conn) THEN "db_error" ELSE "script_error"]
      <3>1. nh \in Handler /\ nh.pc = "except"
        BY <1>0 DEF Handler, PCs, Reply, Msgs, Excs, Unbound
      <3>2. out' = out /\ pending' = pending /\ hs' = [hs EXCEPT ![c][i] = nh] /\ db' = db
        BY <2>2
      <3>3. HandlerEffect(c, i, nh)
        BY <3>1, <3>2 DEF HandlerEffect, ReplyStep, Running, PCs, Excs
      <3>4. DbStep
        BY <1>0, <3>2 DEF DbStep, HandlerFrame, TypeInv, TypeOK, GenInv
      <3>5. QED
        BY <3>1, <3>3, <3>4
    <2>3. QED
      BY <1>5, <2>1, <2>2 DEF Script, SetHandler
  <1>6. CASE Except(c, i)
    <2>1. h.pc = "except" /\ h.exc \in Excs /\ db' = db
      BY <1>0, <1>6 DEF Except, TypeInv, ExcInv
    <2>2. CASE h.conn = Unbound
      <3> DEFINE nh == [h EXCEPT !.pc = "done"]
                 r == [id |-> i, kind |-> "error", msg |-> "unbound_local"]
      <3>1. nh \in Handler /\ nh.pc = "done" /\ r \in Reply /\ r.id = i
        BY <1>0 DEF Handler, PCs, Reply, Msgs, Excs, Unbound
      <3>2. /\ out' = [out EXCEPT ![c] = IF open[c] THEN Append(@, r) ELSE @]
                /\ pending' = [pending EXCEPT ![c] = @ \ {i}]
                /\ hs' = [hs EXCEPT ![c][i] = nh] /\ db' = db
        BY <1>6, <2>2 DEF Except, HandlerFault, SendReply, Write, SetHandler
      <3>3. HandlerEffect(c, i, nh)
        BY <3>1, <3>2 DEF HandlerEffect, ReplyStep, Running, PCs, Excs
      <3>4. DbStep
        BY <1>0, <3>2 DEF DbStep, HandlerFrame, TypeInv, TypeOK, GenInv
      <3>5. QED
        BY <3>1, <3>3, <3>4
    <2>3. CASE h.conn # Unbound /\ Broken(h.params.owner, h.conn) /\ ~h.retry
      <3> DEFINE nh == [h EXCEPT !.pc = "validate", !.retry = TRUE, !.conn = Unbound, !.exc = "none"]
      <3>1. nh \in Handler /\ nh.pc = "validate"
        BY <1>0 DEF Handler, PCs, Reply, Msgs, Excs, Unbound
      <3>2. out' = out /\ pending' = pending /\ hs' = [hs EXCEPT ![c][i] = nh] /\ db' = db
        BY <1>6, <2>1, <2>3 DEF Except, SetHandler
      <3>3. HandlerEffect(c, i, nh)
        BY <3>1, <3>2 DEF HandlerEffect, ReplyStep, Running, PCs, Excs
      <3>4. DbStep
        BY <1>0, <3>2 DEF DbStep, HandlerFrame, TypeInv, TypeOK, GenInv
      <3>5. QED
        BY <3>1, <3>3, <3>4
    <2>4. CASE h.conn # Unbound /\ ~(Broken(h.params.owner, h.conn) /\ ~h.retry)
      <3> DEFINE nh == [h EXCEPT !.pc = "done", !.exc = h.exc]
                 r == [id |-> i, kind |-> "error", msg |-> h.exc]
      <3>1. nh \in Handler /\ nh.pc = "done" /\ r \in Reply /\ r.id = i
        BY <1>0, <2>1 DEF Handler, PCs, Reply, Msgs, Excs, Unbound
      <3>2. /\ out' = [out EXCEPT ![c] = IF open[c] THEN Append(@, r) ELSE @]
                /\ pending' = [pending EXCEPT ![c] = @ \ {i}]
                /\ hs' = [hs EXCEPT ![c][i] = nh] /\ db' = db
        BY <1>6, <2>1, <2>4 DEF Except, RequestError, SendReply, Write, SetHandler
      <3>3. HandlerEffect(c, i, nh)
        BY <3>1, <3>2 DEF HandlerEffect, ReplyStep, Running, PCs, Excs
      <3>4. DbStep
        BY <1>0, <3>2 DEF DbStep, HandlerFrame, TypeInv, TypeOK, GenInv
      <3>5. QED
        BY <3>1, <3>3, <3>4
    <2>5. QED
      BY <2>2, <2>3, <2>4 DEF Unbound
  <1>7. QED
    BY <1>2, <1>3, <1>4, <1>5, <1>6 DEF HandlerStep

(* A handler step keeps TypeInv.                                           *)
LEMMA HandlerTypeStep ==
  ASSUME TypeInv, NEW c \in Conns, NEW i \in Ids, NEW nh \in Handler,
         HandlerEffect(c, i, nh), DbStep, HandlerFrame
  PROVE  TypeInv'
  <1>1. hs' \in [Conns -> [Ids -> Handler]]
    BY DEF HandlerEffect, TypeInv, TypeOK
  <1>2. ExcInv'
    <2> SUFFICES ASSUME NEW d \in Conns, NEW j \in Ids, hs'[d][j].pc = "except"
                 PROVE  hs'[d][j].exc \in Excs
      BY DEF ExcInv
    <2>1. CASE d = c /\ j = i
      BY <2>1 DEF HandlerEffect, TypeInv, TypeOK
    <2>2. CASE ~(d = c /\ j = i)
      BY <2>2 DEF HandlerEffect, TypeInv, TypeOK, ExcInv
    <2>3. QED
      BY <2>1, <2>2
  <1>3. out' \in [Conns -> Seq(Reply)] /\ pending' \in [Conns -> SUBSET Ids]
    <2>1. CASE out' = out /\ pending' = pending
      BY <2>1 DEF TypeInv, TypeOK
    <2>2. CASE ReplyStep(c, i)
      <3>1. PICK r \in Reply :
                 /\ out' = [out EXCEPT ![c] = IF open[c] THEN Append(@, r) ELSE @]
                 /\ pending' = [pending EXCEPT ![c] = @ \ {i}]
        BY <2>2 DEF ReplyStep
      <3>2. QED
        BY <3>1 DEF TypeInv, TypeOK
    <2>3. QED
      BY <2>1, <2>2 DEF HandlerEffect
  <1>4. TypeOK'
    BY <1>1, <1>3 DEF DbStep, HandlerFrame, TypeInv, TypeOK
  <1>5. QED
    BY <1>2, <1>4 DEF DbStep, HandlerFrame, TypeInv, InboxTypeInv

LEMMA TypeInvStep == TypeInv /\ [Next]_vars => TypeInv'
  <1> SUFFICES ASSUME TypeInv, [Next]_vars PROVE TypeInv'
    OBVIOUS
  <1> USE DEF TypeInv, TypeOK, GenInv, ExcInv, InboxTypeInv, startVars, clientVars
  <1>1. CASE Initialize
    BY <1>1 DEF Initialize, Methods
  <1>2. CASE StartServer
    BY <1>2 DEF StartServer
  <1>3. ASSUME NEW c \in Conns, ClientSend(c) PROVE TypeInv'
    <2>1. PICK f \in Frame :
            /\ f.kind = "request" => f.id # NoId
            /\ inbox' = [inbox EXCEPT ![c] = Append(@, f)]
            /\ usedIds' = [usedIds EXCEPT ![c] = IF f.id = NoId THEN @ ELSE @ \cup {f.id}]
      BY <1>3 DEF ClientSend
    <2>2. inbox' \in [Conns -> Seq(Frame)]
      BY <2>1
    <2>3. usedIds' \in [Conns -> SUBSET Ids]
      BY <2>1 DEF Frame
    <2>4. sent' \in [Conns -> 0..MaxFrames]
      BY <1>3 DEF ClientSend
    <2>5. InboxTypeInv'
      <3>1. f.kind = "request" => f.id \in Ids
        BY <2>1 DEF Frame
      <3>2. SUFFICES ASSUME NEW d \in Conns, NEW k \in DOMAIN inbox'[d],
                            inbox'[d][k].kind = "request"
                     PROVE  inbox'[d][k].id \in Ids
        BY DEF InboxTypeInv
      <3>3. CASE d = c /\ k = Len(inbox[c]) + 1
        BY <2>1, <3>1, <3>2, <3>3
      <3>4. CASE ~(d = c /\ k = Len(inbox[c]) + 1)
        BY <2>1, <3>2, <3>4
      <3>5. QED
        BY <3>3, <3>4
    <2>6. TypeOK'
      BY <1>3, <2>2, <2>3, <2>4 DEF ClientSend
    <2>7. GenInv' /\ ExcInv'
      BY <1>3 DEF ClientSend
    <2>8. QED
      BY <2>5, <2>6, <2>7
  <1>4. ASSUME NEW c \in Conns, Disconnect(c) PROVE TypeInv'
    BY <1>4 DEF Disconnect
  <1>5. ASSUME NEW o \in Owners, BreakDb(o) PROVE TypeInv'
    <2>1. db' \in [Owners -> [gen : 0..MaxBreaks, broken : BOOLEAN]]
      BY <1>5 DEF BreakDb
    <2>2. breaks' \in [Owners -> 0..MaxBreaks]
      BY <1>5 DEF BreakDb
    <2>3. GenInv'
      BY <1>5 DEF BreakDb
    <2>4. QED
      BY <1>5, <2>1, <2>2, <2>3 DEF BreakDb
  <1>6. ASSUME NEW c \in Conns, ReadFrame(c) PROVE TypeInv'
    <2> DEFINE f == Head(inbox[c])
    <2>1. inbox[c] # <<>> /\ f \in Frame /\ (f.kind = "request" => f.id \in Ids)
      BY <1>6 DEF ReadFrame
    <2>2. inbox' \in [Conns -> Seq(Frame)] /\ InboxTypeInv'
      BY <1>6, <2>1 DEF ReadFrame
    <2>3. dispatched' \in [Conns -> SUBSET Ids]
      BY <1>6, <2>1 DEF ReadFrame, Frame
    <2>4. CASE f.kind = "request" /\ f.method \in registry
      <3> DEFINE nh == [IdleHandler EXCEPT !.pc = "validate", !.params = f.params]
      <3>1. nh \in Handler /\ nh.pc = "validate"
        BY <2>1 DEF IdleHandler, Handler, PCs, Frame, Unbound
      <3>2. hs' = [hs EXCEPT ![c][f.id] = nh] /\ out' = out
            /\ pending' = [pending EXCEPT ![c] = @ \cup {f.id}]
        BY <1>6, <2>4 DEF ReadFrame, DispatchRequest
      <3>3. hs' \in [Conns -> [Ids -> Handler]] /\ ExcInv'
        BY <2>1, <2>4, <3>1, <3>2
      <3>4. pending' \in [Conns -> SUBSET Ids]
        BY <2>1, <2>4, <3>2
      <3>5. QED
        BY <1>6, <2>2, <2>3, <3>2, <3>3, <3>4 DEF ReadFrame
    <2>8. CASE f.kind = "request" /\ f.method \notin registry
      <3> DEFINE r == [id |-> f.id, kind |-> "error", msg |-> "method_not_found"]
      <3>1. r \in Reply
        BY <2>1, <2>8 DEF Reply, Msgs
      <3>2. hs' = hs /\ out' = [out EXCEPT ![c] = IF open[c] THEN Append(@, r) ELSE @]
            /\ pending' = [pending EXCEPT ![c] = @ \ {f.id}]
        BY <1>6, <2>8 DEF ReadFrame, DispatchRequest, SendReply, Write
      <3>3. out' \in [Conns -> Seq(Reply)] /\ pending' \in [Conns -> SUBSET Ids]
        BY <3>1, <3>2
      <3>4. QED
        BY <1>6, <2>2, <2>3, <3>2, <3>3 DEF ReadFrame
    <2>5. CASE f.kind = "notification"
      BY <1>6, <2>1, <2>2, <2>3, <2>5 DEF ReadFrame, DispatchNotification
    <2>6. CASE f.kind = "malformed" /\ f.id # NoId
      <3> DEFINE r == [id |-> f.id, kind |-> "error", msg |-> "parse_error"]
      <3>1. r \in Reply
        BY <2>1 DEF Reply, Msgs, Frame
      <3>2. hs' = hs /\ out' = [out EXCEPT ![c] = IF open[c] THEN Append(@, r) ELSE @]
            /\ pending' = [pending EXCEPT ![c] = @ \ {f.id}]
        BY <1>6, <2>6 DEF ReadFrame, DispatchMalformed, SendReply, Write
      <3>3. out' \in [Conns -> Seq(Reply)] /\ pending' \in [Conns -> SUBSET Ids]
        BY <3>1, <3>2
      <3>4. QED
        BY <1>6, <2>2, <2>3, <3>2, <3>3 DEF ReadFrame
    <2>9. CASE f.kind = "malformed" /\ f.id = NoId
      BY <1>6, <2>1, <2>2, <2>3, <2>9 DEF ReadFrame, DispatchMalformed
    <2>7. QED
      BY <2>1, <2>4, <2>5, <2>6, <2>8, <2>9 DEF Frame
  <1>7. ASSUME NEW c \in Conns, NEW i \in Ids, HandlerStep(c, i) PROVE TypeInv'
    <2>1. PICK nh \in Handler : HandlerEffect(c, i, nh)
      BY <1>7, HandlerShape
    <2>2. QED
      BY <1>7, <2>1, HandlerShape, HandlerTypeStep
  <1>8. CASE Terminating
    BY <1>8 DEF Terminating, vars
  <1>9. CASE UNCHANGED vars
    BY <1>9 DEF vars
  <1>10. QED
    BY <1>1, <1>2, <1>3, <1>4, <1>5, <1>6, <1>7, <1>8, <1>9 DEF Next

(* Steps that touch none of the request bookkeeping keep ReplyInv.       *)
LEMMA ReplyInvFrame ==
  ASSUME ReplyInv, UNCHANGED <<inbox, usedIds, dispatched, hs, out>>
  PROVE  ReplyInv'
  BY DEF ReplyInv, UniqueReplies, RepliesCorrelate, ReplyIds, RunningUnanswered,
         UndispatchedIdle, InboxFresh, InboxDistinct, DispatchedUsed

(* A disconnect only empties the inbox.                                    *)
LEMMA DisconnectReply ==
  ASSUME TypeInv, ReplyInv, NEW c \in Conns, Disconnect(c)
  PROVE  ReplyInv'
  <1>1. UNCHANGED <<usedIds, dispatched, hs, out>>
    BY DEF Disconnect
  <1>2. inbox' = [inbox EXCEPT ![c] = <<>>]
    BY DEF Disconnect
  <1>3. \A d \in Conns : DOMAIN inbox'[d] \subseteq DOMAIN inbox[d]
        /\ \A k \in DOMAIN inbox'[d] : inbox'[d][k] = inbox[d][k]
    BY <1>2 DEF TypeInv, TypeOK
  <1>4. QED
    BY <1>1, <1>3 DEF ReplyInv, UniqueReplies, RepliesCorrelate, ReplyIds, RunningUnanswered,
         UndispatchedIdle, InboxFresh, InboxDistinct, DispatchedUsed

(* The client appends a frame with a fresh id to its inbox.               *)
LEMMA ClientSendReply ==
  ASSUME TypeInv, ReplyInv, NEW c \in Conns, ClientSend(c)
  PROVE  ReplyInv'
  <1>1. PICK f \in Frame :
          /\ f.id # NoId => f.id \notin usedIds[c]
          /\ inbox' = [inbox EXCEPT ![c] = Append(@, f)]
          /\ usedIds' = [usedIds EXCEPT ![c] = IF f.id = NoId THEN @ ELSE @ \cup {f.id}]
    BY DEF ClientSend
  <1>2. UNCHANGED <<dispatched, hs, out>>
    BY DEF ClientSend
  <1>3. \A d \in Conns : usedIds[d] \subseteq usedIds'[d]
    BY <1>1 DEF TypeInv, TypeOK
  <1>4. UniqueReplies' /\ RepliesCorrelate' /\ RunningUnanswered' /\ UndispatchedIdle'
    BY <1>2 DEF ReplyInv, UniqueReplies, RepliesCorrelate, ReplyIds, RunningUnanswered,
         UndispatchedIdle
  <1>5. DispatchedUsed'
    BY <1>2, <1>3 DEF ReplyInv, DispatchedUsed
  <1> DEFINE n == Len(inbox[c]) + 1
  <1>6. /\ inbox[c] \in Seq(Frame)
        /\ DOMAIN inbox'[c] = DOMAIN inbox[c] \cup {n}
        /\ n \notin DOMAIN inbox[c]
        /\ inbox'[c][n] = f
        /\ \A k \in DOMAIN inbox[c] : inbox'[c][k] = inbox[c][k]
        /\ \A d \in Conns \ {c} : inbox'[d] = inbox[d]
    BY <1>1 DEF TypeInv, TypeOK
  <1>7. InboxFresh'
    <2> SUFFICES ASSUME NEW d \in Conns, NEW k \in DOMAIN inbox'[d], inbox'[d][k].id # NoId
                 PROVE  inbox'[d][k].id \in usedIds'[d] /\ inbox'[d][k].id \notin dispatched'[d]
      BY DEF InboxFresh
    <2>1. CASE d = c /\ k = n
      BY <1>1, <1>2, <1>6, <2>1 DEF TypeInv, TypeOK, ReplyInv, DispatchedUsed
    <2>2. CASE ~(d = c /\ k = n)
      BY <1>2, <1>3, <1>6, <2>2 DEF ReplyInv, InboxFresh
    <2>3. QED
      BY <2>1, <2>2
  <1>8. InboxDistinct'
    <2> SUFFICES ASSUME NEW d \in Conns, NEW j \in DOMAIN inbox'[d], NEW k \in DOMAIN inbox'[d],
                        j # k, inbox'[d][j].id # NoId
                 PROVE  inbox'[d][j].id # inbox'[d][k].id
      BY DEF InboxDistinct
    <2>1. CASE d # c
      BY <1>6, <2>1 DEF ReplyInv, InboxDistinct
    <2>2. CASE d = c /\ j # n /\ k # n
      BY <1>6, <2>2 DEF ReplyInv, InboxDistinct
    <2>3. CASE d = c /\ j = n
      BY <1>1, <1>6, <2>3 DEF ReplyInv, InboxFresh
    <2>4. CASE d = c /\ k = n
      BY <1>1, <1>6, <2>4 DEF ReplyInv, InboxFresh
    <2>5. QED
      BY <2>1, <2>2, <2>3, <2>4
  <1>9. QED
    BY <1>4, <1>5, <1>7, <1>8 DEF ReplyInv

(* The reader takes the head frame.  Its id is fresh: it was never        *)
(* dispatched, so it has no reply and an idle handler; whatever the        *)
(* dispatch does, it answers or starts only that id.                       *)
LEMMA ReadFrameReply ==
  ASSUME TypeInv, ReplyInv, NEW c \in Conns, ReadFrame(c)
  PROVE  ReplyInv'
  <1> DEFINE f == Head(inbox[c])
  <1>1. /\ inbox[c] \in Seq(Frame) /\ inbox[c] # <<>>
        /\ 1 \in DOMAIN inbox[c] /\ f = inbox[c][1] /\ f \in Frame
        /\ (f.kind = "request" => f.id \in Ids)
    BY DEF ReadFrame, TypeInv, TypeOK, InboxTypeInv
  <1>2. f.id # NoId => f.id \in usedIds[c] /\ f.id \notin dispatched[c]
    BY <1>1 DEF ReplyInv, InboxFresh
  <1>3. f.id # NoId => f.id \notin ReplyIds(c)
    BY <1>2 DEF ReplyInv, RepliesCorrelate
  <1>4. f.id \in Ids => hs[c][f.id].pc = "idle"
    BY <1>2, ConstAssumption DEF ReplyInv, UndispatchedIdle
  <1>5. /\ inbox' = [inbox EXCEPT ![c] = Tail(@)]
        /\ dispatched' = [dispatched EXCEPT ![c] = IF f.id = NoId THEN @ ELSE @ \cup {f.id}]
        /\ UNCHANGED usedIds
    BY DEF ReadFrame
  <1>6. \A d \in Conns : dispatched[d] \subseteq dispatched'[d]
    BY <1>5 DEF TypeInv, TypeOK
  <1>7. /\ DOMAIN inbox'[c] = 1..Len(inbox[c]) - 1
        /\ \A k \in DOMAIN inbox'[c] : inbox'[c][k] = inbox[c][k + 1] /\ k + 1 \in DOMAIN inbox[c]
        /\ \A d \in Conns \ {c} : inbox'[d] = inbox[d]
    BY <1>1, <1>5 DEF TypeInv, TypeOK
  <1>8. InboxFresh'
    <2> SUFFICES ASSUME NEW d \in Conns, NEW k \in DOMAIN inbox'[d], inbox'[d][k].id # NoId
                 PROVE  inbox'[d][k].id \in usedIds'[d] /\ inbox'[d][k].id \notin dispatched'[d]
      BY DEF InboxFresh
    <2>1. CASE d = c
      <3>1. inbox'[c][k].id # f.id
        BY <1>1, <1>7, <2>1 DEF ReplyInv, InboxDistinct
      <3>2. QED
        BY <1>5, <1>7, <2>1, <3>1 DEF ReplyInv, InboxFresh
    <2>2. CASE d # c
      BY <1>5, <1>7, <2>2 DEF ReplyInv, InboxFresh
    <2>3. QED
      BY <2>1, <2>2
  <1>9. InboxDistinct' /\ DispatchedUsed'
    <2>1. InboxDistinct'
      BY <1>7 DEF ReplyInv, InboxDistinct
    <2>2. DispatchedUsed'
      BY <1>2, <1>5 DEF ReplyInv, DispatchedUsed
    <2>3. QED
      BY <2>1, <2>2
  <1>10. f.id # NoId => f.id \in dispatched'[c]
    BY <1>5 DEF TypeInv, TypeOK
  <1> HIDE DEF f
  <1>11. CASE /\ hs' = [hs EXCEPT ![c][f.id] = [IdleHandler EXCEPT !.pc = "validate", !.params = f.params]]
              /\ out' = out /\ f.id \in Ids
    <2>1. UniqueReplies' /\ RepliesCorrelate'
      BY <1>6, <1>11 DEF ReplyInv, UniqueReplies, RepliesCorrelate, ReplyIds
    <2>2. RunningUnanswered'
      BY <1>3, <1>11, ConstAssumption DEF ReplyInv, RunningUnanswered, ReplyIds, TypeInv, TypeOK
    <2>3. UndispatchedIdle'
      BY <1>6, <1>10, <1>11, ConstAssumption DEF ReplyInv, UndispatchedIdle, TypeInv, TypeOK
    <2>4. QED
      BY <1>8, <1>9, <2>1, <2>2, <2>3 DEF ReplyInv
  <1>12. ASSUME NEW r \in Reply, r.id = f.id, f.id \in Ids, hs' = hs,
                out' = [out EXCEPT ![c] = IF open[c] THEN Append(@, r) ELSE @]
         PROVE  ReplyInv'
    <2>1. /\ UniqueReplies'
          /\ \A d \in Conns \ {c} : ReplyIds(d)' = ReplyIds(d)
          /\ ReplyIds(c)' \subseteq ReplyIds(c) \cup {r.id}
      BY <1>3, <1>12, WriteReply, ConstAssumption DEF ReplyInv, TypeInv
    <2>2. RepliesCorrelate'
      BY <1>6, <1>10, <1>12, <2>1, ConstAssumption DEF ReplyInv, RepliesCorrelate
    <2>3. RunningUnanswered'
      BY <1>4, <1>12, <2>1 DEF ReplyInv, RunningUnanswered, Running, PCs
    <2>4. UndispatchedIdle'
      BY <1>6, <1>12 DEF ReplyInv, UndispatchedIdle
    <2>5. QED
      BY <1>8, <1>9, <2>1, <2>2, <2>3, <2>4 DEF ReplyInv
  <1>13. CASE hs' = hs /\ out' = out
    BY <1>6, <1>8, <1>9, <1>13 DEF ReplyInv, UniqueReplies, RepliesCorrelate, ReplyIds,
       RunningUnanswered, UndispatchedIdle
  <1> USE DEF f
  <1>14. CASE f.kind = "request" /\ f.method \in registry
    BY <1>1, <1>11, <1>14 DEF ReadFrame, DispatchRequest
  <1>15. CASE f.kind = "request" /\ f.method \notin registry
    <2> DEFINE r == [id |-> f.id, kind |-> "error", msg |-> "method_not_found"]
    <2>1. r \in Reply /\ r.id = f.id /\ f.id \in Ids
      BY <1>1, <1>15 DEF Reply, Msgs
    <2>2. hs' = hs /\ out' = [out EXCEPT ![c] = IF open[c] THEN Append(@, r) ELSE @]
      BY <1>15 DEF ReadFrame, DispatchRequest, SendReply, Write
    <2>3. QED
      BY <1>12, <2>1, <2>2
  <1>16. CASE f.kind = "notification"
    BY <1>13, <1>16 DEF ReadFrame, DispatchNotification
  <1>17. CASE f.kind = "malformed" /\ f.id # NoId
    <2> DEFINE r == [id |-> f.id, kind |-> "error", msg |-> "parse_error"]
    <2>1. r \in Reply /\ r.id = f.id /\ f.id \in Ids
      BY <1>1, <1>17 DEF Reply, Msgs, Frame
    <2>2. hs' = hs /\ out' = [out EXCEPT ![c] = IF open[c] THEN Append(@, r) ELSE @]
      BY <1>17 DEF ReadFrame, DispatchMalformed, SendReply, Write
    <2>3. QED
      BY <1>12, <2>1, <2>2
  <1>18. CASE f.kind = "malformed" /\ f.id = NoId
    BY <1>13, <1>18 DEF ReadFrame, DispatchMalformed
  <1>19. QED
    BY <1>1, <1>14, <1>15, <1>16, <1>17, <1>18 DEF Frame

(* A handler step: the handler still runs, so its id was dispatched and  *)
(* not yet answered; the step answers at most that id, and only when the  *)
(* handler finishes.                                                       *)
LEMMA HandlerReply ==
  ASSUME TypeInv, ReplyInv, NEW c \in Conns, NEW i \in Ids, HandlerStep(c, i)
  PROVE  ReplyInv'
  <1>1. hs[c][i].pc \in Running /\ HandlerFrame
    BY HandlerShape
  <1>2. PICK nh \in Handler : HandlerEffect(c, i, nh)
    BY HandlerShape
  <1>3. i \notin ReplyIds(c) /\ i \in dispatched[c]
    BY <1>1 DEF ReplyInv, RunningUnanswered, UndispatchedIdle, Running, PCs
  <1>4. hs' = [hs EXCEPT ![c][i] = nh] /\ UNCHANGED <<inbox, usedIds, dispatched>>
    BY <1>1, <1>2 DEF HandlerEffect, HandlerFrame
  <1>5. InboxFresh' /\ InboxDistinct' /\ DispatchedUsed'
    BY <1>4 DEF ReplyInv, InboxFresh, InboxDistinct, DispatchedUsed
  <1>6. UndispatchedIdle'
    BY <1>3, <1>4 DEF ReplyInv, UndispatchedIdle, TypeInv, TypeOK
  <1>7. CASE out' = out /\ nh.pc \in Running
    <2>1. UniqueReplies' /\ RepliesCorrelate'
      BY <1>4, <1>7 DEF ReplyInv, UniqueReplies, RepliesCorrelate, ReplyIds
    <2>2. RunningUnanswered'
      BY <1>3, <1>4, <1>7 DEF ReplyInv, RunningUnanswered, ReplyIds, TypeInv, TypeOK
    <2>3. QED
      BY <1>5, <1>6, <2>1, <2>2 DEF ReplyInv
  <1>8. CASE nh.pc = "done" /\ ReplyStep(c, i)
    <2>1. PICK r \in Reply : r.id = i /\ out' = [out EXCEPT ![c] = IF open[c] THEN Append(@, r) ELSE @]
      BY <1>8 DEF ReplyStep
    <2>2. /\ UniqueReplies'
          /\ \A d \in Conns \ {c} : ReplyIds(d)' = ReplyIds(d)
          /\ ReplyIds(c)' \subseteq ReplyIds(c) \cup {r.id}
      BY <1>3, <2>1, WriteReply DEF ReplyInv, TypeInv
    <2>3. RepliesCorrelate'
      BY <1>3, <1>4, <2>1, <2>2 DEF ReplyInv, RepliesCorrelate
    <2>4. RunningUnanswered'
      <3> SUFFICES ASSUME NEW d \in Conns, NEW j \in Ids, hs'[d][j].pc \in Running
                   PROVE  j \notin ReplyIds(d)'
        BY DEF RunningUnanswered
      <3>1. ~(d = c /\ j = i)
        BY <1>4, <1>8 DEF TypeInv, TypeOK, Running, PCs
      <3>2. hs[d][j].pc \in Running
        BY <1>4, <3>1 DEF TypeInv, TypeOK
      <3>3. j \notin ReplyIds(d)
        BY <3>2 DEF ReplyInv, RunningUnanswered
      <3>4. QED
        BY <2>1, <2>2, <3>1, <3>3
    <2>5. QED
      BY <1>5, <1>6, <2>2, <2>3, <2>4 DEF ReplyInv
  <1>9. QED
    BY <1>2, <1>7, <1>8 DEF HandlerEffect

(* The bookkeeping is inductive: every step keeps TypeInv and ReplyInv.    *)
LEMMA IInvStep == IInv /\ [Next]_vars => IInv'
  <1> SUFFICES ASSUME IInv, [Next]_vars PROVE IInv'
    OBVIOUS
  <1>0. TypeInv'
    BY TypeInvStep DEF IInv
  <1> USE DEF IInv
  <1>1. CASE Initialize
    BY <1>0, <1>1, ReplyInvFrame DEF Initialize, clientVars
  <1>2. CASE StartServer
    BY <1>0, <1>2, ReplyInvFrame DEF StartServer, clientVars
  <1>3. ASSUME NEW c \in Conns, ClientSend(c) PROVE IInv'
    BY <1>0, <1>3, ClientSendReply
  <1>4. ASSUME NEW c \in Conns, Disconnect(c) PROVE IInv'
    BY <1>0, <1>4, DisconnectReply
  <1>5. ASSUME NEW o \in Owners, BreakDb(o) PROVE IInv'
    BY <1>0, <1>5, ReplyInvFrame DEF BreakDb, clientVars
  <1>6. ASSUME NEW c \in Conns, ReadFrame(c) PROVE IInv'
    BY <1>0, <1>6, ReadFrameReply
  <1>7. ASSUME NEW c \in Conns, NEW i \in Ids, HandlerStep(c, i) PROVE IInv'
    BY <1>0, <1>7, HandlerReply
  <1>8. CASE Terminating
    BY <1>0, <1>8, ReplyInvFrame DEF Terminating, vars
  <1>9. CASE UNCHANGED vars
    BY <1>0, <1>9, ReplyInvFrame DEF vars
  <1>10. QED
    BY <1>1, <1>2, <1>3, <1>4, <1>5, <1>6, <1>7, <1>8, <1>9 DEF Next

(* Type correctness: every reachable state of the host and its handlers  *)
(* is well typed, in particular a connection's generation never exceeds   *)
(* MaxBreaks and an error reply always carries one of the known messages. *)
THEOREM TypeCorrect == Spec => []TypeOK
  <1>1. Init => TypeInv
    BY InitTypeInv
  <1>2. TypeInv /\ [Next]_vars => TypeInv'
    BY TypeInvStep
  <1>3. TypeInv => TypeOK
    BY DEF TypeInv
  <1>4. QED
    BY <1>1, <1>2, <1>3, PTL DEF Spec

(* Exactly-once replies, the at-most half, for every number of            *)
(* connections, ids, services and database breaks: no request id on a    *)
(* connection is ever answered twice, whatever the retry and the fault    *)
(* conversion do.                                                          *)
THEOREM RepliesUnique == Spec => []UniqueReplies
  <1>1. Init => IInv
    BY InitIInv
  <1>2. IInv /\ [Next]_vars => IInv'
    BY IInvStep
  <1>3. IInv => UniqueReplies
    BY DEF IInv, ReplyInv
  <1>4. QED
    BY <1>1, <1>2, <1>3, PTL DEF Spec

=============================================================================
