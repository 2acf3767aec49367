------------------------- MODULE RpcHostRefinement -------------------------
(***************************************************************************)
(* Proof that the host implements the safety part of its reply promise    *)
(* (ExactlyOnceReplies) under the refinement mapping of RpcHost: the       *)
(* initial state maps to the promise's, and every step of the host maps to *)
(* a step of the promise or leaves its state alone.  The steps rest on the *)
(* inductive invariant IInv of RpcHostProofs.                              *)
(***************************************************************************)
EXTENDS RpcHostProofs

USE ConstAssumption

(* The ids of a log with one more reply are the ids of the log with one   *)
(* more id.                                                                *)
LEMMA LogOfAppend ==
  ASSUME NEW s \in Seq(Reply), NEW r \in Reply
  PROVE  [k \in DOMAIN Append(s, r) |-> Append(s, r)[k].id]
           = Append([k \in DOMAIN s |-> s[k].id], r.id)
  OBVIOUS

(* The promise's answered ids are the ids of the replies written.         *)
LEMMA AnsweredIds ==
  ASSUME NEW c \in Conns
  PROVE  Promise!Answered(c) = ReplyIds(c)
  BY DEF Promise!Answered, ReplyLog, ReplyIds

(* Writing reply r on c: an open connection's log gains r's id, a closed   *)
(* connection's log stays as it was.                                       *)
LEMMA WriteLog ==
  ASSUME TypeOK, NEW c \in Conns, NEW r \in Reply,
         out' = [out EXCEPT ![c] = IF open[c] THEN Append(@, r) ELSE @]
  PROVE  /\ open[c] => ReplyLog' = [ReplyLog EXCEPT ![c] = Append(@, r.id)]
         /\ ~open[c] => ReplyLog' = ReplyLog
  <1>1. out[c] \in Seq(Reply)
    BY DEF TypeOK
  <1>2. ASSUME open[c] PROVE ReplyLog' = [ReplyLog EXCEPT ![c] = Append(@, r.id)]
    <2>1. out'[c] = Append(out[c], r) /\ \A d \in Conns \ {c} : out'[d] = out[d]
      BY <1>2 DEF TypeOK
    <2>2. ReplyLog'[c] = Append(ReplyLog[c], r.id)
      BY <1>1, <2>1, LogOfAppend DEF ReplyLog
    <2>3. QED
      BY <2>1, <2>2 DEF ReplyLog, TypeOK
  <1>3. ASSUME ~open[c] PROVE ReplyLog' = ReplyLog
    BY <1>3 DEF ReplyLog, TypeOK
  <1>4. QED
    BY <1>2, <1>3

(* A step that leaves the dispatched ids, the replies and the connections *)
(* alone is a stutter of the promise.                                      *)
LEMMA PromiseStutter ==
  ASSUME UNCHANGED <<dispatched, out, open>>
  PROVE  UNCHANGED Promise!avars
  BY DEF Promise!avars, ReplyLog

LEMMA InitRefines == Init => Promise!Init
  BY DEF Init, Promise!Init, ReplyLog

(* The reader's step: a frame without an id changes nothing the promise   *)
(* sees; a frame with an id is accepted, with or without the reader's own  *)
(* reply.                                                                  *)
LEMMA ReadFrameRefines ==
  ASSUME IInv, NEW c \in Conns, ReadFrame(c)
  PROVE  [Promise!Next]_Promise!avars
  <1> DEFINE f == Head(inbox[c])
  <1>1. /\ inbox[c] # <<>> /\ f \in Frame /\ open[c] /\ open' = open
        /\ (f.kind = "request" => f.id \in Ids)
    BY DEF ReadFrame, IInv, TypeInv, TypeOK, InboxTypeInv
  <1>2. dispatched' = [dispatched EXCEPT ![c] = IF f.id = NoId THEN @ ELSE @ \cup {f.id}]
    BY DEF ReadFrame
  <1>3. CASE f.id = NoId
    <2>1. out' = out
      <3>1. f.kind # "request"
        BY <1>1, <1>3
      <3>2. CASE f.kind = "notification"
        BY <3>2 DEF ReadFrame, DispatchNotification
      <3>3. CASE f.kind = "malformed"
        BY <1>3, <3>3 DEF ReadFrame, DispatchMalformed
      <3>4. QED
        BY <1>1, <3>1, <3>2, <3>3 DEF Frame
    <2>2. dispatched' = dispatched
      BY <1>2, <1>3 DEF IInv, TypeInv, TypeOK
    <2>3. QED
      BY <1>1, <2>1, <2>2, PromiseStutter
  <1>4. CASE f.id # NoId
    <2>1. f.id \in Ids /\ f.id \notin dispatched[c]
      BY <1>1, <1>4 DEF IInv, ReplyInv, InboxFresh, TypeInv, TypeOK, Frame
    <2>2. \/ out' = out
          \/ \E r \in Reply : r.id = f.id
                /\ out' = [out EXCEPT ![c] = IF open[c] THEN Append(@, r) ELSE @]
      <3>1. CASE f.kind = "request" /\ f.method \in registry
        BY <3>1 DEF ReadFrame, DispatchRequest
      <3>2. CASE f.kind = "request" /\ f.method \notin registry
        <4> DEFINE r == [id |-> f.id, kind |-> "error", msg |-> "method_not_found"]
        <4>1. r \in Reply /\ r.id = f.id
          BY <2>1 DEF Reply, Msgs
        <4>2. QED
          BY <3>2, <4>1 DEF ReadFrame, DispatchRequest, SendReply, Write
      <3>3. CASE f.kind = "notification"
        BY <3>3 DEF ReadFrame, DispatchNotification
      <3>4. CASE f.kind = "malformed"
        <4> DEFINE r == [id |-> f.id, kind |-> "error", msg |-> "parse_error"]
        <4>1. r \in Reply /\ r.id = f.id
          BY <2>1 DEF Reply, Msgs
        <4>2. QED
          BY <1>4, <3>4, <4>1 DEF ReadFrame, DispatchMalformed, SendReply, Write
      <3>5. QED
        BY <1>1, <3>1, <3>2, <3>3, <3>4 DEF Frame
    <2>3. dispatched' = [dispatched EXCEPT ![c] = @ \cup {f.id}]
      BY <1>2, <1>4
    <2>4. CASE out' = out
      <3>1. Promise!Accept(c, f.id)
        BY <1>1, <2>1, <2>3, <2>4 DEF Promise!Accept, ReplyLog
      <3>2. QED
        BY <2>1, <3>1 DEF Promise!Next
    <2>5. ASSUME NEW r \in Reply, r.id = f.id,
                 out' = [out EXCEPT ![c] = IF open[c] THEN Append(@, r) ELSE @]
          PROVE  [Promise!Next]_Promise!avars
      <3>1. ReplyLog' = [ReplyLog EXCEPT ![c] = Append(@, f.id)]
        BY <1>1, <2>5, WriteLog DEF IInv, TypeInv
      <3>2. Promise!Accept(c, f.id)
        BY <1>1, <2>1, <2>3, <3>1 DEF Promise!Accept
      <3>3. QED
        BY <2>1, <3>2 DEF Promise!Next
    <2>6. QED
      BY <2>2, <2>4, <2>5
  <1>5. QED
    BY <1>3, <1>4

(* A handler's step: it either writes nothing, or writes the one reply of *)
(* its own request, which was dispatched and has no reply yet.             *)
LEMMA HandlerRefines ==
  ASSUME IInv, NEW c \in Conns, NEW i \in Ids, HandlerStep(c, i)
  PROVE  [Promise!Next]_Promise!avars
  <1>1. hs[c][i].pc \in Running /\ HandlerFrame
    BY HandlerShape DEF IInv
  <1>2. PICK nh \in Handler : HandlerEffect(c, i, nh)
    BY HandlerShape DEF IInv
  <1>3. i \notin ReplyIds(c) /\ i \in dispatched[c]
    BY <1>1 DEF IInv, ReplyInv, RunningUnanswered, UndispatchedIdle, Running, PCs
  <1>4. UNCHANGED <<dispatched, open>>
    BY <1>1 DEF HandlerFrame
  <1>5. CASE out' = out
    BY <1>4, <1>5, PromiseStutter
  <1>6. CASE nh.pc = "done" /\ ReplyStep(c, i)
    <2>1. PICK r \in Reply : r.id = i /\ out' = [out EXCEPT ![c] = IF open[c] THEN Append(@, r) ELSE @]
      BY <1>6 DEF ReplyStep
    <2>2. CASE open[c]
      <3>1. ReplyLog' = [ReplyLog EXCEPT ![c] = Append(@, i)]
        BY <2>1, <2>2, WriteLog DEF IInv, TypeInv
      <3>2. Promise!Answer(c, i)
        BY <1>3, <1>4, <2>2, <3>1, AnsweredIds DEF Promise!Answer
      <3>3. QED
        BY <3>2 DEF Promise!Next
    <2>3. CASE ~open[c]
      BY <1>4, <2>1, <2>3, WriteLog, PromiseStutter DEF IInv, TypeInv, Promise!avars
    <2>4. QED
      BY <2>2, <2>3
  <1>7. QED
    BY <1>2, <1>5, <1>6 DEF HandlerEffect

(* Every step of the host is a step of the promise or a stutter of it.    *)
LEMMA RefineStep == IInv /\ [Next]_vars => [Promise!Next]_Promise!avars
  <1> SUFFICES ASSUME IInv, [Next]_vars PROVE [Promise!Next]_Promise!avars
    OBVIOUS
  <1>1. CASE Initialize \/ StartServer
    BY <1>1, PromiseStutter DEF Initialize, StartServer
  <1>2. ASSUME NEW c \in Conns, ClientSend(c) PROVE [Promise!Next]_Promise!avars
    BY <1>2, PromiseStutter DEF ClientSend
  <1>3. ASSUME NEW c \in Conns, Disconnect(c) PROVE [Promise!Next]_Promise!avars
    <2>1. Promise!Close(c)
      BY <1>3 DEF Disconnect, Promise!Close, ReplyLog
    <2>2. QED
      BY <2>1 DEF Promise!Next
  <1>4. ASSUME NEW o \in Owners, BreakDb(o) PROVE [Promise!Next]_Promise!avars
    BY <1>4, PromiseStutter DEF BreakDb
  <1>5. ASSUME NEW c \in Conns, ReadFrame(c) PROVE [Promise!Next]_Promise!avars
    BY <1>5, ReadFrameRefines
  <1>6. ASSUME NEW c \in Conns, NEW i \in Ids, HandlerStep(c, i)
        PROVE  [Promise!Next]_Promise!avars
    BY <1>6, HandlerRefines
  <1>7. CASE Terminating \/ UNCHANGED vars
    BY <1>7, PromiseStutter DEF Terminating, vars
  <1>8. QED
    BY <1>1, <1>2, <1>3, <1>4, <1>5, <1>6, <1>7 DEF Next

(* Exactly-once replies as a refinement, for every number of connections, *)
(* ids, owners and breaks: the host, its reader, the scripting handler     *)
(* with its retry and the dispatch boundary's fault conversion together   *)
(* implement the safety part of the reply promise (RefinesReplyPromise). *)
THEOREM HostRefinesPromise == Spec => RefinesReplyPromise
  <1>1. Init => IInv /\ Promise!Init
    BY InitIInv, InitRefines
  <1>2. IInv /\ [Next]_vars => IInv' /\ [Promise!Next]_Promise!avars
    BY IInvStep, RefineStep
  <1>3. QED
    BY <1>1, <1>2, PTL DEF Spec, RefinesReplyPromise, Promise!SafeSpec
=============================================================================
