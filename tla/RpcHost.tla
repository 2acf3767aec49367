------------------------------ MODULE RpcHost ------------------------------
(***************************************************************************)
(* The protocol host of the tools service composed with the scripting      *)
(* service's request handler.                                              *)
(*                                                                         *)
(*  - startup: _create_server_init builds the ServiceProvider, whose       *)
(*    initialize() makes every service register its methods; main then    *)
(*    either generates the markdown documentation or starts the server     *)
(*    (ossdbtoolsservice_main.py);                                         *)
(*  - the host: one reader per connection takes frames in arrival order    *)
(*    and dispatches them; every request handler runs on its own thread;   *)
(*    a fault escaping a handler is turned into an error reply at the      *)
(*    dispatch boundary (spec 4.4; hosting code is not under src/);        *)
(*  - the scripting handler _handle_script_as_request with its one retry   *)
(*    after the database connection broke (scripting_service.py);          *)
(*  - the connection service, only at its boundary: get_connection may     *)
(*    reconnect a broken connection, hand back the broken one, or raise.   *)
(***************************************************************************)
EXTENDS Integers, Sequences, FiniteSets

CONSTANTS
    Conns,         \* client connections (one in stream mode)
    Ids,           \* request ids a client may use on a connection
    NoId,          \* the absent id of a notification or an id-less frame
    Owners,        \* owner URIs of database connections
    Services,      \* the services in the ServiceProvider's map
    Owns,          \* Owns[s]: the method names service s registers
    ScriptAs,      \* SCRIPT_AS_REQUEST, registered by the scripting service
    NotifyM,       \* a notification method some service may register
    UnknownM,      \* a method no service registers
    MaxBreaks,     \* bound on the breaks of one owner's database connection
    MaxFrames      \* bound on frames a client sends on one connection

Methods == {ScriptAs, NotifyM, UnknownM}

ASSUME ConstAssumption ==
    /\ NoId \notin Ids
    /\ Owners # {}
    /\ Owns \in [Services -> SUBSET {ScriptAs, NotifyM}]
    /\ ScriptAs # NotifyM /\ ScriptAs # UnknownM /\ NotifyM # UnknownM
    /\ MaxBreaks \in Nat
    /\ MaxFrames \in Nat

(* The value of the local variable `connection` before line 56 assigns it. *)
Unbound == -1

(* Shapes of ScriptAsParameters: None, no scripting object, well formed.   *)
Shapes == {"none", "no_objects", "ok"}
Params == [owner : Owners, shape : Shapes]
DefaultParams == [owner |-> CHOOSE o \in Owners : TRUE, shape |-> "ok"]

Frame == [kind : {"request", "notification", "malformed"},
          method : Methods, id : Ids \cup {NoId}, params : Params]

(* Messages an error reply may carry: the exceptions of the handler's     *)
(* operations, and those the host produces itself.                        *)
Excs == {"params_none", "conn_error", "index_error", "db_error", "script_error"}
Msgs == Excs \cup {"unbound_local", "method_not_found", "parse_error", "script"}
Reply == [id : Ids \cup {NoId}, kind : {"result", "error"}, msg : Msgs]

(* Program counter of a scripting handler thread.                         *)
PCs == {"idle", "validate", "get_conn", "metadata", "script", "except", "done"}
Running == PCs \ {"idle", "done"}
Handler == [pc : PCs, retry : BOOLEAN, conn : {Unbound} \cup 0..MaxBreaks,
            exc : Excs \cup {"none"}, params : Params]
IdleHandler == [pc |-> "idle", retry |-> FALSE, conn |-> Unbound,
                exc |-> "none", params |-> DefaultParams]

VARIABLES
    phase,        \* startup phase of the process
    markdown,     \* the --generate-markdown command line switch
    registry,     \* methods registered by the services
    inbox,        \* inbox[c]: frames sent by the client, not yet read
    sent,         \* sent[c]: number of frames the client sent on c
    usedIds,      \* usedIds[c]: ids the client has used on c
    dispatched,   \* dispatched[c]: ids of the frames the reader took from c
    open,         \* open[c]: the connection is alive
    pending,      \* pending[c]: ids of requests awaiting their reply
    hs,           \* hs[c][i]: the handler thread of request i on c
    db,           \* db[o]: the database connection of owner o
    breaks,       \* breaks[o]: breaks of owner o's connection so far
    out           \* out[c]: replies written to c, in order

startVars == <<phase, markdown, registry>>
clientVars == <<inbox, sent, usedIds>>
vars == <<phase, markdown, registry, inbox, sent, usedIds, dispatched,
          open, pending, hs, db, breaks, out>>

TypeOK ==
    /\ phase \in {"created", "initialized", "serving", "documented", "failed"}
    /\ markdown \in BOOLEAN
    /\ registry \subseteq Methods
    /\ inbox \in [Conns -> Seq(Frame)]
    /\ sent \in [Conns -> 0..MaxFrames]
    /\ usedIds \in [Conns -> SUBSET Ids]
    /\ dispatched \in [Conns -> SUBSET Ids]
    /\ open \in [Conns -> BOOLEAN]
    /\ pending \in [Conns -> SUBSET Ids]
    /\ hs \in [Conns -> [Ids -> Handler]]
    /\ db \in [Owners -> [gen : 0..MaxBreaks, broken : BOOLEAN]]
    /\ breaks \in [Owners -> 0..MaxBreaks]
    /\ out \in [Conns -> Seq(Reply)]

Init ==
    /\ phase = "created"
    /\ markdown \in BOOLEAN
    /\ registry = {}
    /\ inbox = [c \in Conns |-> <<>>]
    /\ sent = [c \in Conns |-> 0]
    /\ usedIds = [c \in Conns |-> {}]
    /\ dispatched = [c \in Conns |-> {}]
    /\ open = [c \in Conns |-> TRUE]
    /\ pending = [c \in Conns |-> {}]
    /\ hs = [c \in Conns |-> [i \in Ids |-> IdleHandler]]
    /\ db = [o \in Owners |-> [gen |-> 0, broken |-> FALSE]]
    /\ breaks = [o \in Owners |-> 0]
    /\ out = [c \in Conns |-> <<>>]

-----------------------------------------------------------------------------
(* Startup.                                                                *)

(* Two services registering the same method name.                         *)
DuplicateRegistration ==
    \E s1, s2 \in Services : s1 # s2 /\ Owns[s1] \cap Owns[s2] # {}

(* _create_server_init: ServiceProvider(...).initialize() calls register  *)
(* on every service; a duplicate name raises and the process never serves. *)
Initialize ==
    /\ phase = "created"
    /\ IF DuplicateRegistration
         THEN phase' = "failed" /\ UNCHANGED registry
         ELSE phase' = "initialized" /\ registry' = UNION {Owns[s] : s \in Services}
    /\ UNCHANGED <<markdown, clientVars, dispatched, open, pending, hs, db, breaks, out>>

(* main: with --generate-markdown walk the registry, otherwise start.     *)
StartServer ==
    /\ phase = "initialized"
    /\ phase' = IF markdown THEN "documented" ELSE "serving"
    /\ UNCHANGED <<markdown, registry, clientVars, dispatched, open, pending, hs, db, breaks, out>>

-----------------------------------------------------------------------------
(* The client and the transport.                                           *)

(* The client writes one frame; a frame with an id uses a fresh id.       *)
ClientSend(c) ==
    /\ open[c]
    /\ sent[c] < MaxFrames
    /\ \E f \in Frame :
         /\ f.kind = "request" => f.method # NotifyM
         /\ f.kind = "notification" => f.method # ScriptAs /\ f.id = NoId
         /\ f.kind = "malformed" => f.method = UnknownM
         /\ f.kind # "request" \/ f.method # ScriptAs => f.params = DefaultParams
         /\ f.kind = "request" => f.id # NoId
         /\ f.id # NoId => f.id \notin usedIds[c]
         /\ inbox' = [inbox EXCEPT ![c] = Append(@, f)]
         /\ usedIds' = [usedIds EXCEPT ![c] = IF f.id = NoId THEN @ ELSE @ \cup {f.id}]
    /\ sent' = [sent EXCEPT ![c] = @ + 1]
    /\ UNCHANGED <<startVars, dispatched, open, pending, hs, db, breaks, out>>

(* EOF or a transport error: the connection's bookkeeping is released;    *)
(* handlers still running go on and their replies are dropped.            *)
Disconnect(c) ==
    /\ open[c]
    /\ open' = [open EXCEPT ![c] = FALSE]
    /\ inbox' = [inbox EXCEPT ![c] = <<>>]
    /\ pending' = [pending EXCEPT ![c] = {}]
    /\ UNCHANGED <<startVars, sent, usedIds, dispatched, hs, db, breaks, out>>

(* The database server closes the connection of owner o.                  *)
BreakDb(o) ==
    /\ ~db[o].broken
    /\ breaks[o] < MaxBreaks
    /\ db' = [db EXCEPT ![o].broken = TRUE]
    /\ breaks' = [breaks EXCEPT ![o] = @ + 1]
    /\ UNCHANGED <<startVars, clientVars, dispatched, open, pending, hs, out>>

-----------------------------------------------------------------------------
(* Writing a reply: a terminal send on a request context.  On a closed    *)
(* connection the write is a no-op.                                        *)
Write(c, r) ==
    out' = [out EXCEPT ![c] = IF open[c] THEN Append(@, r) ELSE @]

SendReply(c, i, kind, msg) ==
    /\ Write(c, [id |-> i, kind |-> kind, msg |-> msg])
    /\ pending' = [pending EXCEPT ![c] = @ \ {i}]

(* The reader of connection c takes the next frame and dispatches it.     *)
DispatchRequest(c, f) ==
    IF f.method \in registry
      THEN /\ hs' = [hs EXCEPT ![c][f.id] =
                       [IdleHandler EXCEPT !.pc = "validate", !.params = f.params]]
           /\ pending' = [pending EXCEPT ![c] = @ \cup {f.id}]
           /\ UNCHANGED out
      ELSE /\ SendReply(c, f.id, "error", "method_not_found")
           /\ UNCHANGED hs

(* A notification handler's outcome is logged, never replied to.          *)
DispatchNotification(c, f) ==
    UNCHANGED <<hs, pending, out>>

DispatchMalformed(c, f) ==
    IF f.id # NoId
      THEN SendReply(c, f.id, "error", "parse_error") /\ UNCHANGED hs
      ELSE UNCHANGED <<hs, pending, out>>

ReadFrame(c) ==
    /\ phase = "serving"
    /\ open[c]
    /\ inbox[c] # <<>>
    /\ LET f == Head(inbox[c]) IN
         /\ inbox' = [inbox EXCEPT ![c] = Tail(@)]
         /\ dispatched' = [dispatched EXCEPT ![c] =
                             IF f.id = NoId THEN @ ELSE @ \cup {f.id}]
         /\ CASE f.kind = "request"      -> DispatchRequest(c, f)
              [] f.kind = "notification" -> DispatchNotification(c, f)
              [] f.kind = "malformed"    -> DispatchMalformed(c, f)
    /\ UNCHANGED <<startVars, sent, usedIds, open, db, breaks>>

-----------------------------------------------------------------------------
(* The scripting handler thread of request i on connection c.             *)

Broken(o, g) == g < db[o].gen \/ db[o].broken

SetHandler(c, i, h) == hs' = [hs EXCEPT ![c][i] = h]

(* _request_error: log, then send_error(message); the handler returns.    *)
RequestError(c, i, msg) ==
    /\ SendReply(c, i, "error", msg)
    /\ SetHandler(c, i, [hs[c][i] EXCEPT !.pc = "done", !.exc = msg])

(* Variant: line 51's return is missing, so after the error reply the    *)
(* handler goes on, fails on params.operation and faults.                 *)
ValidateNoReturn(c, i) ==
    LET h == hs[c][i] IN
    /\ h.pc = "validate"
    /\ IF h.params.shape = "none"
         THEN /\ SendReply(c, i, "error", "params_none")
              /\ SetHandler(c, i, [h EXCEPT !.pc = "except", !.exc = "params_none"])
         ELSE SetHandler(c, i, [h EXCEPT !.pc = "get_conn"]) /\ UNCHANGED <<pending, out>>
    /\ UNCHANGED db

(* Lines 47-51: is_not_none('params', params).                            *)
Validate(c, i) ==
    LET h == hs[c][i] IN
    /\ h.pc = "validate"
    /\ IF h.params.shape = "none"
         THEN RequestError(c, i, "params_none")
         ELSE SetHandler(c, i, [h EXCEPT !.pc = "get_conn"]) /\ UNCHANGED <<pending, out>>
    /\ UNCHANGED db

(* Variant: get_connection opens a new connection on every call.         *)
GetConnectionAlwaysNew(c, i) ==
    LET h == hs[c][i]
        o == h.params.owner IN
    /\ h.pc = "get_conn"
    /\ db' = [db EXCEPT ![o] = [gen |-> @.gen + 1, broken |-> FALSE]]
    /\ SetHandler(c, i, [h EXCEPT !.pc = "metadata", !.conn = db'[o].gen])
    /\ UNCHANGED <<pending, out>>

(* Lines 54-56: connection_service.get_connection(owner_uri, QUERY).       *)
GetConnection(c, i) ==
    LET h == hs[c][i]
        o == h.params.owner IN
    /\ h.pc = "get_conn"
    /\ \/ /\ ~db[o].broken
          /\ SetHandler(c, i, [h EXCEPT !.pc = "metadata", !.conn = db[o].gen])
          /\ UNCHANGED db
       \/ /\ db[o].broken
          /\ db' = [db EXCEPT ![o] = [gen |-> @.gen + 1, broken |-> FALSE]]
          /\ SetHandler(c, i, [h EXCEPT !.pc = "metadata", !.conn = db'[o].gen])
       \/ /\ db[o].broken
          /\ SetHandler(c, i, [h EXCEPT !.pc = "metadata", !.conn = db[o].gen])
          /\ UNCHANGED db
       \/ /\ SetHandler(c, i, [h EXCEPT !.pc = "except", !.exc = "conn_error"])
          /\ UNCHANGED db
    /\ UNCHANGED <<pending, out>>

(* Line 57: create_metadata reads params.scripting_objects[0].            *)
CreateMetadata(c, i) ==
    LET h == hs[c][i] IN
    /\ h.pc = "metadata"
    /\ SetHandler(c, i, IF h.params.shape = "no_objects"
                          THEN [h EXCEPT !.pc = "except", !.exc = "index_error"]
                          ELSE [h EXCEPT !.pc = "script"])
    /\ UNCHANGED <<db, pending, out>>

(* Lines 59-62: Scripter(connection).script(...) then send_response.      *)
Script(c, i) ==
    LET h == hs[c][i] IN
    /\ h.pc = "script"
    /\ \/ /\ ~Broken(h.params.owner, h.conn)
          /\ SendReply(c, i, "result", "script")
          /\ SetHandler(c, i, [h EXCEPT !.pc = "done"])
       \/ /\ SetHandler(c, i, [h EXCEPT !.pc = "except", !.exc =
                IF Broken(h.params.owner, h.conn) THEN "db_error" ELSE "script_error"])
          /\ UNCHANGED <<pending, out>>
    /\ UNCHANGED db

(* The dispatch boundary: an exception escaping the handler becomes an    *)
(* error reply carrying its message.                                       *)
HandlerFault(c, i, msg) ==
    /\ SendReply(c, i, "error", msg)
    /\ SetHandler(c, i, [hs[c][i] EXCEPT !.pc = "done"])

(* Variant: the final error path logs but never calls send_error.       *)
ExceptSilent(c, i) ==
    LET h == hs[c][i] IN
    /\ h.pc = "except"
    /\ \/ /\ h.conn = Unbound
          /\ HandlerFault(c, i, "unbound_local")
       \/ /\ h.conn # Unbound
          /\ Broken(h.params.owner, h.conn) /\ ~h.retry
          /\ SetHandler(c, i, [h EXCEPT !.pc = "validate", !.retry = TRUE,
                                        !.conn = Unbound, !.exc = "none"])
          /\ UNCHANGED <<pending, out>>
       \/ /\ h.conn # Unbound
          /\ ~(Broken(h.params.owner, h.conn) /\ ~h.retry)
          /\ SetHandler(c, i, [h EXCEPT !.pc = "done"])
          /\ UNCHANGED <<pending, out>>
    /\ UNCHANGED db

(* Lines 63-68: the except clause.  Reading `connection` while it is      *)
(* unbound raises UnboundLocalError out of the handler (out of the outer  *)
(* call's except clause too, when this is the retry); a broken connection *)
(* on the first attempt re-enters the handler with retry_state = True.    *)
Except(c, i) ==
    LET h == hs[c][i] IN
    /\ h.pc = "except"
    /\ \/ /\ h.conn = Unbound
          /\ HandlerFault(c, i, "unbound_local")
       \/ /\ h.conn # Unbound
          /\ Broken(h.params.owner, h.conn) /\ ~h.retry
          /\ SetHandler(c, i, [h EXCEPT !.pc = "validate", !.retry = TRUE,
                                        !.conn = Unbound, !.exc = "none"])
          /\ UNCHANGED <<pending, out>>
       \/ /\ h.conn # Unbound
          /\ ~(Broken(h.params.owner, h.conn) /\ ~h.retry)
          /\ RequestError(c, i, h.exc)
    /\ UNCHANGED db

HandlerStep(c, i) ==
    /\ \/ Validate(c, i)
       \/ GetConnection(c, i)
       \/ CreateMetadata(c, i)
       \/ Script(c, i)
       \/ Except(c, i)
    /\ UNCHANGED <<startVars, clientVars, dispatched, open, breaks>>

-----------------------------------------------------------------------------
(* The process has stopped: startup failed, the documentation was written, *)
(* or every connection is closed and no handler is running.               *)
Terminated ==
    \/ phase \in {"failed", "documented"}
    \/ /\ \A c \in Conns : ~open[c]
       /\ \A c \in Conns, i \in Ids : hs[c][i].pc \notin Running

Terminating == Terminated /\ UNCHANGED vars

Next ==
    \/ Initialize
    \/ StartServer
    \/ \E c \in Conns : ClientSend(c) \/ Disconnect(c) \/ ReadFrame(c)
    \/ \E o \in Owners : BreakDb(o)
    \/ \E c \in Conns, i \in Ids : HandlerStep(c, i)
    \/ Terminating

(* The main thread, every reader and every handler thread keep running;   *)
(* the client and the database server are not obliged to do anything.    *)
Fairness ==
    /\ WF_vars(Initialize)
    /\ WF_vars(StartServer)
    /\ \A c \in Conns : WF_vars(ReadFrame(c))
    /\ \A c \in Conns, i \in Ids : WF_vars(HandlerStep(c, i))

Spec == Init /\ [][Next]_vars /\ Fairness

-----------------------------------------------------------------------------
(* Properties.                                                             *)

ReplyIds(c) == {out[c][k].id : k \in DOMAIN out[c]}

(* Exactly-once replies, the at-most half: no request id on a connection  *)
(* is ever answered twice, whatever the scripting handler's retry, the    *)
(* dispatch boundary's fault conversion and the reader do between them.   *)
UniqueReplies ==
    \A c \in Conns : \A j, k \in DOMAIN out[c] :
        j # k => out[c][j].id # out[c][k].id

(* Exactly-once replies, the at-least half: every request the reader      *)
(* dispatched is eventually answered, unless its connection goes away.     *)
RequestsAnswered ==
    \A c \in Conns, i \in Ids : (i \in pending[c]) ~> (i \notin pending[c])

(* The host implements the reply promise of ExactlyOnceReplies: the ids  *)
(* the reader dispatched are the accepted requests, the ids of the replies *)
(* written to a connection are its answer log, an open connection lives.  *)
ReplyLog == [c \in Conns |-> [k \in DOMAIN out[c] |-> out[c][k].id]]

Promise == INSTANCE ExactlyOnceReplies
               WITH accepted <- dispatched, answered <- ReplyLog, live <- open

(* Exactly-once replies as a refinement: every step of the reader, of a   *)
(* handler (its retry and the fault conversion included) and of the        *)
(* transport either leaves the promise's state alone or accepts a fresh    *)
(* id, appends the reply of an accepted, unanswered id to a live           *)
(* connection, or closes it; replies are never removed or reordered.       *)
RefinesReplyPromise == Promise!SafeSpec

(* The spec (4.4 step 5, and 7 on retries): an error reply carries the    *)
(* message of the exception the handler's last attempt raised.            *)
ErrorReportsCause ==
    \A c \in Conns : \A k \in DOMAIN out[c] :
        LET r == out[c][k] IN
        (r.kind = "error" /\ r.id \in Ids /\ hs[c][r.id].pc # "idle")
            => r.msg = hs[c][r.id].exc
=============================================================================
