# TLA+ models of pgtoolsservice

This directory holds TLA+ models of the tools service in `src/`, the TLC
configurations that model-check them, and TLAPS proofs of their main safety
properties. `PROJECT.json` lists the components, the runs, the mutants that
show each property can catch a bug, and the map from every modelled
definition to the source lines it translates. It also lists the hazards of
the code and the theorems.

## The system

The service is a JSON-RPC server that a client (an editor) talks to over
stdio, or over HTTP/websocket when the web server is enabled.

* **Startup** (`ossdbtoolsservice_main.py`). `main` reads its defaults, the
  environment and the command line. It sets up logging and optional remote
  debugging. Then it builds a `JSONRPCServer` and a `ServiceProvider` over
  twelve services (`_create_server_init`, lines 52-70). `initialize()`
  makes every service `register` its request and notification handlers.
  Finally `main` either writes the markdown documentation of the methods or
  starts the server and waits for it to exit (lines 210-216).
* **The host** (`JSONRPCServer`, `RequestContext`). This code is not under
  `src/`, so it is modelled from `spec.md`, sections 4-5. One reader per
  connection takes frames in arrival order and dispatches them. A request
  runs its handler with a request context. The handler answers once with
  `send_response` or `send_error`. A fault that escapes a handler becomes
  an error reply at the dispatch boundary. Notifications are never
  answered. A frame with an unknown method is answered "method not found".
* **The scripting service** (`scripting_service.py`).
  `_handle_script_as_request` does the following in order:
  1. validates the parameters;
  2. gets the owner's database connection from the connection service;
  3. builds the object metadata from the first scripting object;
  4. scripts it and sends the response.

  On an exception whose connection is broken, it retries itself once
  (`retry_state`). Otherwise it sends an error.
* **The connection service**. This code is not under `src/`.
  `get_connection` can reconnect a broken connection, return it broken, or
  raise. The database server can close a connection at any time.
* **SMO node objects** (`smo/common/node_object.py`). These are the lazily
  loaded object trees the object explorer and the scripter walk. Each node
  registers child collections (`NodeCollection`, loaded by
  `get_nodes_for_parent`) and property collections
  (`NodeLazyPropertyCollection`, loaded by `_property_generator`). A
  collection caches its generator's result in `_items_impl` on first
  access. `reset()` empties the cache. `NodeObject.refresh` resets every
  collection of the node. Handler threads of different requests share these
  objects.

## Inventory

| Component | State | Operations | Hard behaviour |
|---|---|---|---|
| Startup | phase, registry, markdown switch | initialize, start / generate markdown | duplicate registration; dispatch before registration |
| Host | inbox, dispatched ids, pending requests, replies per connection, connection open | client send, read and dispatch, write reply, disconnect | fault conversion; replies after disconnect; same id on two connections |
| Scripting handler | per-request program counter, retry flag, local `connection`, caught exception | validate, get connection, metadata, script, except/retry | retry after a break; unbound `connection` in the except clause |
| Connection service | per-owner generation and broken flag | break, reconnect, raise | a stale connection shared by concurrent requests |
| SMO collections | cached items per collection | load, reset, refresh, `__getitem__` | reset racing a lazy load |
| Configuration | config file, environment, argv, layered defaults, parsed args, log handler, server | read config, layer environment, parse, provider check, logging, console check, create server | precedence across three layering steps; the eager `int()` of the port |
| Remote debugging | options, taken ports, port, listening port, wait flag, attached client, standard output | listen, retry on the next port, attach, wait, create server, reply | the retry past the last port; printing on the stdio channel |

## Modules

### `RpcHost.tla`: host, startup and scripting handler

| Variable | Code |
|---|---|
| `phase` | where `main` is: `created`, `initialized` (after `initialize()`), `serving` (after `server.start()`), `documented` (markdown written) or `failed` (registration raised) |
| `markdown` | `args.generate_markdown` |
| `registry` | the methods the services registered on the server |
| `inbox[c]`, `sent[c]`, `usedIds[c]` | the frames the client wrote on connection `c` and not yet read; the client uses a fresh id per request |
| `dispatched[c]` | the ids of the frames the reader took from `c` |
| `pending[c]` | the requests on `c` that have not been answered |
| `hs[c][i]` | the handler thread of request `i` on `c`, as a program counter over the statements of `_handle_script_as_request`. It also holds `retry_state`, the local `connection` (the connection generation it was given, or `Unbound`), the caught exception and the parameters |
| `db[o]`, `breaks[o]` | owner `o`'s database connection (its generation, whether it is broken) and how many times it broke |
| `out[c]` | the replies written to `c`, in order |

| Action | Code |
|---|---|
| `Initialize` | `_create_server_init` with `initialize()` |
| `StartServer` | main lines 195-216 |
| `ClientSend`, `Disconnect`, `BreakDb` | the environment: the client, EOF, the database server |
| `ReadFrame` | the reader and the dispatch of one frame (`DispatchRequest`, `DispatchNotification`, `DispatchMalformed`) |
| `Validate` | lines 47-51 |
| `GetConnection` | lines 53-56 |
| `CreateMetadata` | lines 36-43 and 57 |
| `Script` | lines 59-62 |
| `Except` | lines 63-68 |
| `RequestError` | lines 70-73 |
| `HandlerFault` | the dispatch boundary's conversion of the `UnboundLocalError` |

Each handler statement is one atomic step, so the steps of different
requests, the reader, the client and the database interleave freely.

`RpcHostProofs.tla` holds the proofs. `MC_RpcHost.tla` defines the TLC
instances: the symmetry of connections and a service-to-method map.

### `NodeCollections.tla`: the lazily loaded SMO collections

The content of a collection is abstracted to the version of the catalog
rows its query returns. That is all the properties tell apart.

| Variable | Code |
|---|---|
| `cat[c]` | the version of the rows collection `c`'s query returns now (another session's DDL advances it) |
| `impl[c]` | `_items_impl`: `None` or the version it was loaded at |
| `resetVer[c]` | history: `cat[c]` at the last `reset()` of `c` |
| `resetRaced[c]` | history: at the last `reset()` of `c`, some thread held rows of `c` its query had returned and not yet stored |
| `pc[t]`, `cur[t]`, `res[t]` | handler thread `t`: idle, inside `_items` between its query and its store (`load`, `assign`), or inside `refresh`; the collection it loads and what its generator returned |
| `todo[t]` | the collections `NodeObject.refresh` has still to reset |
| `outcome[t]` | how `t`'s last access ended: ok, or the exception it raised |

| Action | Code |
|---|---|
| `Access` | `_items` (lines 300-305, 246-251): the `None` check, then return the cache or go on to the generator |
| `Generate` | the generator: a database error, `get_nodes_for_parent` (lines 14-48: `AttributeError` when there is no database node, the rows otherwise), or `_property_generator` (lines 194-209) |
| `Assign` | the store of the generator's result in `_items_impl` |
| `StartRefresh`, `RefreshStep` | `NodeObject.refresh` and `_refresh_child_collections` (lines 139-141, 228-234): children first, then properties, one `reset()` per step |
| `RefreshCollection` | `NodeCollection.refresh()` (lines 344-350) |
| `Ddl` | the environment: another session changes the catalog |

The query and the store are separate steps because nothing holds a lock
between them. `MC_NodeCollections.tla` gives three nodes: a database, a
schema, and a server-level node without a database ancestor. Its state
constraint `MC_CatalogBound` allows one catalog change in all.

`NodeCollectionsProofs.tla` holds the proofs.

### `ExactlyOnceReplies.tla`: what the host promises

The reply promise with the handlers, the retry and the transport abstracted
away. Per connection it keeps the accepted ids, the log of answered ids and
whether the connection lives. `Accept` takes a fresh id, possibly answering
it in the same step (the reader answers unknown methods and unparsable
frames itself). `Answer` answers an accepted id once. `Close` ends a
connection. `Spec` adds weak fairness on every `Answer`.

`RpcHost` defines the refinement mapping: `accepted` is `dispatched`,
`answered` is `ReplyLog` (the ids of the replies in `out`, in order) and
`live` is `open`. `RefinesReplyPromise` is `Promise!SafeSpec`. It is not
checked by a run: it says what `UniqueReplies` and the bookkeeping of
`RpcHostProofs` say, and it is proved (see Proofs).

### `ServiceConfig.tla`: settings and startup checks of `main`

This module covers `main` from reading `config.ini` to creating the server
(lines 73-125 and 151-216). Every setting has three textual sources:
`file`, `env` and `argv`. `Absent` stands for no entry, variable or option.
The actions follow the code's order:
1. `ReadConfigFile`: `config.get` with its fallback, into `defaults`.
2. `LayerEnvironment`: `os.getenv` over `defaults`, into `envv`.
3. `ParseArguments`: the argparse defaults are `str_to_bool` of the
   layered text, or `int()` of the port, computed while the parser is
   built. `int()` is modelled by what it does: `Numeral` maps a numeral
   text to its number, and `Junk` raises `ValueError`. A `--listen-port`
   that is not a numeral is a usage error.
4. `CheckProvider`, `SetupLogging` (a file or a `NullHandler`),
   `CheckConsoleLogging`, then `CreateServer`.

Boolean options are `store_true` switches, so `argv` can only give `TRUE`.

### `DebugAttach.tla`: remote debugging and standard output

This module covers lines 131-149 and 182-216. Options that are not given,
or are given as 0, are both 0: the code reads them alike as falsy.
* `StartDebugger` prints three lines and listens on the first truthy
  option.
* `RetryDebugger` is the except branch. It listens on `port + 1`, and a
  second failure ends `main`.
* A port can be listened on when it is in `1..MaxPort` and not in `busy`
  (taken by another process).
* `AttachClient` is the debugger client. `WaitForDebugger` blocks until it
  attaches.
* `StdioReply` is the stdio server writing a frame on standard output.

The steps between the retry and the wait (lines 151-180) are the ones
`ServiceConfig` models. They write nothing on standard output, so here they
are one step, `SetUpLogging`.

## Runs

| Run | Configuration | Checks | What it shows |
|---|---|---|---|
| `rpc_stream` | 1 connection, 3 ids, 2 breaks, 3 frames | `TypeOK`, `UniqueReplies` | On stdio with concurrent requests, retries and reconnects, no id is answered twice. |
| `rpc_network` | 2 connections, 1 id (symmetric), 1 break, 2 frames | `UniqueReplies` | Two web clients that use the same id: neither connection gets two replies for it. |
| `rpc_live` | 1 connection, 2 ids, 1 break, 2 frames | `RequestsAnswered` | Under weak fairness, every dispatched request is answered or its connection closes. |
| `rpc_cause` | 1 connection, 1 id, 1 break, 1 frame | `ErrorReportsCause` (expected violation) | See finding 1 below. |
| `nodes_stale` | 2 threads (symmetric), a database node and a server-level node, 4 collections, 1 catalog change in all | `StaleOnlyAfterRacedReset` | Rows older than a reset stay cached only when that reset raced a load whose query had returned. A reset that meets no such load, by `refresh()` or by `reset()` itself, makes the next access reload. |
| `nodes_race` | 2 threads (symmetric), 1 node, 2 collections | `ResetForcesReload` (expected violation) | See finding 2. |
| `config_layers` | 1 string, 2 boolean and the port setting, 2 numerals and a junk text; every combination of sources | `LayeredSettings` | A server that starts uses, for every setting, the highest source that gives it. |
| `config_port` | as `config_layers` | `PortErrorOnlyFromEffectiveSource` (expected violation) | See finding 3. |
| `debug_retry` | ports 1..3, options {0, 2, 3}, every set of taken ports | `DebugFailsOnlyWhenPortsTaken` | debugpy listens on the first free port of the requested one and the next. `main` ends only when both cannot be used, including the retry past the last port. |
| `debug_stdout` | as `debug_retry` | `StdoutCarriesOnlyFrames` (expected violation) | See finding 4. |

The bounds are chosen so that the interesting cases happen:
* Three ids give two requests running at once while a third is read.
* Two breaks give a retry that meets a second break. The run reaches both
  the retry's second failure and the "already reconnected by another
  request" case.
* Two connections with one id are the smallest case in which the same id
  is in use on two connections.

* For the configuration, one setting of each kind, two numerals (the
  built-in one and another) and a junk text are enough. Every source can
  then give, omit or spoil each setting, and the built-in and the given
  port differ.
* For debugging, option 3 is the last port, so the retry steps past it.
  Option 2 has a free or a taken next port.
* For the collections, one catalog change is enough: a load, a change
  and a reset order two versions. Two threads let a reset meet a load in
  flight. The database node and the server-level node cover both outcomes
  of `get_nodes_for_parent`.

Every action and every branch of `Next` fires in the passing runs. The
failure branch of `Initialize` (a duplicate registration) is inside an
`IF` and is not exercised by a run.

## Findings

**1. `scripting_service.py:64`.** When `get_connection` raises on a first
attempt (for example, an unknown owner URI), the local `connection` was
never assigned. The condition `connection is not None` then raises
`UnboundLocalError` inside the except clause. The original exception is
lost and there is no retry. The client gets the dispatcher's generic error
instead of the connection error.

The same happens when `params.operation` or the service lookup raises.
Spec 4.4 step 5 and section 7 say the reply carries the message of the
exception that was raised. TLC finds this in `rpc_cause` in five steps.

**2. `node_object.py:304` (and 250).** `_items` checks `_items_impl`
for `None`, runs the query and only then stores the result. There is no
lock. Suppose another handler thread calls `reset()` or `refresh()` between
the query and the store. Then the store overwrites the reset, and rows
older than the refresh stay cached until the next refresh. TLC's trace has
five steps: access, query, catalog change, refresh, store. The comment of
`reset()` (line 345) promises a reload on the next access, and spec
section 5 makes services synchronize their shared state.

**3. `ossdbtoolsservice_main.py:112`.** The default of `--listen-port`
is `int(listen_port_env)`, and it is evaluated while the parser is built.
So a `LISTEN_PORT` (or config `listen_port`) that is not a numeral ends
startup with `ValueError`, even when `--listen-port` is given. It does so
even in stdio mode, where no port is used. Spec section 6 and the comment
at line 105 give the command line precedence over the environment.

**4. `ossdbtoolsservice_main.py:135`.** With remote debugging in stdio
mode, `main` prints three lines on standard output. Standard output becomes
the stream binding's output channel at line 191. The client then reads text
where the spec's codec puts a frame header.

## Fairness

Weak fairness is assumed for `Initialize`, `StartServer`, each connection's
`ReadFrame`, and each handler's steps. These are the main thread, the
reader threads and the handler threads: they never block forever on
anything the model leaves out.

`ExactlyOnceReplies` assumes weak fairness of `Answer`; what the host's
fairness delivers is `RequestsAnswered`, checked by `rpc_live`. `ServiceConfig` and
`DebugAttach` assume no fairness: they are checked only for safety.

No fairness is assumed for the client, the disconnects or the database
breaks, because they are the environment.

## Proofs (`RpcHostProofs.tla`)

All of these hold for every value of the constants, under
`ConstAssumption`:
* `ConstAssumption` requires `NoId` not to be an id and the method names to
  be distinct.
* `Owns` maps services to sets of those names.
* The bounds are naturals.

| Theorem | Statement |
|---|---|
| `TypeCorrect` | `Spec => []TypeOK` |
| `RepliesUnique` | `Spec => []UniqueReplies` |

### The inductive invariant

`TypeOK` alone is not inductive. The reconnect step sets the generation to
`gen + 1`, and that stays within `0..MaxBreaks` only because each
generation was paid for by a break. The inductive invariant `TypeInv` adds
three facts:
* `GenInv`: generation + broken = breaks;
* `ExcInv`: a handler in its except clause holds an exception;
* `InboxTypeInv`: requests in the inbox carry an id.

`UniqueReplies` is not inductive either. It needs `ReplyInv`, which
relates the replies to the handler threads and the inbox:
* a running handler's id has no reply yet (`RunningUnanswered`);
* an id the reader has not taken has an idle handler (`UndispatchedIdle`);
* the ids waiting in the inbox are used, not yet dispatched, and distinct
  (`InboxFresh`, `InboxDistinct`);
* the dispatched ids were used (`DispatchedUsed`);
* every reply answers an id the reader took from its connection
  (`RepliesCorrelate`).

TLC checked `IInv == TypeInv /\ ReplyInv` as an invariant of the
`rpc_stream` instance and of a two-connection instance before it was
proved.

### The argument

The reader only dispatches a fresh id. That id has no reply and an idle
handler. A handler writes at most one reply, for its own id, and only at
the step that ends it. `HandlerShape` proves this shape for every handler
step once. The type step and the reply step then both use it.

`AppendReply` and `WriteReply` are lemmas about appending a reply whose id
is new to the log.

## Proof of the refinement (`RpcHostRefinement.tla`)

`HostRefinesPromise` proves `Spec => RefinesReplyPromise` for every value
of the constants. The proof has the usual two steps:
* `InitRefines`: the initial state maps to the promise's initial state.
* `RefineStep`: under `IInv`, every host step is a promise step or a
  stutter.

In `RefineStep`, `ReadFrame` maps to `Accept`. The reader's own error reply
is `Accept`'s optional answer, and a frame without an id is a stutter.
`HandlerStep` maps to `Answer` or to a stutter. `Disconnect` maps to
`Close`.

Answering only once rests on `RunningUnanswered` from `IInv`. Accepting
only fresh ids rests on `InboxFresh`. `WriteLog` shows that a reply to a
closed connection leaves the log alone. The last step combines
`InitIInv`, `IInvStep` and the two lemmas by PTL.

## Proofs (`NodeCollectionsProofs.tla`)

These hold under `NodeAssumption`. It requires the child and property
collections to be disjoint and `Owner` to map them to nodes. Every node
has a property collection, and `MaxVersion` is a natural.

| Theorem | Statement |
|---|---|
| `CachesTyped` | `Spec => []TypeOK`, for any number of threads |
| `ResetRacesOnlyInFlight` | `Spec => []StaleOnlyAfterRacedReset`, for any number of threads |

`StaleOnlyAfterRacedReset` is not inductive. The inductive `FreshInv` adds
two facts:
* rows a thread holds and has not stored yet are no older than their
  collection's last reset, or that reset raced them (`InFlightFresh`);
* a reset records a version the catalog has reached
  (`ResetBehindCatalog`).

The query reads `cat`, which never decreases, so what it returns is at
least `resetVer`. A reset of `c` sets `resetRaced[c]` exactly when some
thread is holding rows of `c` (`RowsInFlight`), so every held row stays
fresh or raced (`ResetFresh`, used by both `RefreshStep` and
`RefreshCollection`). A store then writes a fresh or a raced value. TLC
checked `FreshInv` on the `nodes_stale` instance before it was proved.
That the race does happen is `nodes_race`'s counterexample.

## Proofs (`DebugAttachProofs.tla`)

These hold under `DebugAssumption`: `MaxPort` is a positive natural, and
the option values are ports or 0.

| Theorem | Statement |
|---|---|
| `DebugTyped` | `Spec => []TypeOK` |
| `DebugRetryCorrect` | `Spec => []DebugFailsOnlyWhenPortsTaken` |

`DebugFailsOnlyWhenPortsTaken` speaks only of the end states, so it is not
inductive. `PortInv` adds what each stage of the block knows:
* in the except branch, the local `port` still holds the requested port,
  which listen refused;
* once `main` has crashed, `port` is the next one, which listen refused
  too;
* past the block, debugpy listens on the first usable one.

`ListenedStep` is the successful listen, shared by the first attempt and
the retry. The type part needs `SequenceTheorems`: the banner and a frame
keep `stdout` a sequence. TLC checked `IInv` on the `debug_retry` instance
before it was proved.

## Proofs (`ServiceConfigProofs.tla`)

This holds under `ConfigAssumption`, for any sets of settings, texts and
numerals, and any built-in values.

| Theorem | Statement |
|---|---|
| `SettingsLayered` | `Spec => []LayeredSettings` |

`LayeredSettings` is about the parsed arguments only, so it is not
inductive. The invariant keeps one conjunct per layering step:
* `FileLayer` relates `defaults` to the config file and the built-ins;
* `EnvLayer` relates `envv` to the environment and `defaults`;
* `ArgLayer` relates `args` to the command line and the argparse defaults.

`LayersGiveSetting` composes the three, setting by setting and kind by
kind (boolean, port, string), into the precedence of `Chosen`. TLC checked
`IInv` on the `config_layers` instance (6.4M states) before the proof.

## Only model-checked

* `RequestsAnswered` is a liveness property. TLAPS cannot prove liveness
  or reason about `ENABLED`.
* The promise's fairness part (`Promise!Spec`): it is liveness, and the
  host's side of it is `RequestsAnswered`.
* The violations (`ErrorReportsCause`, `ResetForcesReload`,
  `PortErrorOnlyFromEffectiveSource`, `StdoutCarriesOnlyFrames`). These
  are counterexamples, so there is nothing to prove.

## Not modelled, and why

* **The hosting code and the connection service.** They are not under
  `src/`. They are modelled only as far as the spec describes them.
* **Framing, JSON encoding and logging.** They are pure formatting and I/O.
  The model's frames and replies are records.
* **A raising `send_response`** (hazard at line 62). The write is taken to
  be atomic.
* **The `--input` file, log formatting, and the environment variables set
  for debugpy** (main lines 127-129, 137-142, 169-172). They are I/O with no
  effect on the control flow.
* **Package exports** (`hosting/__init__.py`, `utils/__init__.py`). They
  are imports only.
* **URN construction and `get_object_by_urn`.** These are read-only walks
  over the collections. Planned: a TLC-only module, because it needs
  recursion.
* **The lookup of an item by oid or name, and the content of the rows.**
  A collection is abstracted to a version.
* **`_property_generator` returning `None` for a dropped object** (line
  208). Dropped objects are not modelled.
* **The collation object** (`pgsmo/objects/collation/collation.py`). It
  imports `pgsmo.objects.node_object`, which is not in this repository, so
  its link to the modelled `get_nodes_for_parent` of
  `smo/common/node_object.py` cannot be read from the source. Its
  `_from_node_query` builds one object from a row and shares no state.
* **An exception from the debugging banner or `debugpy.configure`**
  (main lines 135-141). It would also reach the except branch and the
  listen on `port + 1`. `StartDebugger` takes the prints and the
  configuration to succeed; only `listen` fails.
* **`get_connection` returning `None`, and `logger` being `None` at
  scripting line 65.** The connection boundary is modelled from the spec,
  which has it return a connection or raise.

## Plan

1. `RpcHost`, its runs and proofs. Done.
2. `NodeCollections`: the lazy caches of `node_object.py`, with concurrent
   readers and refresh. Done: one finding (the reset race) and two
   theorems, the second stating what holds despite the race.
3. `ServiceConfig` and `DebugAttach`: configuration precedence, the
   startup checks and remote debugging of `main`. Done: two findings. With both debugging options
   given, `main` waits on the port of `--enable-remote-debugging`, not on
   the one `--enable-remote-debugging-wait` names (a hazard in
   `PROJECT.json`).
4. `ExactlyOnceReplies`, which `RpcHost` refines. Done: the safety part is
   proved, and the whole promise is model-checked.
5. Next: URN lookup over the collections (TLC-only, recursive), and
   composing `ServiceConfig` with `RpcHost`'s startup.
