# Sioux: a verification project

Sioux (`src/source/`) is a C++ library for HTTP servers that push data: a tree
of published *nodes* (`pubsub`), two protocols that carry their updates to
browsers (`bayeux` and `pubsub_http`), an asynchronous HTTP server (`server`,
`http`), a reverse proxy (`proxy`), a binding for Ruby's Rack (`rack`) and a
JSON library (`json`). This directory has TLA+ modules that model it, from the
bytes of a request to the Ruby application, the TLC runs that check them on
small instances, and proofs that TLAPS checks for every instance.

    tlc -workers 2 -config MCRoot.cfg MCRoot      # a run, see PROJECT.json "runs"
    tlapm RootProofs.tla                          # the proofs of a module

`PROJECT.json` lists the components, the runs, for every definition the lines
it models ("map"), for every property a mutation of the code that it detects
("mutants"), the hazards of the code, the disagreements that were found
("findings") and the theorems.

## 1. The system

| component | state | operations | talks to |
|---|---|---|---|
| `pubsub::root` (`root.cpp`, `subscribed_node.cpp`) | the nodes by name; per node a state, the data, a list of subscribers and one of users that wait for authorization | `subscribe`, `unsubscribe`, `unsubscribe_all`, `update_node`, the answers of the adapter (validation, authorization, initial value) | asks the *adapter* (the application) with call back objects, calls the *subscribers* (sessions) under the node's mutex, posts errors to the io queue |
| configurations (`root.cpp`, `node_group.cpp`, `key.cpp`) | the list of node groups with their configurations | `add_configuration`, `remove_configuration`, what a new node gets | root |
| `pubsub::node` (`node.cpp`) | data, version, the updates that lead to it from older versions | `update`, `get_update_from` | `json::delta` |
| `bayeux::session` (`session.cpp`) | buffered messages, the response that waits for them, ids of subscriptions that are not acknowledged | `subscribe`, `unsubscribe`, `events`, `wait_for_events`, `timeout`, `hurry`, `close`, `shut_down`, root's call backs | root, responses |
| `bayeux::connector`, `response` (`bayeux.cpp`, `response.*`) | sessions, how often each is used, idle timers | `handshake`, `find_session`, `idle_session`, `drop_session`, `session_timeout_reached`, `shut_down`; the messages of a request | sessions, `server::connection` |
| `pubsub::http::sessions`, `response` (`pubsub_http/`) | sessions with use counter and timer; per session stored updates and errors, the response that waits, the version the client has of every node | `find_or_create_session`, `idle_session`, `pending_updates`, `wait_for_session_event`, `wake_up`, `subscribe`, `unsubscribe`, `timeout_session`, root's call backs | root, `server::connection`, the browser client |
| `server::connection` (`connection.h`, `timeout.h`, `error.h`) | the pipelined responses, their blocked writes, read state, timers | `start`, `handle_read`, `async_write`, `async_read_body`, `response_completed`, `response_not_possible`, time outs | sockets, timers, responses |
| `server::server`, `acceptator` | acceptor, timer | accept, retry | connections |
| `proxy::connector`, `proxy::response` | pool of origin connections, limits, timers; forwarding state | get, release, connect and idle time outs; forward, restart | origin servers, `server::connection` |
| `http` messages and decoders, `server::transfer_buffer` | the buffer of a header and what was found in it, the rest of a body or chunk; the ring between origin and client | `parse`, `feed_buffer`, `decode`; data read, data written | connection, proxy |
| `rack` | queue of calls for the Ruby thread, the two threads | `push`, `process_request`, `stop`, `run`; requests, `publish`, the adapter's questions | Ruby, bayeux, `server` |
| `json` | values; the two stacks of the parser | parser, `to_json`, `size`, `delta`, `update` | pubsub, bayeux, the client |
| `pubsub_http/client` (CoffeeScript) | the subjects with versions and data, open requests | subscribe, unsubscribe, handle response, reconnect | pubsub_http |

What is hard in it: requests, timers, call backs of the adapter and of root run
in any thread of the io service; `root::subscribe` and the sessions work in
several locked sections, between which everything may change; responses are
held by plain pointers and reference counts at once; a timer that is cancelled
may already have queued its handler; `hurry()` acts once; destructors lock
mutexes, and run where the last reference happens to be dropped.

What makes the parts correct:

* root: nobody is forgotten, admitted without authorization, left with old
  data, or called back about something it has nothing to do with; one
  initialization per node;
* node: the updates handed out lead from the client's data to the current data;
* sessions: no lost wake up; every response that waits is answered exactly
  once; what the client is told is what root has; the client's version is the
  one the server thinks it has;
* connectors: no session is removed while it is used, every unused one is;
* connection: whole responses, in the order of the requests; whoever is ready
  is sent; an idle connection ends; the requests that are found in the stream
  are the ones that were sent, wherever the stream is cut;
* json: what is printed is parsed as the same value; a delta turns one value into
  the other, in the server and in the browser; its size is what was announced;
* proxy: the client gets the origin's answer, whole and once, or notices; a kept
  connection has nothing left of an earlier answer; no connection is lost;
* rack: no call back stays in the queue, whoever waits for the Ruby thread gets
  an answer, and `run()` returns.

## 2. Modules

| module | models | how |
|---|---|---|
| `Subscriptions` | what root promises to its subscribers | abstract; a user is called back only while it is on a list of the node or is owed an error |
| `SubscribedNode` | `pubsub::subscribed_node` | one operator per member function, which runs under the node's mutex; whether the node requires authorization is chosen at the beginning |
| `Root` (EXTENDS `SubscribedNode`) | `pubsub::root::impl`, the call back objects | `subscribe()` in three steps: look up (root's mutex), `add_subscriber` (the node's), the adapter's call (none); every answer, late or dropped, is an action; a second answer on one call back object is not modelled |
| `NodeNames` | `pubsub::key`, `node_name`, `node_group` | operators on sequences of keys |
| `Configurations` (EXTENDS `NodeNames`) | the configurations of root | the loop of `remove_configuration()` as it is |
| `Node` | `pubsub::node` | `delta()` by a constant table of updates and sizes, `remove_old_versions()` by these sizes |
| `JsonValue` | `json::value`, `to_json`, `size`, the order of values | a value is a pair of its type and its text or members; text is a sequence of characters |
| `JsonDelta` (EXTENDS `JsonValue`) | `json::delta()` with the A* search over arrays and the merge of operations, `json::update()` | recursive operators; sizes are the costs |
| `ClientUpdate` (EXTENDS `JsonValue`) | `PubSub.update()` of the browser client | recursive operator; a `RangeError` is a value |
| `JsonParser` (EXTENDS `JsonValue`) | `json::parser` | one operator per state; a parser is a record of its two stacks, so that a text may end anywhere |
| `HttpMessage` | `http::message_base`, request and response headers | a character is a token; the buffer has its limit |
| `BodyDecoder` (EXTENDS `HttpMessage`) | `http::body_decoder`, `chunk_decoder` | operators on a record |
| `FormEncoding` | percent encoding and the split of forms | operators on sequences of characters |
| `RequestStream` (EXTENDS `BodyDecoder`, uses `JsonParser` and `FormEncoding`) | the reading half of `server::connection`, with the body of a `bayeux` or `json` response | a stream of requests arrives in pieces of any size |
| `BayeuxSession` (EXTENDS `Subscriptions`) | `bayeux::session`, the responses that wait on it | one action per locked section |
| `BayeuxConnector` | `bayeux::connector`, life of a `bayeux::response` | a session is reduced to the response that waits on it; `shut_down()` holds the mutex over several steps |
| `PubsubHttp` (EXTENDS `Subscriptions`) | `pubsub::http::sessions`, `session_impl`, `response`, what the client does with an update | the mutexes that are held across calls (`mutex`, `held`) are state |
| `Connection` | the writing half of `server::connection`, time outs, `error_response` | the loop of `handle_read()` is several steps during which no other handler runs |
| `TransferBuffer` | `server::transfer_buffer` | the ring with its indices and the chunk parser, operators on a record |
| `ProxyConnector` | `proxy::ip_connector`, the pool | predicates on the pool's variables; connects, time outs and queued handlers are separate |
| `Proxy` (EXTENDS `ProxyConnector`, uses `HttpMessage` and `TransferBuffer`) | `proxy::response` | forwards the request, reads the answer while it writes it, restarts |
| `Rack` | `rack`: the queue, `run()`, the application's, `publish`'s and the adapter's calls; the accept loop and the shut down of `server` | two threads, one action per step between two waits |
| `RootProofs`, `NodeProofs`, `BayeuxSessionProofs`, `BayeuxConnectorProofs`, `PubsubHttpProofs`, `ConnectionProofs`, `ProxyProofs`, `RackProofs` | the theorems | each EXTENDS the module it is named after; see section 4 |
| `MC*` | the instances for TLC; `MCNode` composes `Node`, `JsonDelta` and `ClientUpdate` | |

`Subscriptions` is the joint between the parts: `Root` is proved to implement
it, and the session modules use its actions for everything root may do. They
are therefore checked against *every* behaviour of root and the adapter, and not
with a simplified one. `Connection` and `RequestStream` share `handle_read()`: the
former takes what is found in a header as a choice, the latter says what is
found; neither needs the other's detail.

Definitions named `..._xxx` with the comment *Mutant* are plausible errors; no
specification uses them. In `BayeuxSession`, `broken` marks undefined behaviour:
the release build is compiled with `NDEBUG` (`rakefile:50`), so that a failed
assertion does not stop it. `Aborted` in `Proxy` is a failed assertion, where the model
ends: in the same build the behaviour is undefined from there, and `ResponseEnds` says
nothing of the runs in which it happens (section 6).

### Abstractions

* Where the text does not matter (`Root`, the sessions), JSON values, names and
  messages are model values or records of what the properties tell apart. Where
  it does (`Json*`, `HttpMessage`, `RequestStream`), it is a sequence of characters
  or of tokens of a header. The byte limit of the Bayeux message buffer is reduced
  to the kinds of messages that are larger than all of it (`Large`).
* A `boost::asio` timer is running, or has expired with its handler queued, or
  is off; `cancel()` has no effect on a queued handler. `expire` is external.
* A write to the network ends in a step of its own, which may come at once,
  in another thread.
* `Connection` takes the handlers of one connection to run one at a time. The
  class has no lock; a server that runs its io service in one thread, as the
  Rack adapter does, has this, if sessions are not called from other threads.
* The width of `std::size_t` is the constant `MaxSize` in `BodyDecoder` and
  `TransferBuffer`. `JsonDelta` keeps the wrap of `max_size_ - costs` as what it
  amounts to, no limit.

### Assumptions on the environment

* One `subscribe()` per user and node is in progress at a time and
  `unsubscribe()` does not race with it (`root.h:31-35`).
* A *patient* client waits for the answer before it sends the next request. In
  `BayeuxSession` it is the constant `Patient`, in `PubsubHttp` the variable
  `patient`, chosen at the beginning; properties that need it say so.
* In run `bayeux_patient`, `MaxOpen = 1`: root has at most one question open about
  a session and a node (`OneOpen`; section 6 has what happens otherwise).
* In `BayeuxSession`, all messages of a request are for the one session; a form may
  have several fields with messages (`Forms`, `MaxFields`). `BayeuxConnector` has
  requests and forms for more than one session.
* In `BayeuxConnector`, `OneHandshake = TRUE`: a handshake is the first message
  of its request.
* In `Rack`, the adapter and the application raise no Ruby exception that leaves
  the call back; such a one jumps over C++ frames.

## 3. Runs

| run | shows |
|---|---|
| `root` | two users subscribe, unsubscribe and subscribe again to a node that does or does not require authorization, while the adapter answers or drops its call backs in any order: `OneInitialization`, `FreshSubscribers`, `AuthorizedOnly`, `WaitingIsPending`, the refinement `KeepsPromise`, and `WaitingAnswered` |
| `node_updates` | six versions of a node, with the updates that `delta()` finds: whatever version since the last change without an update a client has, the right ones are handed out (`UpdatesSinceGap`), the client and `json::update()` both rebuild the data from them (`ClientRebuilds`), and the costs the search adds up are the sizes of the texts (`SizesExact`) |
| `bayeux_session` | an impatient client that may subscribe again before it was answered, with two responses, one of them to a form with two fields: `TypeOK` (with the bound on the stored messages), `NoWaitWithMessages`, `NobodyForgotten`, `AnsweredOnce` (for a response that began one field), `AckCanCome` (unless the client subscribed again) |
| `bayeux_patient` | a patient one, and `shut_down()`. What was handed to a response counts, and a message that was dropped from the buffer does not: `AckedBeforeUpdate`, `ClientAgrees` (unless a later answer was dropped), `WaiterAnswered` |
| `connector` | two sessions, two requests with any messages, one of them a form with two fields, late timers, `drop_session`, `shut_down`: `PointersValid`, `WaitersHold` (unless a field follows the connect), `ReturnedWhenUnused`, `UnusedExpires` |
| `pubsub_http` | a client of `pubsub::http`, patient or not: `NoWaitWithEvents`, `SessionListed`, `AnsweredOnce`; for a patient one, which may leave a node and subscribe to it again, `InStep` (the updates on their way lead from the client's version to the one the server thinks it has) and `CatchesUp`, both but for a node of which the session knows a version that the client dropped (`stale`) |
| `pubsub_stuck` (violation) | a dead lock of two mutexes: finding 1 |
| `connection` | three pipelined requests: `InOrder`, `IdleEnds`, `BlockedServed` |
| `request_stream` | correct and broken headers, bodies by length, in chunks, as forms, cut at every place: the n-th response gets the n-th request and its value (`RequestsAsSent`), nobody waits for what has arrived (`NothingHeldBack`), the casts of the parser are right (`StackShape`), and what was parsed is printed with the announced size and parsed as the same value (`Reparses`) |
| `proxy` | two requests share one or two origin connections; a restart gives up its connection and asks for another in two steps, and may be refused: `SocketsHeld`, `IdleAtBoundary`, `WholeOrClosed`, and `ResponseEnds` for the runs in which no assertion fails |
| `rack` | three requests for the application, of `publish` or of the adapter, and a stop at any time: `NothingLeftBehind`, `RequestAnswered`, and `RunEnds`, which names the two ways in which `run()` does not return |
| `configuration_removed` (violation) | `remove_configuration()` removes another configuration or none: finding 2 |

### Bounds

* Two users and one node (`root`): every race in root is between two calls about
  the same node; calls about different nodes share only the map of nodes.
  `MaxOpen = 2` lets a late answer meet a newer question of the same user.
* `MaxVersion = 6` (`node_updates`): the list of updates grows, is cut from the
  old end, also to nothing, and grows again. The documents grow, shrink and
  change inside nested arrays and objects, so that every kind of operation, with
  the merged ranges, is found. There are arrays, objects and a string, so that the
  type changes, and the update of an object may be too large: both leave no update.
* Two responses (`bayeux_*`, `pubsub_*`): one waits, the other replaces it; the
  response objects of `PubsubHttp` are used again for later requests. One node;
  `MaxMessages` is 1 or 2, so that messages are dropped, acknowledgements included;
  in `bayeux_session` some kinds (`Large`) are larger than the whole buffer.
* `MaxIds = 2` and one form with `MaxFields = 2` (`bayeux_session`): a second entry of
  `subscription_ids_` can stay behind, and a response can be answered by its second field
  while it waits because of the first. In `bayeux_patient` both are 1: a patient
  client does not subscribe twice, and two fields would be requests that it did not
  wait for. `MaxFields = 2` in `connector`: a field after the one with the connect.
* Two sessions, two requests (`connector`): a request may change from one
  session to the other while another request uses either. `MaxQueued = 2`
  handlers of one timer, `MaxUses = 3`.
* `MaxVersion = 3`, `MaxPending = 2` (`pubsub_http`): two updates are stored, or one
  is stored and one on its way. `MaxReturns`: a patient client subscribes once more to a
  node that it left, an impatient one, of which only properties without versions are
  claimed, does not. At most one handler of a session's timer is
  queued.
* Three requests with up to two writes each (`connection`): a response in front,
  one behind, and one between.
* One or two requests (`request_stream`): what is left of one body is the
  beginning of the next header. A header buffer of 24 tokens is too small for one
  of them; a body buffer of 8 is smaller than most bodies.
* A ring of three characters and bodies of four, or chunks (`proxy`): it is full,
  empty and wraps within one answer. One restart is allowed, two can be
  needed. With a limit of one connection the other request can take the place that a
  restart gives up.
  Packets end at the places given with each answer.
* Three requests (`rack`): one runs, one waits, and one comes while the Ruby
  thread leaves.

`CHECK_DEADLOCK FALSE` is set where it is legitimate that nothing is left to do:
a session or connection that has ended, a stream that was read, a stopped server.

### Fairness

* `Root`: the adapter answers each call back or drops it, and the destructor of
  a dropped call back answers; threads that are in `subscribe()` go on; posted
  calls run.
* `BayeuxSession`, `BayeuxConnector`, `PubsubHttp`: threads of requests go on,
  writes end (they have a time out), timers expire and their handlers run. The
  patient client of `PubsubHttp` polls, as the browser client does. Nothing is
  assumed of the adapter or the data.
* `Connection`: a response that was hurried answers (its own poll time out makes
  it), one that began to write goes on, `handle_read()` returns, and the handler
  of a write is run even if reads come in between (strong fairness: the io queue
  is served in order).
* `Proxy`: no operation of a response is pending for ever, since connects, reads
  and writes time out; that they ever succeed is not assumed. Timers expire,
  posted call backs run, and a thread between the two halves of `restart()` goes on.
* `Rack`: both threads run, call backs return, and handlers that the I/O thread
  can run between its waits are run (strong fairness: its queue is served in
  order). Nobody has to connect, to close a connection or to interrupt.

## 4. Proofs

All theorems are for any sets of users, nodes, values, sessions, responses and
connections; bounds are natural numbers. The constants' assumptions say no more
than this, that "none" is none of them, and where something is counted that it
is finite: the responses of `PubsubHttp` (`HttpAssumption`), the connections of
`ProxyConnector`, of which there are as many as any of the `Limits` allows (`PoolAssumption`). The
origins of `Proxy` speak HTTP (`AnswersAssumption`, explained below).
Every inductive invariant was checked by TLC on the run's instance before it
was proved. Two theorems about the sessions have a hypothesis besides the
specification, which the text below explains.

* `RootProofs`: `IInv` is the conjunction of `TypeOK`, the safety properties of
  run `root`, `ErrorStatesEmpty`, `ValidationAssertions`, and what makes them
  inductive (`Lifecycle`): only a listed node leaves its initial state; the call
  that created a node is the only one that carries its validator, and the node
  stays unvalidated until that validator is answered; a call that found a node in
  an error state adds its user to a node in an error state. `FreshSubscribers` and
  `OneInitialization` are needed for each other: data is only delivered, and the
  initial value only stored, because there is one initialization. `StateOrder`
  (an action property) follows from `IInv`. The last part is
  `Spec => KeepsPromise`, the refinement of `Subscriptions`, with
  subscribers and unauthorized as the two lists and `owed` as the sum of posted
  errors and refusals in progress. Besides `IInv` it needs `NoDataYet`: somebody
  was told an update only if the node is initialized, so that a node that fails
  has not told anyone.
* `NodeProofs`: `Aligned`: update k of the list leads from the data of version
  `version - Len(updates) + k - 1` to the next, if that version is not before `gap`,
  the version that the last change without an update led to. Updates from before
  stay in the list, and nothing is known of where they stand (section 6). Nothing
  is assumed of the values.
* `BayeuxSessionProofs`: `HInv`: every blocked response is in exactly one pair of
  hands (`http_connection_`, or the thread that replaced it) as long as it has begun
  one field, from which `AnsweredOnce` follows; `NobodyForgotten` holds for forms, too.
  Steps are first reduced to the few kinds that touch responses at all. `TInv` adds the
  types, with the bound on the stored messages. `AInv`: a node that the client did not
  subscribe to again has at most one id (`Single`); who is about to leave a node does
  not wait for its acknowledgement; and while an acknowledgement is waited for, the
  call to subscribe is in progress, the session is on one of root's lists or an error
  is owed to it, unless the session ended. So it can come (`AckCanCome`).

  `PInv` relates what a patient client will have been told of a node when the stored
  messages are handed over (`Told`), and what root has (`Agrees`); a dropped answer
  makes it `lost`. With at most one question open per node (`OneOpen`)
  `AckedBeforeUpdate` and `ClientAgrees` follow. What dropping and appending do to what is
  learned from a sequence of messages is proved apart (`LearnedAfter`,
  `LearnedDropped`). `OneOpen` is a hypothesis, since it is root and the adapter that
  keep questions open; `OneThingOpen` proves it from `MaxOpen <= 1`, so that the theorems
  hold without it for the instances of run `bayeux_patient`.
* `BayeuxConnectorProofs`: `CInv`: `use_count_` is at least the number of the
  responses that point to the session (equal with `OneHandshake`), with `FInv`,
  the stages of responses and of the fields of a form: who waits on a session uses
  it, or went on to another field. Each action takes, returns, creates, loses or removes
  a use, and one lemma covers each of these.
* `PubsubHttpProofs`: `HInv`: `use_counter` is the number of the responses that use
  the session (`Counted`), a response is `connection` only while it waits, and nobody
  waits while there are events; `NoWaitWithEvents`, `SessionListed` and `AnsweredOnce`
  follow from it, for patient and impatient clients. `VInv` is about versions: a
  patient client has one request in flight, nothing is known about a node before
  the first subscription or after the last one ended, unless it is `stale`, and (`InStep`) the updates of a node, the ones on their way
  and then the stored ones, lead from the client's version to the one in
  `node_versions`. Each step is first reduced to what it does with the updates
  (`Flow`): nothing, to store one or an error, to hand them to a response or bring them
  to the client, to begin or end a subscription. `UpdatesApply`
  holds for any number of returns to a node.
* `ConnectionProofs`: `PInv`: while the connection is open, the list is a run of
  consecutive requests up to the last one that was read, only the first of them
  writes or has written, and the wire ends just before or with it; `InOrder` and
  `FrontNotBlocked` follow. It says nothing of a closed connection, which is never
  opened again and on which nothing is sent (`ClosedKeeps`). `TInv` adds, for
  `IdleEnds`, when `no_read_timeout_set_` is TRUE and that a body is read only for
  the last response, which did not write yet.
* `ProxyProofs`: `PInv`: a connection is in one place of one list; a response that
  restarts or waits for a connection has none, waits for one, and has nothing else pending; a
  response that has something pending has a connection, reads only while the body
  is not complete, and can be restarted only while nothing of the answer was seen
  (`Sound`); every connection in use is held once (`Held`). `Sound` is needed because a
  response gives its connection back when its last handler ends: a read that is
  still pending then would go on with a connection of the pool. `SocketsHeld`
  follows, and `PoolLimited`: the pool never exceeds `max_connections()`. That a restart
  finds room is not claimed: somebody else may have taken it.

  On top of `PInv`, `SInv` is about the characters: every response is at a place of
  its answer (`AllStreams`), and only a connection that a response has may still have
  something to send (`OriginHeld`). While the header is read, the parser's state is
  the one it would have if the header so far had come in one piece (`Receiving`);
  afterwards what the client has got, the header that is on its way, what is left
  of the header's buffer, the content of the ring and what the origin has still to
  send are, one after the other, what the client is to get, and the pending read
  and write are at places of the ring where they disturb nothing (`Flowing`).
  `WholeOrClosed` and `IdleAtBoundary` follow (`AnswerWhole`, `IdleEmpty`; a response that was
  taken off its connection has nothing to tell, `GivenUp`), for any answers, packets, and sizes of the header's buffer and of the ring.

  It rests on three parts that are independent of the responses. The ring:
  `RingAppend` and `RingDrop`, a read appends to its content and a write takes from its
  front, wrapped around or not. The header parser: `HeaderInPieces`. The chunk parser:
  `ChunksSplit`. The last two are about functions defined by recursion. The library's
  induction theorems cannot be used, but that every set of natural numbers has a
  least element can (`LeastNat`): the numbers for which the claim holds are a set
  that has 0 and the successor of every member (`AllNumbers`), so they are all.
  Both parsers are also shown to be well defined that way.

  `AnswersAssumption` is what is asked of the origins: an answer with a header that
  is understood has no more characters than its header announces, its chunks are
  well formed, and `forward` is the filtered header and the body. Nothing is asked of
  an answer with another header, of where an answer stops too early, or of where
  packets end. TLC evaluates the assumption for the answers of run `proxy`. Without
  it `IdleAtBoundary` would be false: the characters an origin sends beyond the end of
  a body stay in the kept connection.
* `RackProofs`: `RInv`: where every request is (queue, list that was taken out,
  call back, waiting I/O thread), that the queue is empty and stopped once the Ruby
  thread has left its loop, and that it sleeps only with an empty queue. From it
  `NothingLeftBehind` (the response of an accepted request that did not end is lost,
  and its client has gone before `run()` returns), that no notification is lost, and that a
  `publish()` that is abandoned after the stop stays so and `run()` does not return.

`TypeOK` of `Root`, of `PubsubHttp` and of `Rack`, `ErrorStatesEmpty`,
`ValidationAssertions`, `StateOrder`, `FrontNotBlocked`, `WithinLimit` and
`SleepsIdle` are proved and have no run of their own.

Only model checked: all liveness properties (`WaitingAnswered`, `WaiterAnswered`,
`UnusedExpires`, `CatchesUp`, `BlockedServed`, `ResponseEnds`, `RequestAnswered`,
`RunEnds`), which are out of the prover's reach; what recursive operators compute
(`ClientRebuilds`, `SizesExact` and the properties of `request_stream`): `JsonValue`,
`JsonDelta`, `JsonParser`, `FormEncoding`, `BodyDecoder`, `ClientUpdate` and `RequestStream` use
`RECURSIVE` operators, which take the SMT backend from every module that uses them.

## 5. Findings (runs with a counterexample)

1. `pubsub_stuck`: `unsubscribe()` holds the mutex of `sessions` and waits for the
   node's; a call back holds the node's, drops the last reference to a response
   and waits in its destructor for that of `sessions` (`sessions.cpp:358`).
2. `configuration_removed`: the loop of `remove_configuration()` has an inverted
   condition (`root.cpp:39`): the first configuration of *another* group is erased,
   or an exception is thrown.

## 6. Other disagreements met while modelling

These have no run of their own; the models contain the behaviour unless it is said
that they do not, and the properties say where they exclude it.

*pubsub*
* A user that is authorized before the node was validated, on a node where nobody
  else waits, never hears anything: nobody requests the initialization
  (`subscribed_node.cpp:308`; `root.h:69`).
* A change without an update leaves the older updates in the list, which are then
  handed out for the wrong versions (`node.cpp:292-294`; `node.h:177`). It has two causes:
  the type of the data changes, or the update of an object is larger than is kept.
  The model has both; `UpdatesSinceGap` and `ClientRebuilds` speak of the versions since
  the last such change.
* `update_node()` can be overtaken by an older initial value
  (`subscribed_node.cpp:334`, `root.h:87`).
* The second subscriber of an unvalidated node is handed to `authorize()` at once
  (`root.cpp:103`); `root_test.cpp:418` says it is held until the validation.

*bayeux*
* A form is handled field by field (`bayeux/response.h:340-383`). When a connect in one
  field waits, the next field that ends without one starts the timer again, or, if
  the connect found messages, the response is written after each field: several
  answers on the wire for one request. `AnsweredOnce` says nothing of a form whose second
  field was begun. Messages of the second field may return the session on which the
  response waits (`response.h:317-376`; `WaitersHold` leaves it out), or leave the
  response without any when the field ends or its timer expires, which is then used
  (`null_session`, where the model ends).
* A client that subscribes again before it was answered has two entries in the
  multimap `subscription_ids_` (`session.cpp:88`). A call back takes one (`session.cpp:202`,
  `:354`), and the other one may stay until a later update or error takes it for its own:
  `doubled`, which `AckCanCome` leaves out.
* The buffer drops the oldest messages first, the acknowledgement of the update that
  was just added included (`session.cpp:361`). The client then gets the update
  without it, or, if it waits for its answers, waits for ever: `lost` in `known`.
* A second error call back for one subscription finds no entry
  (`bayeux/session.cpp:349`, an assertion).
* When two questions about one subscription are open at root (the client
  subscribed, unsubscribed and subscribed again), one answer can admit the client
  and the other refuse it: it is then told that it is not subscribed and
  still gets updates. `OneOpen` excludes it; it is the same missing bookkeeping as in the
  line above.
* A request with two handshakes loses the first session (`bayeux/response.cpp:151`,
  `bayeux.h:107`).
* `bayeux::connector::shut_down()` can lock its own mutex twice (`bayeux.cpp:164`).
* A stale timer of a replaced response ends the waiting of the next one
  (`bayeux/session.cpp:136`); in `pubsub_http` it removes the next one from
  `connection_` without answering it (`sessions.cpp:95`), which is `~WaiterKnown`.
* `find_session()` does not cancel the timer (`bayeux.cpp:186`, `bayeux.h:118`).
  Connects still block after `shut_down()` (`bayeux.cpp:34`, `bayeux.h:145`), which
  cancels the timers of idle sessions (`bayeux.cpp:224`).
* `node_channel.h` promises that `channel_from_node_name()` inverts
  `node_name_from_channel()`; with ten sections "p10" sorts before "p2"
  (`node_channel.cpp:20-37`, not modelled).

*pubsub_http*
* A client that leaves a node and subscribes to it again, as the browser client
  does after every mismatch of versions (`pubsub.coffee:85-87`), may get updates for data
  that it dropped. There are three causes: a call back between the erasing of the
  version and `root_.unsubscribe()` stores the version again (`sessions.cpp:356`); updates
  of the earlier subscription are still stored; and an error, after which the client
  drops the node, does not erase the version. In the model the node is then `stale`;
  `InStep` and `CatchesUp` leave it out until it is unsubscribed again.
* A client whose every request has an erroneous command never gets its stored
  updates (`pubsub_http/response.h:124`).
* `wait_for_session_event()` under the mutex of `sessions` can hurry a response
  whose `wake_up()` locks it again (`sessions.cpp:320`, not modelled).

*server and http*
* `connection.h:439` issues blocked writes without the time out that
  `connection.h:78` promises, and without noting that data is sent: an error
  response may then follow the first part of the response (`connection.h:506`).
* After an error the connection is closed, but blocked writes of the other
  responses are not cancelled (`connection.h:494`, `connection.h:141`).
* `body_decoder::start()` does not reset `chunked_` (`body_decoder.h:72`), although it
  is to prepare the decoder for a new body (`body_decoder.h:26`): after a chunked
  body, one with a length on the same connection is read as chunks. `Framed`
  excludes it.
* A body nobody reads is parsed as the next request (not modelled); the end of the stream is
  taken for the end of a body, which `RequestsAsSent` allows for a form.
* A form is percent-decoded before it is split, so that an encoded `&` splits it;
  text after a JSON value is ignored, but when it comes in a piece of its own an
  assertion fails (`message.cpp:100`, and `parse()` on a completed parser).
* Objects are parsed leniently (a missing or trailing comma).

*json*
* Merging an `update_at` or `delete_at` inside an `update_range` changes its first
  value, since the index is `position() - position()` (`operations.cpp:473`, `:510`;
  `operations.h:41`); `delta()` does not reach it.
* An object's delta may be cut at the size limit and still be accepted
  (`object_delta.cpp:16`); `remove_old_versions()` drops such an update at once.
* `update()` changes a value that may be shared (`update.cpp:79`, not modelled).

*proxy*
* A response has two operations pending, the read from the origin and the write to
  the client, and each reports its error. When the second one fails or goes on after
  the first, `response_not_possible` comes twice (`connection.h:471`, an assertion), or a
  response is written that is not in the list any more (`connection.h:367`): `Aborted`.
  A broken origin is enough for it. Without assertions the behaviour is undefined;
  `ResponseEnds` says nothing of those runs.
* A restart may be refused by a full pool although it just gave up a connection: it
  dismisses it (`connector.h:272`) and asks for another (`connector.h:194-202`) in two
  locked sections. The exception leaves the handler of the read or the write, whose
  guard answers the client with an error; it ends in the thread that runs the io
  service, which has to catch it (as `rack/bayeux.cpp:162` does, and logs it).
* When the body has no length, its end closes the connection although buffered
  data was not written.
* Idle connections count against the limit (`connector.h:196`); a queued idle time
  out closes a connection that was used and returned meanwhile
  (`connector.h:373`); a body of length 0 dismisses a connection that could be kept.

*rack*
* `publish()` at or after the stop waits for a result that nobody produces, since
  the result of `push()` is ignored (`rack/bayeux.cpp:324`, `ruby_land_queue.h:54`):
  `run()` then hangs, which is `Abandoned`.
* A response to a rack request that is discarded at the stop neither completes nor
  reports an error. Its connection keeps a pointer to it in `responses_`, so that
  its pending read has no time out (`connection.h:577-580`, `:614-623`) and `run()` does not
  return while the client keeps the connection open: `Lingers`. When the client
  closes it, the assertion in the connection's destructor fails (`connection.h:288`),
  which the model does not show.
* Not modelled: the Ruby thread clears the list of actions while the I/O thread may
  search it (`response_factory.h:148`).

*client*
* After a version mismatch the client subscribes again, but has removed the
  subject from its list before, so that the data it then gets is dropped
  (`pubsub.coffee:112-114`, not modelled).

## 7. Not modelled, and what is next

Next, in this order:

1. `Root` and `BayeuxConnector` in one module with the locks as state, for the
   hazard at `subscribed_node.cpp:189`;
2. the nested JSON values as functions on the paths to their parts instead of
   recursive operators, so that `ClientRebuilds` can be proved;
3. the exception for a chunk of a wrong form, which leaves the handler of the
   read (`transfer_buffer.h:290`).

Not modelled:

* the browser client's list of subjects and its reconnects: a second program, in
  CoffeeScript; what it does with the updates is;
* several threads in one `server::connection`, which has no lock and does not
  promise to allow it;
* the shared ownership of JSON values, their visitors and iterators; conversions
  between JSON and Ruby values; `decode_stream`, which only tests use;
* tables and getters: names of headers and MIME types, configurations of `bayeux`
  and `proxy`, URIs, session ids, node channels;
* logging, `file` and `logging_adapter` (one call, one call), `tools`, `asio_mocks`
  and the test programs, and `cluster` (a comment). They keep no state that several
  actors share.
