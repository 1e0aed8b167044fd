# Verification of the Sigtran stack

`src/` holds two C programs. **sigtranStack** is an SMS centre's signalling
node: it connects over SCTP to an M3UA peer, brings the association up, and
receives SS7 traffic. **sigtranSimulator** plays the peers it needs: an M3UA
client or server, with canned SCCP/TCAP/MAP messages, and a SUA client. This
directory holds TLA+ models of their protocol logic, the TLC runs that check
them and the TLAPS proofs about them.

## Inventory

| Component | State | Operations | Interacts with |
|---|---|---|---|
| M3UA handshake, SG peer (`m3ua_handshake.c`) | `host_state`, `peer_state`, `routing_context` of the `m3ua_as` | `m3ua_sg_handshake` | gateway, over the control stream; node life cycle |
| M3UA handshake, ASP peer (`m3ua_handshake.c`; simulator `sctp_m3ua.c`) | both ends' host and peer states | `m3ua_asp_handshake`, `do_asp_handshake` | each other |
| Node life cycle (`start.c`, `smsc_rear.c`, `route_logic.c`, `m3ua_nodes.c`) | the shared `m3ua_as` (`msg_ptr`, `message_type`, `host_state`), `num_routes` | `smsc_connect`, `register_route`, `m3ua_do_audit`, the worker's `m3ua_recv_data` and `m3ua_aspsm_hdlr`, `shed_connections` in a signal handler | two threads and a signal handler over one struct, no lock |
| M3UA messages (`m3ua_headers.c`) | heartbeat sequence number | `create_m3ua_msg` and the builders | called by all of the above |
| Sockets (`socket_layer.c`) | one SCTP socket, 60 s receive timeout | `send_m3ua_msg`, `recv_m3ua_msg`, `create_socket` | kernel |
| Route resolution (`route_logic.c`) | `route_nodes[10]`, `num_routes` | `register_route`, `resolve_route` | codecs, node life cycle |
| Storage (`storage.c`, `storage_memcached.c`, `storage_mysql.c`) | callback table, three memcached servers or one MySQL connection, the caller's buffer | insert, update, select, get, append, delete, `dlr_call` | external servers |
| Codecs (`sccp.c`, `tcap.c`, `map.c`, `common.c`) | the caller's `sccp_params`, which is never cleared | frame and parse | route resolution, senders |
| Simulator client (`sctp_m3ua.c`, `parse_message.c`) | place in `main`, buffer, transaction ids, `DA_MSISDN`, `msqlHandle` | `do_sg_handshake`, SRI and MO exchanges | gateway, server, MySQL |
| Simulator server (`sctp_m3ua.c`, `parse_message.c`, `caching.c`) | `msqlHandle`, two tables | the branches of `parse_message` | client, other nodes, MySQL |
| Simulator SUA (`sctp_sua.c`) | handshake state | `sua_connect` | SUA peer |
| Simulator builders and logging (`m3ua.c`, `sccp.c`, `tcap.c`, `sua.c`, `util.c`) | none | byte layout, log lines | |

What is hard here, and what makes each component correct:

* **Handshakes.** Every receive may time out, bring a heartbeat, or bring the
  right message at the wrong place of a `switch`; nothing is ever sent again.
  Correct means: an end takes itself for active only when its peer does; it
  comes to rest; with a well-behaved peer it completes.
* **Shared struct.** Worker and signal handler set `msg_ptr` and read it again
  later. Correct means: a signal ends the process, having told the gateway; no
  data is lost or returned twice; received ASPSM messages are handled.
* **Storage.** A write is several round trips, any of which may fail before or
  after it took effect; the buffer of a call is consumed by it. Correct means: a
  reader finds the old value, the new one or its beginning, and a call that says
  it succeeded did.
* **Transactions.** Answers carry no more than their type, a database that fails
  under way, an end that crashes. Correct means: the answer taken is the answer
  to the request, every request is answered, what is acknowledged is stored.
* **Receiving.** One structure is read into again and again, one table searched
  while it grows. Correct means: nothing of an earlier message is taken for this
  one, and a node found is a node that matches. Much of that is not so, and the
  properties say exactly what is so instead.

`PROJECT.json` lists each hazard at its line with the properties that watch it.

## Modules

| Module | Models |
|---|---|
| `M3uaCommon` | the two state enumerations as the numbers the compiler gives them (they share a union), messages as records of the fields handlers look at |
| `M3uaPeering` | the abstract promise: an end is seen down, then inactive, then active, and finishes once, while it is seen active |
| `SignallingGateway` | the peer outside the repository: acknowledges, owes a NTFY after it, may beat; parameters say what its NTFYs contain |
| `M3uaSgHandshake` | `m3ua_sg_handshake`, one action per send or receive of a case |
| `M3uaSgHandshakeProofs` | its theorems |
| `M3uaCommonProofs` | lemmas: which messages are on a stream, and how many of a kind |
| `SignallingGatewayProofs` | lemmas: what each step of the gateway does to the streams |
| `M3uaAspHandshake` | `m3ua_asp_handshake` and `do_asp_handshake` against each other |
| `M3uaAspHandshakeProofs` | its theorems |
| `M3uaNode` | extends the handshake to the life of the process |
| `M3uaNodeProofs` | its theorems, which extend those of the handshake |
| `KeyValueStore` | the abstract promise of a message store |
| `StorageParams` | the caller's buffer, cut up by `parse_params`; the call in progress |
| `StorageMemcached`, `StorageMysql` | the two back ends |
| `Storage` | composes them under `storage.c` and the program that calls it |
| `StorageProofs` | its theorems |
| `SmsCommon` | TCAP messages as type, transaction and receiver; `gsmsc_tcap_query` |
| `SmsClient`, `SmsServer` | the simulator's two roles |
| `SmsTransactions` | composes them with the gateway and the network between |
| `SmsTransactionsProofs` | its theorems |
| `TcapMessages` | what each builder frames, tag by tag, and how far the parsers get: operators only |
| `RouteLogic` | the table of routes and the searches in it |
| `SccpReceiver` | composes both: analyse a message, resolve its called party |
| `SccpReceiverProofs` | its theorems |
| `MC...` | values for the constants |

Definitions headed *a mutant* belong to no specification: each is a slip a
programmer could make in the definition that follows it, and the property named
in `PROJECT.json` fails when it takes that definition's place.

### How the code corresponds

* A handshake is a `while` over a `switch` on `host_state`. `host_state` is the
  place in the code; `nth` says which of a case's two receives comes next. A
  `memset` and `m3ua_recv` leave `Buffer`: the head of the stream, or
  `NoMessage` (a zeroed buffer, class MGMT and type ERR) when the 60 seconds of
  `set_recv_timeout` pass with nothing to read.
* In `M3uaSgHandshake` all that follows a receive, up to the next receive,
  belongs to its action. `m3ua_send` may fail and nobody looks
  (`MaxSendFailures`).
* `as_node` comes from `malloc` and is not cleared: `peer_state` starts with any
  value, `routing_context` as `"garbage"`.
* In `M3uaAspHandshake` the stack's two receives are two actions, since the
  simulator runs between them. The simulator writes its answer into the buffer
  it goes on testing: `SimRecvUp` therefore sets both of its states.
  `m3ua_send` succeeds there: the association is up throughout.
* In `M3uaNode` an action is one access to a shared field. `pc[t]` is the place
  of a thread, `buf` the four buffers on the two stacks, `msg_ptr` the buffer
  `as_node` points to, `target[t]` the one a thread has handed to a blocked
  `sctp_recvmsg`. `Build`, `Transmit`, `Forget`, `Call` and `Received` are the
  sending and receiving both threads do; the handler's steps are those of
  `m3ua_send_inact` and `m3ua_send_aspdwn`, told apart by `leaving`. The message
  length is abstracted, class and type of a message are one field, and the
  handler runs on the main thread, to which the kernel delivers a process's
  signals first; a signal may interrupt the handler as well.
* In `Storage` an insert into memcached is one action per round trip, with three
  outcomes: stored, stored but not confirmed, refused. Other calls are over in
  one action. The program may repeat a call that answered 0 with the buffer it
  has. A MySQL table is a set of rows; `Query` says when a statement has an
  effect, and no call looks at that. What `insert_mysql_table` returns, having no
  `return`, is either value.
* In `SmsClient` `at` is the receive or send `main` is at. `message` is the one
  buffer of the handshake: a receive on a lost association leaves it as it is,
  and the code tests it again. A statement is `gsmsc_tcap_query`, whose failure
  closes the connection and opens another, or none. A result set that nobody
  fetches is `"pending"`. The wire is abstracted to type, transaction and
  receiver; that an SRI acknowledgement never yields an IMSI, that the END of an
  MO acknowledgement carries no opcode at the place looked at, and that the first
  test of `parse_message` knows BEGIN and END only, follow from the offsets.
* The client writes its SRI, and no other message, with a network appearance
  (`m3ua.c:193`): eight bytes that move its TCAP part from [62] to [70]. Such an
  SRI is `"SRI_NA"`. `parse_message` tests [62], finds a byte of an address and
  returns 0; the server logs that and goes on (`ServeShifted`). The loop of the
  client waits without a timeout. A node between the two may write the M3UA
  header anew, without the network appearance; nothing in `src/` says whether one
  does, so `Relayed` takes either, and the transactions that get any further are
  those of such a network.
* In `SmsServer` one action is one pass of the server's loop: nothing runs
  between its statements but the database, and that may fail at each.
* In `TcapMessages` a message is the list of tags a parser meets. A parser is the
  list of tags it wants, and stops at the first that differs (`Accepted`); the
  fields it has written by then are those of the tags before (`Fields`). Lengths
  matter in two places: the two-byte length of the simulator's forwarded
  messages, whose first byte stands where a tag should, and the component
  portion, which must be one component long (`parts`).
* In `SccpReceiver` `called_pty` and `tcap_param` are the fields of the
  `sccp_params` that `th_process_sccp_msg` declares; its loop, which is under
  `#if 0`, is `Analyze` and `Resolve`. `pc` is the first byte of the point code:
  all that `strcmp` distinguishes from a registered one. A title of fifteen
  digits is read as sixteen and ended behind them, in the low byte of `ssn`,
  which is then 0. `appl_context` is seven bytes: a context is copied over the
  one before, as long as it is, and never ended (`Copied`). A call without a
  prototype (`parse_map_message`) leaves two outcomes, as its comment says: the
  opcode goes `beside` the structure, or the program crashes. Either way the
  caller's `map_params` is never written, so it is no variable.

## Runs

| Run | Shows |
|---|---|
| `sg_any` | With a gateway that says anything, late, behind heartbeats, and a failed send: no early completion, a truthful `peer_state`, rest, `M3uaPeering`; and that losing one's place is for ever (`LostPlaceIsForever`): nothing is sent again. |
| `sg_prompt` | With a gateway that serves this ASP alone and sends each NTFY right behind its acknowledgement the handshake completes, with the assigned routing context, whatever timeouts and heartbeats come. |
| `sg_shared_as` (violation) | When the AS is active already the NTFY does not say AS_INACTIVE and ASP_ACT carries an uninitialised context. |
| `asp_handshake` | Both ends complete for every way timeouts shift the stack's pairs of receives; they agree; nothing is left unread. |
| `asp_order` (violation) | The simulator activates before its ASP_UP was acknowledged. |
| `node` | Startup, worker, a heartbeat, a data message, a signal at any moment, in every interleaving. |
| `node_heartbeat` (violation) | The first heartbeat kills the node at the message after it, or at the timeout. |
| `node_signal` (violation) | A signal during the handshake exits without a word to the gateway. |
| `storage` | Five calls to either back end with every failure: memcached implements `KeyValueStore`; no row of MySQL brings two requests together in the columns updates list late; a SELECT ends all writing. |
| `sms` | Client, server, gateway and network, with a failing database, stray reports, a heartbeat, a lost association, and an SRI that arrives as it was written or anew: the safety of a transaction, when it completes, and that one that has lost its way never does. |
| `receiver` | Any sequence of messages of both programs and of other nodes into one structure, resolved while routes are registered. |
| `route_lost` (violation) | `resolve_route` reports success and the caller has no node. |

**Bounds.** `MaxBeats` is 2 in `sg_any` (one before each receive of a case, so
that every place is hit, and two in a row), 4 in `sg_prompt`, 1 in `node`: there
a second one finds the node dead. `MaxSendFailures` is 1 where sends fail: a
handshake sends three messages and a lost one stops it; in `node` none fails.
`MaxData` and `MaxSignals` are 1: the worker has no memory between two data
messages, and the handler does not return; the theorems are for any number. The
streams are bounded by what is sent.

`MaxCalls` is 5 in `storage`: a call, a second that meets what it left (a value,
a row, a cut buffer, an unread result), three that show it lasts. Its five buffers
have one to three parts, so that a first, a middle and a last round trip fail,
share keys, so that one updates the row of another, and name a table that is
unreachable and one that does not exist. A call with a cut buffer ends the
program (`MayRetry`, `Fault`); no property restates that.

In `sms` `MaxAttempts` is 3 (one that sends, one that fails on what it left, one
that sends again), one statement fails, the association is lost, two reports come
from other nodes and one heartbeat. There are two receivers, one of them Indian:
the server crashes on that one.

In `receiver` there are two nodes, so that there is one that is not the first, two
transactions, one subsystem, six addresses that have each part with and without
the others and five payloads: what ends each branch of the parsers, and a context
that is one byte short. `MaxRoutes`
may be 9 at most in `RouteAssumption`: the tenth registration makes a search
read past the array. Addresses and payloads vary one at a time: they are read by
different code into different fields.

**Fairness.** Weak, of each thread's steps: the scheduler runs both. In
`M3uaSgHandshake` a receive is fair only when there is something to read, so no
property relies on a timeout; in `M3uaAspHandshake` and `M3uaNode` it is fair
always, as `SO_RCVTIMEO` ends every receive of the stack within 60 seconds, and
the pair (ASP_ACT_ACK, nothing) needs that. The simulator sets no timeout: its
receives are fair when a message is there. The gateway answers what it gets;
heartbeats, data and signals are never owed. `SgAnswer` and the threads' steps
stop when the process has ended. In `sms` client, server, gateway and network are
weakly fair; failures, strays, heartbeats and the loss are not, and a failing
statement is a choice within a step. `storage` and `receiver` state no liveness:
the caller decides what happens next. `receiver` may stop, when it crashed.

**What holds only in part.** `SaysGoodbye` says that an idle node with a route
gets at least one of ASP_INA and ASP_DOWN out. It is not true of both, as the
worker may enter `m3ua_recv_data` between the handler's setting of `msg_ptr` and
its send; and it is not true of a busy association, as a worker blocked on the
handler's send buffer overwrites it with what arrives. `OneTransaction` holds
although nothing compares transaction ids: the client sends one message at a
time and has no timeout; with a timeout and a retry it would not.
`ClientCompletes` has the loss of the association as its other outcome, and
`RequestIsAnswered` a crash of the server as well, and an SRI handed on as it was
written: `SilenceLasts` says that the client then waits for ever.
`WholeDialogueIsItsOwn` is about the bytes of the context a message has: behind a
shorter one than the last the bytes of the last remain, and a reader who compares
all seven is misled. Properties such as `EveryOtherAttempt`, `NeverReported`,
`OnlyTheFirst`, `TitleHidesPointCode`, `SilenceLasts` and `RowsAreNotMixed` state
what the code does and a user may not expect; they, or the guarantee they leave,
change as soon as the code is mended.

## Proofs

Every invariant and action property of the passing runs is proved, and every
refinement, for every value of the constants. The theorems rest on the named
assumptions about constants, which TLC evaluates too, and two of them on a
hypothesis of their own, given below.

**The gateway handshake** (`M3uaSgHandshakeProofs`; `GatewayAssumption`,
`SendAssumption`: any heartbeats, failed sends and NTFYs): `TypeOK`,
`CompleteOnlyWhenActive`, `PeerStateTruthful`, `ActCarriesContext`,
`LostPlaceIsForever`, and that `Spec` implements `M3uaPeering`.

* `CompleteOnlyWhenActive` is not inductive: whether an acknowledgement that is
  still on its way may be believed depends on what the gateway had done when it
  sent it. The gateway moves only from down to inactive to active, so a message
  is lasting evidence: `StreamEvidence` says that an ASP_UPACK on the stream means
  not down, an ASP_ACT_ACK active, and that an ASP_ACT never travels to a gateway
  that sees the ASP down. `PlaceEvidence` says the same of the place in the loop
  that is reached by reading such a message. `IInv` is both with the types.
* `LostPlaceIsForever` needs that nothing is sent twice. A request turns into its
  acknowledgement, so `OnceOK` counts the two together: one at most, and none
  before the request is sent or after the acknowledgement was read.
* `ActCarriesContext` supposes `UpStatuses \subseteq {"inactive"}` and
  `NtfyContexts \subseteq {"assigned"}`, a gateway that serves this ASP alone and
  names the context: `sg_shared_as` shows what another one does. It may be late
  and beat as it likes.
* `PeeringInit` and `PeeringStep` are the refinement.

**Two ASPs** (`M3uaAspHandshakeProofs`; there are no constants): `TypeOK`,
`NothingLeftBehind`, and that the two loops together implement `M3uaPeering`.
`Handshake` lists the phases: for each place of the stack, what may be on the two
streams and where the simulator then is. What carries it is that the simulator
sends an ASP_ACT for each ASP_UPACK it takes, its own among them, and an
ASP_ACT_ACK behind both, so that one of the two ASP_ACTs is read in a pair that
looks for it. The model is finite and the run exhaustive; the proof says why.

**The node** (`M3uaNodeProofs`; `NodeAssumption` and those of the handshake: any
number of signals, data messages, heartbeats): `NodeTypeOK`,
`CompleteOnlyWhenActive`, `DataOnce`, `SaysGoodbye`.

* Until the handler has set `host_state` the evidence of the handshake stands
  (`NotLeft`): no buffer, stream or `message_type` holds an ASP_INA or ASP_DOWN.
* `DataOnce`: a data message sent is returned, on its way, lost, or in the buffer
  `msg_ptr` points to. `DataCounted` counts them. It is inductive because
  `msg_ptr` is only ever set to a buffer that has just been overwritten: a message
  left behind in one is never found again.
* `SaysGoodbye` supposes `MaxSendFailures = 0`: nothing checks or repeats a
  failed send. On an idle association a message that is late would spoil the
  buffer, so `NothingOver` says that the handshake reads all that the gateway owes
  for its requests. What is left is the worker, which enters its receive once
  and then blocks: it may spoil the ASP_INA but then not the ASP_DOWN
  (`SilentOK`). Signals may nest at any step of the handler.

**Transactions** (`SmsTransactionsProofs`; `CommonAssumption`,
`ClientAssumption`, `ServerAssumption`, `SmsAssumption`, `GatewayAssumption`: any
receivers, attempts, strays and failures of the database, one association to
lose): `SmsTypeOK`, `OneTransaction`, `MoReachesAsked`, `EveryOtherAttempt`,
`EachLossHasItsFailure`, `NeverReported`, `SilenceLasts`, and that the
client's handshake implements `M3uaPeering`.

* Nothing compares ids, so `TransactionInv` says of each channel what may be on it
  at each place of the client: one message of its own over all of them, and that
  message `Fits` the attempt it is in, by type, id and receiver.
* `EachLossHasItsFailure` is a count over steps: an MO leaves the wire and a row is
  stored, or a statement fails. A row is new because no stored one has its id.
* `SilenceLasts` follows from `TransactionInv`, as a waiting client reads control
  messages only and whatever else is sent carries no transaction of its own.
* `do_sg_handshake` tests a buffer it does not clear. `AckedOK` says that whatever
  is in it is still evidence, also when a lost association leaves it as it was.

**Storage** (`StorageProofs`; `RequestsAssumption`, `MysqlAssumption`,
`MaxCallsAssumption`: any requests, tables, servers and number of calls):
`TypeOK`, `RowsAreNotMixed`, `SelectFreezesTables` and `ImplementsStore`.
`RowsAreNotMixed` is inductive with the types: an update that has any effect
changes a column that some request for that table lists first. `IInv` adds to the
types what an insert has left so far, `InsertOK`: the first parts of the value,
or nothing once the server has lost them. The refinement lets the store keep the
value it had before until the insert returns; only then is it decided whether the
value was written, or a prefix of it and the failure reported. So a round trip in
between is a stutter, and `InsertOK` is what makes the last one a write.
`StoreStep` has one step per operation.

**The receiver** (`SccpReceiverProofs`; `RouteAssumption`, `PeerAssumption`: any
nodes, point codes of 24 bits, addresses, and TCAP messages of other nodes with
any list of tags): `ReceiverTypeOK`, `OnlyTheFirst`, `TitleHidesPointCode`,
`WholeDialogueIsItsOwn`, `NothingTakenBack`, `Understood`. `SearchFacts` says
where a search ends that matches every node or none; `PointCodesAreEmpty`, that
to `strcmp` every node's point code is the empty string, so that these are the
only searches there are (`ResolutionFacts`). `IInv` adds that at most one route
is not counted (`RoutesOK`) and that after a title of twelve digits the point
code is empty (`TitleOK`); `ContextFacts` and `CopiedFacts`, that every context
fits the field and what is in it after it was copied. For `Understood` the frames
of each builder are run through the parsers' lists of tags, one by one.

**Only model-checked:** liveness, which is out of the prover's reach:
`HandshakeSettles`, the completion of either handshake, `DataReachesWorker`,
`SignalEndsNode`, `ClientCompletes`, `RequestIsAnswered`. It rests on the bounds
of the runs. The violations are counterexamples, which need no proof.

## Not modelled

Opening a socket, logging: pure I/O. `hlr_connect`, which `main` does not call.
Failure of `malloc`; a lost association in the stack (its receives then return 0
and its loops repeat them). The byte layout of messages, `msg_len`; digits, the
7-bit alphabet, object identifiers. The
calling party, which `sccp_analyze` reads by the same code as the called one.
The tenth and later routes, where the searches leave the array. `caching.c` past
the NULL callbacks its first call meets. That an MO carries a fixed routing
context (simulator `m3ua.c:362`), as nothing in `src/` looks at it.
`sctp_sua.c` and `sua.c`: a client for a peer of which `src/` has no part, so
that a model would be checked against a peer of our own making.

## Plan

1. Handshakes, their abstraction and first proofs: done.
2. Node life cycle: done; a node towards an ASP peer, and the loss of the
   association, are open.
3. Routes, storage, transactions, codecs: done to the extent above.
4. Proofs: the safety of every component that is modelled is proved. Open: what
   the models do not have yet, a node towards an ASP peer first.
