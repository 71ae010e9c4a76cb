# TLA+ models of statsrelay

These modules model the forwarding pipeline of the statsd relay under `src/`. They
cover the per-endpoint sender, the cardinality admission filter, the backend fan-out
and hot reload, the ingress framer and server, and the process shutdown that ties
them together. Every definition is translated from the Rust
source. `PROJECT.json` maps each definition to the lines it models. `spec.md` is used
only for what the code promises. It is also the source for the two pieces the
repository does not ship under `src/`: the ring `pick` and the name hash (`src/shard.rs`
is missing).

## 1. Inventory

### Components and their state

| Component | Source | State | Operations |
|---|---|---|---|
| Sender (StatsdClient) | `src/statsd_client.rs` | a bounded PDU queue (mpsc, 100 000); a tripwire `Trigger` held by the handles; the `client_task` write-combining buffer; a ticker channel (capacity 1); a frozen-buffer channel (capacity 10); the `client_sender` stream (`lazy_connect`) and the buffer it is writing | `try_send` from producers; drop of the last handle; ticker tick; `client_task` select on PDU, queue closed, or tick; flush; `form_connection` (connect, fail and sleep, give up on the tripwire); `write_buf` (partial `Ok(n)`, `Ok(0)`, `Err`); `trim_to_next_newline` |
| Backend fan-out | `src/backends.rs` | `Backends`: an `RwLock` holding a list of `StatsdBackend`s. Each one has a conf (prefix, suffix, shard map), an `RwLock<Ring<StatsdClient>>`, an optional input `RegexSet` and a `warning_log` counter | `add_statsd_backend` (build a ring, memoising clients per endpoint); `provide_statsd_pdu` (filter, pick `hash mod len`, prefix/suffix, `try_send`, count failures); `reload_backends` (reuse old clients by endpoint, create the others, swap) |
| Hash ring | `src/shard.rs` (not shipped) | ordered client handles | `pick_from(code)` = `code mod len`; `statsrelay_compat_hash(name)` |
| Cardinality filter | `src/processors/cardinality.rs` | a mutex around `MultiCuckoo`: `buckets` cuckoo filters, oldest first, each with a `valid_until` | `provide_statsd` (check the oldest filter, then reject or add to every filter); `tick` → `rotate(now)` |
| Framer | `src/statsd_server.rs` `process_buffer_newlines` | the read buffer | split at each `\n`, strip a `\r`, emit non-empty PDUs, leave the tail |
| TCP ingress | `src/statsd_server.rs` `client_handler`, `run` | the per-connection buffer; the accept loop; the process tripwire | read with 62 s timeout or shutdown; frame and forward; on EOF forward the residual; courtesy write on shutdown |
| UDP ingress | `src/statsd_server.rs` `UdpServer` | an OS thread; the `shutdown_gate` atomic | `recv_from` with 1 s timeout, frame, forward the tail, check the gate |
| Normalizer (tag processor) | `src/processors/tag.rs` | none (pure) | convert tags to inline name form |
| Entry point | `src/cmd/statsrelay.rs` | the runtime, the signal task | load config, add the default backend, run the server, cancel on SIGINT/SIGTERM |

### How they interact

Ingress (the TCP tasks and the UDP thread) frames bytes into PDUs and calls
`Backends::provide_statsd_pdu`. That call takes the read lock and offers the PDU to
every backend. A backend picks one client of its ring and calls the non-blocking
`try_send` on that client's queue. Each client is three tokio tasks:

- `client_task` drains the queue into a buffer, and `ticker` wakes it every 500 ms;
- `client_task` hands full or timed-out buffers through a 10-slot channel to `client_sender`;
- `client_sender` owns the TCP stream.

A client's tasks stop when its last handle is dropped. Dropping the last handle
closes the queue and fires the `Trigger`. Reload drops the handles of the endpoints
it leaves out. The cardinality processor is a separate stage behind its own mutex.
The code that calls it (the processor chain and its ticker) is not in `src/`.

### What is hard

- **Concurrency inside one client.** Three tasks meet at two channels. A `select!`
  picks at random among ready branches. The write task can block on the connection
  while the buffer task blocks on the full channel.
- **Partial failure on the wire.** A write can stop inside a PDU and the next write
  can fail. The code then trims the buffer to the next newline, so the peer has read
  half a line on a connection that is now dead.
- **Teardown.** The tripwire and the queue close together. The tasks must all stop
  whatever the connection is doing, and PDUs still in buffers are dropped.
- **The rolling filter.** Time, rotation and the library behaviour of `CuckooFilter::add`
  interact: it does not deduplicate, it has a fixed number of slots per fingerprint,
  and the `collect` of results stops at the first error.
- **Reload.** Clients are reused by endpoint, and the ring must not end up with two
  sender tasks for one endpoint.
- **Framing.** Lines can be split across reads, end in `\r\n`, be empty, or be the
  unterminated tail at EOF or at the end of a datagram.

### Properties that make each component correct

- **Sender.** Every accepted PDU is in exactly one place. The sender is a lossy FIFO:
  no reordering, no duplication, nothing invented. The peer reads only whole lines. A
  connection death costs at most one PDU. Teardown terminates. When the peer is
  reachable, every PDU is eventually delivered or lost. Its queue and lifecycle keep
  the contract that `Backends` relies on (`ClientQueue`).
- **Cardinality.** The `valid_until` times increase. An identity is forgotten within
  `window*(B+1)`. A metric that keeps arriving stays known. A rejection means the
  distinct limit has been reached. (Spec 8.5 also promises that an identity is
  remembered for `window*B`. Spec 4.8's own rotation does not keep that promise; see
  the findings.)
- **Backends.** Each PDU goes to exactly one client of each target whose filter admits
  it. A reload reuses the client of every endpoint it keeps, and each endpoint has one
  client per target. A client that no ring holds is never handed out again.
- **Framer.** Framing a stream is independent of how it is split into reads. It never
  panics. CR is stripped and empty lines are skipped.
- **Ingress.** Every complete line received is forwarded. Shutdown ends every handler
  and the UDP thread.

## 2. Plan

Modules in order of importance. The ones marked (done) are built and checked.

1. `StatsdClient` (done): the whole sender of `statsd_client.rs` plus the `try_send`
   of `provide_statsd_pdu`. `MC_StatsdClient` instantiates it.
2. `LossyFifo` (done): the abstract sender. `StatsdClient` implements it under the
   refinement mapping `pending <- SetToSortSeq(InFlight, <)`.
3. `Cardinality` (done): `MultiCuckoo` and the processor, with `MC_Cardinality`.
4. `Backends` (done): `add_statsd_backend`, `provide_statsd_pdu` over several
   targets, and `reload_backends`. Each client's sender is abstracted to its queue plus
   drain and exit steps.
5. `Framer` (done): `process_buffer_newlines` as a RECURSIVE operator, with the
   reference line splitting of spec 4.5.
6. `StatsdServer` (done): the accept loop, one `client_handler`, the UDP thread and
   `run`'s shutdown. It extends `Framer`.
7. `Relay` (done): `main`'s shutdown sequence composed with `run`, one handler, the
   UDP thread and one `StatsdClient` (through INSTANCE). `MC_Relay` instantiates it.
8. Wall-clock steps in `Cardinality` (done): `ClockSpec`.
9. `ClientQueue` (done): the client as `Backends` uses it. `StatsdClient` implements
   it (`ImplementsClientQueue`), and every client of `Backends` is checked to be used
   as one (`ClientsAreQueues`). This makes the abstraction of item 4 a checked one.

Considered and not built:

- **Fan-out composition as one product.** Ingress into `Backends` into two full
  `StatsdClient`s is far beyond TLC's reach: one sender alone has about 11 000
  states. The composition is checked in two halves instead (item 9). `StatsdClient`
  implements `ClientQueue`, and `Backends` treats each client as a `ClientQueue`.
- **Order per producer connection (spec 5).** `provide_statsd_pdu` is one step under
  the read locks, and a handler calls it in frame order. PDUs of one connection
  therefore enter a queue in connection order by construction. `ImplementsLossyFifo`
  carries that order on to the wire.
- **Two concurrent TCP connections.** Handlers share only `Backends`, whose
  `provide_statsd_pdu` is atomic. A second handler adds interleavings of whole steps
  and no new shared state.
- **Sparse ticks in Cardinality.** The ticker that calls `Processor::tick` belongs to
  the processor chain, which is not in `src/`.

## 3. Modules, runs and what they show

### StatsdClient (`StatsdClient.tla`, `MC_StatsdClient.tla`)

A PDU is a number, taken in the order `try_send` accepts PDUs. On the wire it is two
bytes, a body and the newline that `client_task` appends, so a write can stop inside
a PDU. The peer is the environment: it splits what one connection delivers into
lines. The variables map to the code as follows:

- `queue`: the mpsc queue.
- `buf` and `ctPc`: the `client_task` buffer and its await point.
- `ticks`: the ticker channel plus a blocked send.
- `chan`: the 10-slot buffer channel.
- `wbuf`, `spc` and `conn`: `client_sender`'s buffer, await point and `lazy_connect`.
- `open`: some handle is alive. Its negation is "queue closed and tripwire fired".

There is one action per await outcome of each task:

- `CtRecvPdu`, `CtRecvClosed`, `CtTick` and `CtFlush` for the `select!` arms and the send;
- `ScConnectFirst`, `ScRecv`, `ScConnect`, `ScGiveUp`, `ScWrite` and `ScWriteFails`.

A failed connect attempt only bumps a counter and sleeps, so it is a stutter.

Bounds: 4 PDUs, queue 2, threshold 4 bytes (two PDUs), channel 2, at most 2 connection
deaths. These bounds reach:

- a full queue;
- a full channel with the writer reconnecting;
- a partial write followed by a death;
- a death on a PDU boundary (the trim then drops an unsent PDU);
- teardown in every task state.

Fairness:

- Weak fairness on each `client_task` branch. tokio's `select!` polls ready branches
  in random order, and the `CtRecvClosed` arm must not be starved by ticks.
- Weak fairness on the ticker, on `ScRecv`, and on `ScGiveUp` (after the tripwire,
  `form_connection` returns within one reconnect delay).
- Weak fairness on "a write returns" (`WriteReturns`). There is no write timeout,
  so this is an assumption about the peer. `FairSpec` is `Spec /\ SchedulerFair /\
  WriteReturns`. `StalledSpec` drops `WriteReturns`: a peer that stops reading
  fills its window and the kernel's send buffer, and `write_buf` never completes.

`FairSpec` does not assume that any connect attempt succeeds, the first one
included. Its only fairness on the first `form_connection` is the tripwire return,
`WF_vars(ScConnectFirst /\ ~open)`. `EventuallyResolved` takes reachability as its
own premise, `Reachable == WF_vars(ScConnectFirst) /\ WF_vars(ScConnect)`, so it is
checked under `FairSpec` in the same run as the safety properties.

- run `client_safety` (`StatsdClient.cfg`) checks `TypeOK`, `Conservation`,
  `PeerLinesWhole`, `LossPerAbort`, `TeardownTerminates`, `ImplementsLossyFifo`,
  `ImplementsClientQueue` and `EventuallyResolved`. All hold. For
  `EventuallyResolved`, the ticker flushes a buffer below the threshold.
  `ImplementsClientQueue` maps `cq` to `queue`, `open` to `open` and `exited` to
  `ctPc = "done"`. It shows that `client_task` ends only after the last handle is
  gone. It ends with the queue drained (`CtRecvClosed`), or, when `client_sender` has
  already given up on the tripwire, its failed send drops the queue (`CtFlush`). A
  `form_connection` that returned `None` on a failed attempt would break it.
- run `client_stalled_peer` (violation, `StalledSpec`): `TeardownTerminates`. The
  handles are dropped while `client_sender` holds a buffer. `client_task` hands over
  its final buffer and exits, but the write never returns, and `client_sender`
  checks the tripwire only in `form_connection`. The tasks of a removed endpoint
  stay, with their connection and buffers, for the life of the process. Spec 4.4
  (step 5) and scenario S4 say they exit after the drain, and spec 5 lists no write
  timeout.

### Cardinality (`Cardinality.tla`, `MC_Cardinality.tla`)

A sub-filter is a bag of fingerprints, one per identity. `len()` counts copies,
because `CuckooFilter::add` does not deduplicate (`add_unique` would). A fingerprint
has 8 places (two candidate buckets of 4 entries). A ninth add returns `NotEnoughSpace`.
`MultiCuckoo::add` collects the results into a `Result`, so it stops at that filter.
This library behaviour (cuckoofilter 0.5) is modelled from the crate, not from `src/`.
Time counts processor ticks, and `Tick` advances it by one and rotates. The rotation
guard is the code's strict `valid_until < now`. `SystemTime::now()` is a wall clock.
`ClockSpec` adds `ClockSteps`, a step of `ClockStep` ticks forward or back, at most
`MaxClockSteps` times (6 ticks, that is three windows, and 2 steps). `Spec` has no
clock steps, and its runs bind `MaxClockSteps` to 0.

Bounds: 3 identities, 2 buckets, a window of 2 ticks, size limit 1, 8 slots, 12
ticks. This is enough for two full generations of filters, for saturation, and for
the size limit.

- run `cardinality` checks `TypeOK`, `ValidUntilIncreasing`, `ForgottenInTime` (tight:
  `window*(B+1)-1` is violated) and `DistinctBound` (at most `size_limit+1` distinct
  identities in any filter). All hold.
- run `cardinality_clock_step` (violation, `ClockSpec`): `ValidUntilIncreasing`.
  In one shortest trace the clock steps forward from 2 to 8, and the next tick
  rotates out the filter with `valid_until` 2 and appends 15. The clock then steps
  back to 3. At 5 the filter with 4 is rotated out and 11 is appended behind 15.
  TLC with two workers may print an equally short sibling instead: the step goes
  from 1 to 7, the tick to 8 appends 14, and after a step back to 2 the ticks to 5
  append 11 behind 14. The mechanism is the same. The oldest filter now expires last
  and holds back every rotation until 16. Spec 3 states the increase as the invariant
  of the rolling filter.
- run `cardinality_hot_metric` (violation): `SeenWithinWindow`. A metric admitted 8
  times saturates its slots in the oldest filter. From then on every add stops there,
  and newer filters never learn the metric. One rotation later it counts as new, even
  though it arrives every tick.
- run `cardinality_copies` (violation): `RejectsOnlyOverDistinctLimit`. One identity
  admitted twice makes `len() > size_limit`, and every new identity is then rejected.

### ClientQueue (`ClientQueue.tla`)

This is the abstract client: what producers and `Backends` may assume about a
`StatsdClient`. Its state is a bounded queue, `open` (some handle is alive) and
`exited` (the client's task has ended). Its actions are:

- `Offer`: a producer with a handle queues a PDU while the task runs;
- `Take`: the task takes the head;
- `Close`: the last handle is dropped;
- `Exit`: the task ends on a closed, drained queue;
- `Abandon`: after the close, the task ends and drops what is still queued.

No run checks this module alone. `StatsdClient` and `Backends` are checked against
it.

### Backends (`Backends.tla`, `MC_Backends.tla`)

A client is named `<<target, generation, position>>`: the target it belongs to, the
reload that created it (0 at startup), and its position in that shard map. The model
translates each part of the code as follows:

- `StatsdBackend::new`'s memo gives every position the client of the first
  occurrence of its endpoint (`AddRing`).
- `reload_backends` takes the old ring's client of the endpoint. The memo is a HashMap
  filled in ring order, so the last such client wins (`LastAt`). Otherwise it creates
  a client for that position (`ReloadRing`).
- `provide_statsd_pdu` offers the PDU to every target. Each target filters it, picks
  `code mod len` (code 1 for a ring of one), and then `try_send`s or counts a drop.

Both `provide_statsd_pdu` and `reload_backends` are single steps. `provide_statsd_pdu`
holds read locks and never awaits, and reload takes `&mut self`. Nothing in `src/`
calls reload. Spec 4.4 describes it, and the model checks it as the API allows.

A client's sender is abstracted to the `ClientQueue` interface:

- `Drain` takes the head of the queue (the `client_task` receive).
- `Exit` is `recv` returning `None`, once no ring holds the client and its queue is
  drained.
- `Abandon` is `client_task` returning after a failed `buf_sender.send`
  (`statsd_client.rs:271-274`). That happens once `client_sender` has given up
  reconnecting on the tripwire. The PDUs still queued are recorded in `lost`.

Startup adds every target (`Init`), as `main` does before the server runs.

Bounds:

- two targets over three endpoints;
- t1's map is `<<e1, e2>>`, and t1 admits every name;
- t2's map is `<<e1, e1>>`, so startup must share one client, and t2 admits n1 only;
- reload maps are `<<e2, e3>>`, `<<e3, e3>>` and `<<e1>>`;
- 2 reloads in all, 3 PDUs, queue capacity 2.

Three PDUs in queues of two reach every case the properties distinguish: two PDUs
queued together in one client with a third dropped at the full queue, and PDUs
spread over a client that a reload releases and its successor.

These bounds cover the following:

- a full queue;
- a reload away from an endpoint with PDUs still queued;
- a reload back to an endpoint whose client has exited;
- a released client whose task gives up with PDUs still queued (`Abandon`);
- duplicate endpoints at startup and at reload.

This module assumes no fairness and checks no liveness. Whether a released
client's task drains and ends depends on its `client_sender`: a writer parked in
`write_buf` behind a peer that stops reading keeps `client_task` parked in
`buf_sender.send` (`statsd_client.rs:271`), and `Drain` never happens
(`client_stall`). Teardown is therefore argued in two halves. `ClientsAreQueues`
shows that a released client is never offered a PDU or handed out again, so its
`ClientQueue` stays closed. `TeardownTerminates` in `client_safety` shows that a
closed `StatsdClient` ends both its tasks when the peer reads.

- run `backends` checks `TypeOK`, `FanOutAccounted`, `ReloadReusesClients` (an
  action property) and `ClientsAreQueues`. All hold. `ClientsAreQueues` views each client
  `c` as a `ClientQueue`:
  - its queue;
  - "open" while some ring holds it (or before it is created);
  - "exited" once its task has ended.

  It checks that fan-out, reload and teardown use every client as that contract
  allows. In particular, a client that a reload released is never put back into a
  ring, even while its task is still draining. A reload whose memo remembered every
  client the target ever made would break it. Together with
  `ImplementsClientQueue`, this justifies the abstract sender of this module.
- run `backends_unique_client` (violation): `UniqueClientPerEndpoint`. One reload of
  t1 to `<<e3, e3>>` creates two clients for e3. `reload_backends` does not put the
  clients it creates into its memo, although `StatsdBackend::new` does.

### Framer and StatsdServer (`Framer.tla`, `StatsdServer.tla`, `MC_StatsdServer.tla`)

Bytes are the strings `"\n"`, `"\r"` and payload letters. `ProcessBufferNewlines`
follows the code's loop, and its result includes whether the call panicked. For a
line that is a lone LF, `incoming[incoming.len() - 2]` underflows. Because the panic
unwinds before `ret` is returned, the caller forwards none of that call's PDUs.
`StatsdPDU::new` is not in `src/` and is taken as "non-empty" (spec 4.5). The
reference `RefLines`/`RefResidual` is written declaratively from spec 4.5: the
segments between LFs, with CR stripped and empty lines skipped.

`StatsdServer` has the following actions:

- the TCP peer writes lines and then an optional tail and EOF;
- `HandlerReads` reads any non-empty prefix of what is in flight, so every split into
  reads is explored;
- `HandlerEof`, `HandlerTimesOut` (62 s with nothing to read), `HandlerReadFails`
  (any other read error, which drops `buf` and the unread bytes) and `HandlerShutdown`
  (the tripwire branch of the `select!`);
- the UDP thread's `UdpChecksGate`, `UdpReceives` and `UdpTimesOut`;
- `run`'s `Accept`, `StopAccepting` (which drops the `UdpServer` and sets the gate)
  and `RunJoins` (`join().unwrap()`);
- the signal task's `Cancel`.

Bounds: two lines of one or two payload bytes, each ended by LF or CR LF, an optional
tail, and one datagram carrying a line and a tail.

Fairness is weak fairness on every handler, loop and thread step. The peers and the
signal are not assumed to act, and the 62 s timeout and read errors are not needed
for shutdown.

- run `server` checks `TypeOK`, `TcpFramesAnySplit` (spec 8.1 over every read split,
  plus the EOF residual) and `ShutdownCompletes`. All hold.
- run `server_empty_line` (violation): `IngressNeverPanics`. The input `"\n"` panics
  the handler.
- run `server_udp` (violation): `UdpForwardsDatagrams`. `BytesMut::with_capacity`
  gives a buffer of length 0, so `recv_from(&mut buf[..])` fills an empty slice.
  Every datagram is truncated to nothing.

### Relay (`Relay.tla`, `MC_Relay.tla`)

`Relay` composes the process around one sender. It instantiates `StatsdClient` with
variables of its own and adds the lifecycle of `main`, `run`, one TCP
`client_handler` and the UDP thread:

- `Signal`: the signal task cancels the tripwire.
- `HandlerProvides`: the handler frames a read and `try_send`s to the sender
  (`StatsdClient!TrySend`). `HandlerCloses`: the handler's loop breaks.
- `AcceptLoopStops`: the tripwire wins `run`'s `select!`, and `drop(udp)` sets the
  gate. `UdpExits`: the UDP thread sees the gate. `RunReturns`: the join returns.
- `ReleaseHandles`: once the accept loop, the UDP thread and the handler have dropped
  their `Backends` clones, the last `StatsdClient` handle goes
  (`StatsdClient!DropHandles`).
- `SenderRuns`: any step of the sender's three tasks, while `main` is in `block_on`.
- `DropRuntime`: `run.await` completes and `main` drops the runtime. tokio drops every
  task still spawned at the await it is parked on. `Exited` is the final stutter.

The UDP thread forwards nothing, because its receive slice is empty (`server_udp`).
The bounds are the sender's: 3 PDUs, queue 2, threshold 4, channel 2 and 1
connection death.

- run `relay_shutdown` (violation): `ShutdownDrains`, "when main has dropped the
  runtime, the sender holds no accepted PDU". TCP handlers are spawned tasks that
  `run` never joins. After the signal, the handler may still be serving (its last
  read, or the goodbye write), and the sender has had no step. `run` returns as soon
  as the UDP thread exits, and `main` drops the runtime with the PDU in the queue.
  The same holds for PDUs in the write-combining buffer, the channel and the write
  buffer of a sender whose handles are gone: dropping the runtime does not wait for
  `client_task`'s final flush. Spec 5 says the runtime joins the sender tasks, and
  spec 4.2 says the final buffer is flushed.

## Findings

| Run | Kind | Where | What |
|---|---|---|---|
| cardinality_hot_metric | code bug | cardinality.rs:75 | a hot metric saturates the oldest filter, newer filters miss it, and it is rejected after a rotation |
| cardinality_copies | divergence | cardinality.rs:118 | `len()` counts copies, so the limit rejects below `size_limit` distinct identities |
| backends_unique_client | code bug | backends.rs:82 | reload starts two tasks for a new endpoint listed twice |
| server_empty_line | code bug | statsd_server.rs:96 | an empty line panics the connection handler |
| server_udp | code bug | statsd_server.rs:66 | UDP ingests nothing |
| cardinality_clock_step | divergence | cardinality.rs:110 | a wall-clock step forward then back puts the FIFO out of `valid_until` order |
| relay_shutdown | divergence | statsrelay.rs:77 | shutdown drops the runtime with PDUs still in the senders, unflushed |
| client_stalled_peer | spec gap | statsd_client.rs:165 | a peer that stops reading keeps a removed endpoint's sender task for ever |

Further divergences have no run of their own:

- The code admits `size_limit + 1` identities (the strict `>`, and the code's own
  test admits 101 with a limit of 100). Spec S6 says the 101st is rejected.
  `DistinctBound` checks the `+1` bound that the code does keep.
- Rotation needs `valid_until < now`, where spec 4.8 says `<=`.
- Retention is shorter than spec 8.5's `window*B`, and not only at startup.
  `MultiCuckoo::new` gives the initial filters `valid_until = now + window*k`, and
  rotation appends `now + window*(B+1)` to a FIFO of `B` filters, both as spec 4.8
  says. The `valid_until` times then come in pairs one window apart, with two
  windows to the next pair.
  - With `window` 2 ticks and `B` 2, the pairs run `(2, 4)`, `(4, 9)`, `(9, 11)`,
    `(11, 16)`.
  - An identity admitted at tick 9 goes into the filters 9 and 11. By tick 12 both
    are rotated out, and the front filter, 16, was created at tick 10 without it.
  - It is forgotten at age 3, where `window*B` is 4. In continuous time, an identity
  admitted just before a rotation is kept for about one window.

  The code follows spec 4.8's construction, so this is a gap between spec 4.8 and its
  own rationale. Checking `Age(i) < Window * Buckets => Contains(i)`,
  restricted to identities admitted after the first rotations, finds the trace above.
  No run of the project checks it: the run budget went to the findings against the
  code.
- The drop counter `warning_log` is a field of `StatsdBackend`, so it counts drops per
  target over all of the target's endpoints (`backends.rs:127-130`). Spec 4.2 says
  per target per endpoint. Only the rate of the log line depends on it. The model
  records drops per target (`dropped`) and no property is about the log.
- `StatsdBackend::provide_statsd_pdu` forwards a PDU when its name matches the
  configured blacklist (`backends.rs:90-96`), so the blacklist acts as a whitelist.
  Spec 9 lists this as an open question and says to keep the behaviour. The model
  takes the filter as an arbitrary set of admitted names.

## 4. Not modelled

- Statsd parsing and serialisation, prefix/suffix splicing, the normaliser
  (`tag.rs`), regex matching, logging and counters. These are data conversions with no
  control flow that the properties need. A filter match is an arbitrary predicate on
  names, and counters appear only where a property reads them.
- Config loading, logging setup, the metrics receiver and runtime construction
  (`cmd/statsrelay.rs:24-52`). These are startup I/O. The signal task and the runtime
  drop are actions of `Relay`.
- The hash function's values. The ring is checked for any fixed function from names
  to codes.
- Concurrent TCP connections. Handlers share nothing but `Backends`, and one
  connection exercises every handler path.
- The `Relaxed` ordering of the UDP gate. A later load of the same atomic sees the
  store, so the thread sees the gate within a loop iteration or two. The model reads
  the current value.
- Memory. A TCP peer that never sends a newline grows the handler's buffer without
  bound (`statsd_server.rs:121`). The model's peer sends finitely many bytes, so
  this is listed as a hazard without a property.
- Cardinality's callers: the processor chain and the code that calls `tick` are not in
  `src/`. One tick per time unit is assumed. Steps of the wall clock are explored
  (`ClockSpec`), but sparse ticks are not.
