# Verification of pqc-qkd-HybridNetwork

The repository puts simulated quantum key distribution (QKD) under IPsec. Two
key management entities (KMEs) produce keys by simulating a QKD link, keep each
other's keys in step, and deliver them through two standard interfaces: ETSI GS
QKD 014 (single keys by key_ID) and ETSI GS QKD 004 (key streams). On each node
arnika takes keys from its KME and hands them, through a VICI writer, to
strongSwan, which mixes them into IKEv2 next to ML-KEM. A web UI shows and
changes all of it, and simulates parts of it in the browser.

This directory models that program in TLA+: modules that TLC checks on small
instances, and theorems that the TLA+ proof system proves for every value of the
constants. Every definition is translated from the source; `PROJECT.json` gives
the lines of each.

## 1. The system

### Components, their state and operations

| Component | State | Operations | Modelled by |
|---|---|---|---|
| Key pool (`bb84-kme/app/keypool.py`), ETSI 014 API (`etsi014.py`) | ring, index, flag `replicated`, memory `_withdrawn`, `_extra_target`, pool lock | producer, `receive_synced`, `pop_for_enc`, `get_by_id`, `take_local_for_stream`, `request_extra`, `release_extra`, `drop_replicas` | `KeyPool`, `OrderedSet` |
| ETSI 004 engine, peer link, binding (`etsi004_engine.py`, `etsi004_peer.py`, `etsi004.py`) | per stream: its state, who opened and closed, chunks, `delivered`, `next_alloc` | `open_connect`, `get_key`, `close`, the six peer handlers, `sweep` | `Etsi004`, `KeyDelivery` |
| Configuration and backends (`config_loader.py`, `backends/`, listener and switch in `keypool.py`) | cached parameters, overrides, generation, live backend, the rate and its generation | reload, override, reset, watchdog, `switch_backend`, `set_eve`, rounds | `ParamStore` |
| VICI key writer (`arnika-vici/.../swanvici/vici.go`) | generation, loaded credential, whether the bootstrap one is retired | `SetPSK`, `retireBootstrap`, `reconcile` | `PpkRotation` |
| Control plane (`webui-backend/app/main.py`, page `/physics`) | draft, note and values of a page; the cached key-rate verdict | fan-out of a change to both KMEs, polling, `/verify` | `ControlPlane` |
| Store of exports (`main.py`) | a directory bounded in files and bytes | save, collect, delete | `ExportStore` |
| Sampled routes (`main.py`) | one cache entry per route | answer or probe and store | `Sampler` |
| Stack status (`stack-status/app/main.py`, `stack_contract.py`, page `/`) | the Docker client, cached rows, the page's table | rows of containers, logs, tunnels, health | `StackStatus` |
| Exports and gallery (`exporters.ts`, `ExportToolbar.tsx`, `SavedExportsPicker.tsx`) | the one pending notice, a recording, the list | export of each kind, upload, refresh, remove | `Exporting` |
| Simulators `/e2e`, `/paper-flow`, `/protocol-lab` | the keys of a cycle; the cascade's clock; stores, route, stock | start, pause, step, reset, failures, ticks | `E2ESim`, `PaperSim`, `RelayLab` |
| Key managers of `/protocol-lab` (`protocolLab/etsi004.ts`) | streams, delivered indices | open, read, close, supply | `Km004` |
| Engine of `/bb84` (`bb84Sim.ts`, its worker and tiers) | worker, adopted tier, devices, pool | upgrade pass, adoption, revert, disposal | `Bb84Engine` |
| Physics, BB84 post-processing, QKDNetSim facade, PQC validator, scripts, presentation | | | section 6 |

### How they interact

A pool's producer runs rounds while the pool is short of keys. `_record` admits
the new key and, **with the pool lock held**, POSTs it to the peer's
`/internal/sync`, where `receive_synced` takes the peer's lock. Either KME
issues keys it produced itself, and both resolve key_IDs. The engine whose SAE_ID
sorts first (the *allocator*) takes keys out of its pool for each 004 chunk,
pushes the chunk to the other engine, which stores it and drops the replicas of
its keys from its own pool.

In a KME two threads share the configuration: the event loop and the watchdog.
A change reloads the cache under its lock and notifies the pool's listener
outside it; the listener rebuilds the live backend's configuration. The web UI
backend posts a change to alice and then to bob and may reach only one of them.
On a node arnika calls the key writer once per interval; it talks to charon over
VICI in up to seven calls, any of which may fail, while charon reauthenticates
on its own.

A KME runs in one asyncio loop, the web UI backend in a loop and a threadpool, a
page in one browser thread. What is hard is at the awaits and between the
threads: the POST under the pool lock, tests used after an await, answers out of
order; then lost, late and repeated calls, expiry, partial failure, restart.
`PROJECT.json` lists each such hazard at its line.

### What makes each component correct

- *Key pool*: a key is handed out once; ring and index stay together; the peer can
  resolve a key a KME may still issue; a key taken for a chunk never comes back;
  a short pool is refilled; the two locks do not block each other for good.
- *004 engine*: both applications read the same bytes at an index, once, and not
  before the peer has them; nothing made is lost while both ends are open; a closed
  stream keeps nothing; two closes meet; every call returns.
- *Configuration*: the last change reaches the backend; a rate said to be current
  is; a write of the file is noticed.
- *Key writer*: a node always has a PPK; credentials do not accumulate; one clean
  rotation brings the two nodes together again, whatever failed before it.
- *Control plane*: a half-applied change never passes for a whole one; a draft is
  not lost; a page catches up; a verdict is of the parameters in force.
- *Web UI*: caches answer with what is recent and was truly seen; exports are kept
  and delivered; no key of a simulator is used twice, comes from nowhere or
  outlives its cycle; an engine leaves nothing behind.

## 2. The modules

### Key delivery

**`OrderedSet`**: the containers of `keypool.py` read both by membership and by
age (a deque, an insertion-ordered dict) as a set with its strict order, so that
no operator is recursive and all of them can be proved about.

**`KeyPool`**: the pools of both KMEs with what lies between them.

| Code | Model |
|---|---|
| `KeyPool.run` (gate, round) | `BelowTarget`, `StartRound` |
| `_record` | `RoundAborted`; `RoundAccepted` up to the POST, then `SyncAnswered` or `SyncTimeout` |
| `_admit` | `Admit`, `Evicted` |
| `receive_synced` | `SyncQueued` (lock held), `ReceiveSynced` |
| `pop_for_enc`, `get_by_id` | `PopForEnc`, `Resolves` |
| `take_local_for_stream` and `release_extra`; `request_extra` | `TakeLocalForStream`; `RequestExtra` |
| `on_chunk` and `drop_replicas` | `StoreChunk` (lock held), `DropReplicas` |
| lost POST or push, process restart | `LosePost`, `LoseChunk`, `Restart` |

The lock is held across an await in `_record` only, so `LockFree(k)` says that
the producer is not in that POST; every other critical section is one step.
`asyncio.Lock` is FIFO: `queue[k]` keeps the waiting sync handlers in order, and
the producer gets the lock again after them. The 2 s timeout of the POST fires
while the handler waits for a lock, or at any moment under the fault `late`; the
request is served all the same.

**`KeyDelivery`** is what the two KMEs promise together, without the calls and
stores by which they keep the promise: the allocator makes chunks, a chunk
reaches the other KME or does not, an application reads a chunk at an index. For
an id each KME opened once, the read is the first at that index, the same as the
other application's, and at the maker not before every KME held the chunk.

**`Etsi004`**: both engines and the calls between them. An application call (a
process of `App`) or the handler of POST /allocate (a process of `Handler`) is
atomic between two awaits; `call[p].pc` names what it awaits. It keeps a
reference to its `Stream` object while the table may meanwhile point elsewhere:
`obj` holds the objects, `cur` the table. `open_connect` is `OpenNew`, `OpenJoin`
and their continuations; `get_key` and `_obtain` are `GetKey`, `Obtain`, `Take`,
`TakeLater`, `MakeChunk` and theirs; `close` is `Close`, `CloseDone`; the handlers
`OnAnnounce` ... `OnClose`; `sweep` the three `Sweep` actions; failures of the peer
link and a restart `PeerFails`, `Restart`. `Promise` instantiates `KeyDelivery` with
what each KME ever stored, what the applications got, and how often an id was
opened: `KeepsPromise` is the refinement.

Abstractions. A chunk is a serial number, as two chunks never have the same
bytes, and holds one key. Awaiting the pool lock suspends a call only when the
lock is held: with `Contended = FALSE` it is free whenever a chunk is made, with
`TRUE` the call may be suspended (`LockWanted`). A call the client gave up may
still be served, with `from = Nobody`. QoS, metadata and answers that change no
state are left out. `SweepRecord` does not remove the record of a stream a call
refers to, as `max_ttl_s` (3600 s) exceeds the longest Timeout (30 s).

### Configuration, rotation, control plane

**`ParamStore`**: the cache of `config_loader.py` with its reentrant lock, and the
two threads that call it. Each thread has a *stack* of calls, because the reload
that `params()` makes calls the listener, whose `cfg_from_yaml` calls `params()` for
each parameter, which may reload once more. `StatFile` and `ReadFile` are the
reload (contents first, modification time after), `Notification` and `UpdateConfig`
the listener, `BuildCandidate`, `Swap` and `PreflightFails` the live switch,
`StartRound`, `EndRound`, `Record` a round and the generation its rate is tagged
with. Three parameters stand for the 28: one that a patch may set, one that none
may, one with a default; a truncated file reads as no parameters.

**`PpkRotation`**: two nodes, each with arnika, a `Repository` and charon, and the
IKE_SA between the charons. `SetPSK` is one action per VICI call (`LoadPPK`,
`AssertLoaded`, `ListSas`, `Rekey` or `RekeyMatchesNothing`, `InitiateQueued`,
`UnloadPrevious`, `UnloadBootstrap`, `ConfirmRetired`), each of which may fail;
`Reconcile` is a new process over an old charon. charon is external: it resolves
PPK_ID to any credential it holds, authenticates when both ends resolve to the same
material, and replaces the SA.

**`ControlPlane`**: from the page's draft through the fan-out (alice, then bob; each
serves, refuses, applies and then fails, or cannot be reached and may serve later)
to the answer and the note, with polling loads out of order, and the cached verdict
that readers compute while changes go by.

### Web UI

**`ExportStore`**: saves in threads that interleave between any two calls of the file
system: name, write, list, sort (a stat per file), unlink. **`Sampler`**: a route with
its cache, named as in the code: each makes its own number of probes, treats a failed
one in its own way (in place, stored as the entry, stored apart for a shorter time, not
stored) and stamps its entry when it is stored or, `vpn_protocols` and
`vpn_ppk_rotations`, when the request came; it keeps ages, not clock time. **`StackStatus`**: the table of containers on its way from Docker through
stack-status and the backend's cache to a polling page, and single readings (two
tunnels of a node, its log, the health). **`Exporting`**: the export of each kind
from the button through recording, encoding and delivery to the upload, for several
toolbars that share one pending notice; and the picker of the gallery.

**`E2ESim`**, **`PaperSim`**, **`RelayLab`**: the simulators of three pages, every control
and the timer. Keys are the mode or the cycle they were made in. **`Km004`**: the pair
of key managers of `/protocol-lab`. **`Bb84Engine`**: worker, pass over WebGPU, WebGL2
and WASM with its awaits, adoption, revert, and the page that may leave at any
moment.

**`MC*`** give the constants small values. **`MCWebui`** holds the parts of the web UI
and the browser, which share no state: a behaviour is one of a single part, chosen
in the initial state. The theorems are in modules of their own, named after what they
are about: **`KeyPoolProofs`**, **`KeyDeliveryProofs`**, **`Etsi004Proofs`** and
**`Etsi004Safety`**, **`ParamStoreProofs`**, **`PpkRotationProofs`**,
**`ControlPlaneProofs`**, **`WebuiProofs`**.

## 3. The runs

Passing runs (distinct states in brackets):

| Run | Question | Properties |
|---|---|---|
| `pool_live` (42 k) | No fault but the two locks in each other's way: is every key a KME may still issue held by its peer, is a short pool refilled, does each lock come free? | `TypeOK`, `PeerHoldsLive`, `ProducerRefills`, `LockReleased` |
| `pool_faults` (334 k) | POSTs and chunks lost or arbitrarily late, and a restart: is a key handed out once, is the ring indexed, does a withdrawn key stay out? | `NoDoubleHandout`, `RingIndexed`, `DroppedStayOut` |
| `stream_peer` (838 k) | A call between the engines fails, served or not, while one KME has two application calls in flight: is anything lost or read twice? | `TypeOK`, `NothingLost`, `ReadOnce` |
| `stream_ttl` (2.2 M) | Failed calls and expiries: does the engine implement `KeyDelivery`, and does a closed stream keep nothing? | `KeepsPromise`, `ClosedHoldsNothing` |
| `stream_live` (22 k) | No failure, pool lock contended: does every call return although the engines call each other back, and do two closes meet? | `ClosedTogether`, `CallsReturn` |
| `stream_reopen` (1.3 M) | A KME restarts and its application opens the old id again: does a stream ever change a chunk it holds? | `ChunkImmutable` |
| `params_reload` (1.0 M) | Writes, reloads, patches, resets, Eve and a live switch by two threads: does the last change reach the backend, is a flag of a steady round true, is a write noticed? | `TypeOK`, `LastChangeApplied`, `FlagOfSteadyRound`, `FileNoticed` |
| `ppk_rotation` (1.7 M) | Two rotations with failing VICI calls, lost inputs, restarts and charon's own reauthentication | `TypeOK`, `NeverStranded`, `RetiredIsGone`, `NoOrphans`, `CleanRotationAgrees` |
| `control_plane` (1.2 M) | A page and another caller change the physics of two KMEs that fail, answer late or restart | `TypeOK`, `DivergenceIsReported`, `ConfirmedIsApplied`, `DraftIsKept`, `CatchesUp` |
| `webui` (1.1 M) | Each part of the web UI on its own, under any order of requests, presses, ticks and failures | `TypeOK` and the ten properties below |

The ten properties of `webui`, each a conjunction that is stated part by part in the
module it comes from:

| Property | Module | In a sentence |
|---|---|---|
| `VerdictIsCurrent` | `ControlPlane` | a cached verdict is of the parameters in force, but for three named excuses that its time to live ends |
| `ExportsAreKept` | `ExportStore` | the store is bounded, and the collection that bounds it costs no save its own file or a newer one |
| `SamplesAreShared` | `Sampler` | an answer is fresh enough, and a stored one spares the service for the time to live, counted from the store or, where the entry is stamped early, from the request |
| `StackIsTold` | `StackStatus` | a row is unknown exactly when nobody could look, and otherwise was seen; no reading is invented or hidden; no log shows a key |
| `FilesAreDelivered` | `Exporting` | a failed upload costs no file; a GIF is its recording; a note or a problem is of the request it is shown for |
| `CyclesSealOwnKeys` | `E2ESim` | a cycle works with the keys of its mode, and leaves none when broken off |
| `CyclesAreWhole` | `PaperSim` | a cycle uses its own keys and is counted once; no pause is credited to the cascade |
| `RouteFollowsFailures` | `RelayLab` | the route is up and a best one after every failure and repair, and steady between them |
| `KeysAreAccountedFor` | `RelayLab`, `Km004` | one pad of every hop for each key; each side gets each chunk once, and the next one when there is one |
| `EngineFollowsPage` | `Bb84Engine` | one source feeds an open page, the pool continues across tiers, nothing is left behind |

Two runs find what a comment says and the code does not do; `PROJECT.json` quotes it:
`stream_twice` (`SameBytes`: two calls for one index both wait for the pool lock and
both make its chunk) and `params_stale_rate` (`FlagIsTrue`: a backend that derives the
rate at the start of a round leaves it flagged as current after an override).

### Disagreements the models contain

The following are behaviours of the code, and so of the models, which a property
either excepts by name or does not speak of:

- The index `_by_id` of a pool outgrows its ring with every issued key, as eviction
  looks at the ring only; `tests/test_keypool_semantics.py:103` expects a bound.
- Between `on_chunk`'s store and its `drop_replicas`, `dec_keys` resolves the keys of a
  stored chunk, against `etsi004_engine.py:26-27`.
- Two streams that both pass the share test before the wait for the lock hold more
  than the share (`docs/etsi004-binding.md:157`).
- `open_connect` awaits the peer and then sets ESTABLISHED on a stream that was
  closed meanwhile (`docs/etsi004-binding.md:193`).
- After a restart an old id opens again on one side whose peer still knows what it
  delivered (`docs/etsi004-binding.md:210-211`). `NothingLost` and `KeyDelivery`
  speak of ids used once.
- An invalidation installs a random key the peer cannot match, and the IKE_AUTH that
  follows fails, but `make_before_break` keeps the old SA: traffic goes on under the
  superseded key until it ends (`services/arnika-vici/README.md:39-42`). What is checked
  is the next clean rotation.
- A verdict computed while a change dropped the cache is stored after it, and a
  refused override raises before it invalidates, though one KME applied it.
- `vpn_protocols` and `vpn_ppk_rotations` stamp what they store with the time of the
  request (`main.py:1815`, `main.py:1959`): after slow probes it is stale when it is
  stored, and spares the service nothing. `SparesService` counts so.
- A comment at `e2eSim.ts:528` calls an exchange without keys unreachable; it is
  reached when the failed layer changes in the middle of a cycle.
- `Bb84Engine`: leaving `/bb84` while the parameters are awaited starts a worker that
  nothing stops; the pass over the tiers keeps its device when the page left during
  an await; a round of WebGPU that fails after that starts a worker. A revert
  shows the pool of a new worker, from 0. The Eve switch, moved before the parameters
  have come, is overwritten by their answer.
- `Exporting`: a recording that throws leaves its recorder going; two refreshes of the
  gallery that cross may show the older list.
- `Km004`: a side may join a stream the other has closed, which is then ESTABLISHED.

### Bounds, and why they are enough

- *Pools*: `Low` 1, `Share` 1, `Capacity` 3, the tightest ring `limits()` accepts
  (2 * Low + Share). Three keys per KME in `pool_live` are twice the ring, so that
  eviction, reuse of the space of issued keys and the 004 target all occur; with
  two keys per KME and all faults, `pool_faults` still has more keys than ring.
- *Streams*: one Key_stream_ID, one or two indices, two chunks (one in
  `stream_peer`), so that a second chunk may be made for an index or for the next
  one. Two Stream objects per id and KME (three in `stream_live`): one in the table
  and one a call still refers to. Faults share one budget, three in `stream_ttl`,
  one where two calls at one KME or a restart make the space large. One application
  process per KME, two where calls meet; one handler process.
- *Configuration*: one write, two changes, one switch, one round: enough for a change
  in a reload, in a notification, in a switch's preflight and in a round.
- *Rotation*: two intervals, so that one with a fault is followed by a clean one, two
  SAs, one restart; nothing bounds the number of VICI failures.
- *Control plane*: two changes of a page or another caller, two faults, two loads under way.
- *Web UI*: two of what overlaps in each part (threads, pollers, toolbars, refreshes);
  a store of two files and three units against three saves under three names, of one, two
  or four units, so that either bound can be the one that is passed, by one unit or one
  file, and an upload may pass the store's; time to live 2 against one to three probes
  of up to 2 each; two cycles of `/paper-flow`; five links with
  two routes around the direct one in the lab, two ticks. `Km004` has one stream, as
  nothing relates two of them, with three chunks, which is what it takes to read them
  out of order. The pool of `/bb84` has four sizes, the rates lie on both sides of the
  margin of 15 %.

Symmetry exchanges the application processes of one KME and the saving threads, in
safety runs only. `CHECK_DEADLOCK FALSE` is stated everywhere, because the bounds let
the models stop; the system goes on.

### Fairness

`KeyPool!FairSpec`: weak fairness of starting a round (the idle timeout makes the
producer look again), of the POST's answer and of its timeout (the HTTP client has
one), and of serving a request (FIFO lock, one event loop); strong fairness of an
accepted round, as a link whose rounds all abort yields no key. `Etsi004!FairSpec`:
weak fairness of the continuation of each call and of serving each request, which
the event loop gives; waiting for the pool lock ends because of `LockReleased`. The
timeout of the wait for the peer application is part of the continuation.
`ParamStore!LiveSpec`: weak fairness of the watchdog's poll, a loop with a sleep, of
the steps of a call under way, and of the boot. `ControlPlane!LiveSpec`: weak fairness
of the page's poll, which an interval repeats, of the load it asks for, and of the
requests under way. Nothing is assumed of applications, operators or visitors.

## 4. What is proved

Eight modules hold theorems: one per component, and two for the streams
(`Etsi004Proofs` has the types, `Etsi004Safety` the rest). Every theorem is stated of
the specification whose instance TLC runs, for every value of its constants that the
named assumptions admit. These ask that sets which a program keeps apart be apart (a
value is not the mark `None`, a page is not another client), that bounds be
numbers, and what the code itself enforces; `PROJECT.json` lists the theorems.

| Module | Proved of every reachable state or step | Assumptions of the code |
|---|---|---|
| `KeyPoolProofs` | `TypeOK`, `NoDoubleHandout`, `RingIndexed`, `DroppedStayOut`, `PeerHoldsLive` | two KMEs, each the other's peer; the arithmetic of `limits()` |
| `KeyDeliveryProofs` | of the abstract specification: its types, and that two readers get the same bytes and the maker nothing its peer lacks | the maker is a KME |
| `Etsi004Proofs` | `TypeOK` | two KMEs, one of them the allocator |
| `Etsi004Safety` | `ReadOnce`, `ClosedHoldsNothing`, `ChunkImmutable`, `KeepsPromise` (the refinement of `KeyDelivery`); `NothingLost`; `ClosedTogether` of ids used once | the same, and `~Contended`; for `NothingLost` also that nothing expires; for `ClosedTogether`, with any contention, no fault and one application process per KME |
| `ParamStoreProofs` | `TypeOK`, `LastChangeApplied`, `FlagOfSteadyRound` | the default backend is one of the backends |
| `PpkRotationProofs` | `TypeOK`, `NeverStranded`, `RetiredIsGone`, `NoOrphans`, `CleanRotationAgrees` | one node drives the IKE_SA |
| `ControlPlaneProofs` | `TypeOK`, `DivergenceIsReported`, `ConfirmedIsApplied`, `DraftIsKept`, `VerdictIsCurrent` | what is posted is a change |
| `WebuiProofs` | seven of the ten properties of `webui` | the relations between the limits of the pages, such as a threshold of the lab that is at most what a refill leaves |

All but `PeersHoldLive`, `ChunksAreNotLost` and `ClosesMeet` hold under every combination of the faults the module knows, any
number of them, and every bound: the bounds on counters are constants like the others, so that a
theorem speaks of behaviours of any length. One thing stays as small as the run has
it: the network of `/protocol-lab` in `RouteGoesRound` and `KeysAddUp` is the one
`MCWebui` defines, with its five links.

### The inductive invariants

An invariant the runs check is seldom inductive. What each proof adds, and why:

- *Pool.* `NoDoubleHandout`: nothing in the state of a ring says that its next key is
  unused, so `HandoutInv` adds that a key some ring holds as *local* is its own KME's,
  was produced, and was never used, and that a serial number not yet given is unused.
  Only `RoundAccepted` makes a key local, and a fresh one: a replica never loses its
  flag, so neither a late POST nor a restart hands a key out again.
  `RingIndexed` needs `OrderInv`, that the ring's order is one of exactly its keys, for
  eviction to remove from both. `DroppedStayOut` needs `DropInv`: a taken key is gone
  from the allocator, and every dropped key of the peer is in the memory `_withdrawn`,
  from which nothing is forgotten while no more than `Capacity` keys were dropped. The
  property has that condition because the code's memory is trimmed to the capacity;
  after more keys, a late enough POST brings one back.
  `PeerHoldsLive` is about the order of two rings, and `LineInv` compares them: the keys
  of one KME enter both rings in the order of their production (`AgeInv`, and `PostInv`
  for those on their way), and leave its own ring from the front, so that what it may
  still hand out is the newest of them (`NoGap`). When the peer's ring is about to evict
  one of these, every replica in it is one of these as well, and `PaceInv` counts: the
  two producers aim at `2 * Low + Share` local keys at most, which `limits()` keeps
  within the capacity, so the ring is not full (`EvictsNoLive`). The lemmas on
  `OrderedSet` (`KeepType`, `ConcatType`, ...) carry the containers of all of it.
- *Streams.* A step of `Etsi004` changes the calls in one of two ways (`Ends`, `Starts`)
  and the chunks in one of six (`Forgets`, `Creates`, `Trims`, `Reads`, `Makes`,
  `Stores`). `StepEffect` proves that once for all actions, and the invariants are
  proved of the effects. `SlotsInv` says that only the allocator pushes and only the
  other KME asks, that an index of a stream is empty once delivered or closed, and
  that the allocator's indices are below its `next_alloc`.
  The refinement adds `Single` (an id opened once has one object per KME that anything
  refers to), `Homes` (a chunk is at one index of one stream, and an index of an id
  used once has one chunk, wherever it is: in a slot, on the wire, in a call, read),
  `Kept` (what was read or is held was stored), `Rpc` (who awaits an answer has one
  request or one handler out, about the same thing) and `Acked` (what was acknowledged
  was stored by the peer). `Acked` is the hard one: a repeat on an index the peer has
  delivered is acknowledged without a look at the bytes, and only `Homes` says that
  they were the same. `EnginesKeepPromise` then maps `Makes`, `Stores`, `Reads` and
  `Creates` to the four steps of `KeyDelivery` and the other effects to a stutter.
  `ChunksAreNotLost` (`NothingLost`) is about where a chunk is *at least*, and so about who
  may take it away: nothing but a close does where nothing expires. `EndsInv` says what a KME
  may know of the other end: who asks about a stream, or has it from the peer, has met a
  peer that had one, and whoever says that it closes has closed. For an id opened once a
  request to close, or an answer that the stream is lost, then means that the sender's end
  is closed for good. `LiveInv` says of an id open at both ends (`Live`) that no end is closed
  and nobody was told so (`NoneClosed`, `NoneLost`), that the allocator had every chunk up to
  `next_alloc` and the peer has or had each one that is not still to be pushed (`AllHad`), and
  that a push was acknowledged only where the peer has or had its chunk (`AcksHad`). The
  four need each other: the allocator lets a chunk go when the push of that index is
  acknowledged, and `Homes` says that the push was of this chunk. `MarkedStep` is what all
  actions have in common for this; an id comes alive at its second end with nothing
  made (`SoundFresh`) and stays alive in the same two objects (`Stays`).
  `ClosesMeet` (`ClosedTogether`) says that nobody is left waiting for a close that was
  already served. `ClosesInv` follows the close: once an end of an id used once has closed,
  the other end knows or the request is on its way to it, provided that the other end
  exists. While it does not, its announcement is on the way and the process that sent it
  is the one that would have to call `close` (`OneCall`), so nothing overtakes the announcement.
  A stream in CLOSING has closed and does not know that the other has, because `close` tests
  `peer_closed` after its await (`CloseDone`); the mutant `CloseDoneStale` tests nothing.
- *Configuration.* `Frames` says which stacks of calls occur: only the innermost call goes
  on, the others wait for a parameter, and each has the object it will write to.
  `Applied` adds to the property the lone call (`LoneCall`) or the lone candidate of
  a switch, which has read the parameters in force and has yet to write them;
  `SteadyRound` is the same for a round and its rate.
- *Rotation.* What counts is the order of `SetPSK`: the next id is in charon before it
  becomes the current one, what is unloaded afterwards is older, and what an unload
  left behind (`leaked`) is older still, so no load takes its id. `CredInv` says that
  for each VICI call of `SetPSK`, and `WriteInv` where the agreed key is while a
  write has met no fault.
- *Control plane.* `FanInv`: while a fan-out is at work there is no agreement on its
  aspect, and one that ran alone knows what is in force at a KME that answered it
  ok. `VerdictInv`: the cached verdict, and each one being computed, is of the
  parameters in force, or the change that made it stale is still to be answered, or a
  named excuse is on.
- *Web UI.* `E2EInv`, `CycleInv` and `CascadeInv` relate the keys of a cycle to
  its phase and the clock of an outage to the timer; `EngineInv` names what is pending
  at each await of the pass over the tiers; `TableInv` follows one row from Docker to
  the page; `SampleInv` bounds the age of what a probe brings back, and says what is
  still stored where the service is still spared. `LabInv` has `RouteInv`, that the
  route is one the choice may give for the failures there are, and `PadsInv`, that what
  left the stores at each end is what was relayed. `StreamsInv` says of the key managers
  that a side was given exactly the chunks its stream calls delivered, that those are
  among the chunks it has, and that a stream only one side opened never had any.

### Hypotheses beyond the constants

`PeersHoldLive` assumes that no POST is late and that no KME restarts; POSTs and pushes
may be lost, and a POST may outlive its client behind a lock. Neither hypothesis can go:
after a restart the peer has lost what it answered for, and of two POSTs of one KME that
are in the network together the younger may arrive first, so that the older key is
the newer entry of the peer's ring and the younger, live one is evicted before it. TLC finds both
in instances of the size of `pool_live`.

`ChunksAreNotLost` assumes that streams do not expire: a time to live is each KME's own, so a
chunk or a stream past it goes at one KME while the other still counts on it. Calls that
fail, late service and restarts are allowed: a restart empties the tables, and an id
opened again is not one opened once.

`ClosesMeet` assumes no fault, since the engine does not repeat a close that no one served (the
other end then waits for its time to live), and one application process per KME: with two, one
closes while the other's announcement is still on its way, the close finds no stream and
the stream is made after it. It is proved of every id used once; an id opened again is
checked by TLC in `stream_live`.

The other theorems of `Etsi004Safety` assume `~Contended`, that no one else holds the pool lock at the moment a
chunk is made. Section 5 says why: without it two calls make the same chunk twice, as
`stream_twice` shows, and the two applications may then read different bytes: the theorem of
`KeyDelivery` that they do not is one of the engines only where `EnginesKeepPromise` is.

`VerdictStaysCurrent` is stated of `ControlPlane`, for any set of pages; the conjunct of
`webui` is its instance without a page.

### What is model-checked only, and why

- Every liveness property: `ProducerRefills`, `LockReleased`, `CallsReturn`, `FileNoticed`,
  `CatchesUp`. They need `ENABLED`, which the prover does not treat.
- `ExportsAreKept` and `FilesAreDelivered` sum sizes and units over a set of files or
  frames: what such a sum does when a file goes is an induction over the set.
- `ClosedTogether` of an id that is opened again, and `TypeOK` of `MCWebui`, have no proof.

## 5. Where the runs assume the pool lock free

`KeepsPromise` and the properties of single streams are checked, and proved, for a pool
lock that is free at the moment a chunk is made (`Contended = FALSE`), as in all stream
runs but `stream_live`; `stream_twice` says what happens when it is not. What they show
is that the protocol between the engines is right once the tests of `_obtain` and what
they protect are one step. `KeyPool` says when that is so: the lock is held across an
await only while the producer POSTs a fresh key.

## 6. Not modelled, and why

Physics, rates and QBER are numerical simulation; a round is accepted or aborted, or
tagged with the parameters it used. Reconciliation and privacy amplification are
randomised algorithms over long bit strings that promise a probability. The QoS
negotiation of ETSI 004 computes an answer and changes nothing. The QKDNetSim facade
is an optional overlay in front of a C++ simulator. HTTP validation, authentication,
metrics, logging, rate limits (a library's counter) and the WebSocket feed change no
state a property reads. Presentation, charts, static pages, scripts and one-shot
probes have no interacting state. arnika, strongSwan, Docker and the browser are
external; the modules have of them what the code depends on.

Some hazards are listed without a property, with the reason: an index that grows, a
share that is exceeded, the keys of a stored chunk that `dec_keys` still resolves until
`on_chunk` drops them, and the edits typed during an Apply that its answer drops are
behaviours of the code, and nothing written says what should happen to a stream
reopened while it closes.

## 7. Plan

1. *Streams*: `ClosedTogether` of an id that is opened again: what the requests of its
   earlier streams, still on their way, find at the other end.
2. *Web UI*: `TypeOK` of `MCWebui` and its instance of `VerdictIsCurrent`; of the
   exports, the parts that need no sum.
3. *QoS negotiation* with the reservations of streams that two KMEs announce to each
   other at once, and the remaining pages.
