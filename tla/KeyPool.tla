------------------------------ MODULE KeyPool ------------------------------
(***************************************************************************)
(* The key pools of the two KMEs of a link (services/bb84-kme/app/         *)
(* keypool.py), and what their callers do to them: the producer task, the  *)
(* peer's POST /internal/sync, ETSI GS QKD 014 enc_keys / dec_keys, and    *)
(* the ETSI GS QKD 004 engine taking keys for its chunks.                  *)
(*                                                                         *)
(* Concurrency.  Each KME is one asyncio loop, so code between two awaits  *)
(* is atomic.  The pool lock is held across an await in one place only:    *)
(* _record keeps it while it POSTs the new key to the peer.  Every other   *)
(* critical section is one step that requires the lock to be free.         *)
(*                                                                         *)
(* asyncio.Lock is FIFO: handlers that found it held wait in arrival order *)
(* and the producer that released it queues up behind them.                *)
(*                                                                         *)
(* Time.  The sync POST gives up after 2 s.  A live peer answers sooner    *)
(* unless the handler waits for the peer's lock, so the client times out   *)
(* in that case only, or, under the fault "late", at any moment.  A        *)
(* request the client gave up on is still served when its turn comes.      *)
(***************************************************************************)
EXTENDS Naturals, FiniteSets, OrderedSet

CONSTANTS
  Kme,          \* the two KMEs
  Peer,         \* Peer[k] is the other KME
  Allocator,    \* the KME whose 004 engine creates chunks
  Low,          \* simulator.pool_low_watermark
  Capacity,     \* simulator.pool_max_size
  Share,        \* floor(etsi004.max_pool_share * Capacity)
  Faults,       \* a subset of AllFaults
  MaxKeys,      \* bound: keys each KME produces
  MaxRestarts   \* bound: process restarts of the pair

\* "late": any sync POST may outlive its client's 2 s timeout.
\* "lost": a sync POST or a chunk push may never reach the peer.
\* "restart": a KME process may restart, losing its in-memory pool.
AllFaults == {"late", "lost", "restart"}

ASSUME KmeAssumption ==
  /\ Allocator \in Kme
  /\ Kme = {Allocator, Peer[Allocator]}
  /\ Peer \in [Kme -> Kme]
  /\ \A k \in Kme : Peer[k] # k /\ Peer[Peer[k]] = k

\* etsi004.limits() refuses to start when 2 * Low + Share > Capacity.
ASSUME SizeAssumption ==
  /\ Low \in Nat /\ Capacity \in Nat \ {0} /\ Share \in Nat
  /\ MaxKeys \in Nat /\ MaxRestarts \in Nat
  /\ 2 * Low + Share <= Capacity

ASSUME FaultAssumption == Faults \subseteq AllFaults

\* A key_ID is a fresh UUID: here, the KME that produced it and a serial number.
Key == Kme \X (1 .. MaxKeys)
Home(key) == key[1]

VARIABLES
  buf,        \* buf[k]: the ring _buf, an ordered set of keys
  byId,       \* byId[k]: the keys of the index _by_id
  replica,    \* replica[k]: the keys of the index whose flag replicated is set
  withdrawn,  \* withdrawn[k]: the ordered memory _withdrawn
  extra,      \* extra[k]: _extra_target
  prod,       \* prod[k]: where the producer task is
  wire,       \* sync POSTs in the network, named by their keys
  queue,      \* queue[k]: sync POSTs at k waiting for the lock, in order
  pushed,     \* chunks the allocator pushed that the peer has not received
  storing,    \* chunks the peer stored and whose replicas it still has to drop
  emitted,    \* history: emitted[k], keys produced so far
  acked,      \* history: keys the peer answered for
  issued,     \* history: issued[key], times enc_keys handed it out
  streamed,   \* history: streamed[key], times a 004 chunk took it
  dropped,    \* history: keys the peer has dropped from its 014 side
  restarts    \* bound: restarts so far

pools == <<buf, byId, replica, withdrawn, extra, prod>>
flight == <<wire, queue, pushed, storing>>
history == <<emitted, acked, issued, streamed, dropped, restarts>>
vars == <<pools, flight, history>>

ProducerStates == {"idle", "round", "syncing"}

TypeOK ==
  /\ buf \in [Kme -> OrderedSetOf(Key)]
  /\ byId \in [Kme -> SUBSET Key]
  /\ replica \in [Kme -> SUBSET Key]
  /\ withdrawn \in [Kme -> OrderedSetOf(Key)]
  /\ extra \in [Kme -> 0 .. Capacity - 2 * Low]
  /\ prod \in [Kme -> ProducerStates]
  /\ wire \subseteq Key
  /\ queue \in [Kme -> OrderedSetOf(Key)]
  /\ pushed \subseteq OrderedSetOf(Key)
  /\ storing \subseteq OrderedSetOf(Key)
  /\ emitted \in [Kme -> 0 .. MaxKeys]
  /\ acked \subseteq Key /\ dropped \subseteq Key
  /\ issued \in [Key -> Nat] /\ streamed \in [Key -> Nat]
  /\ restarts \in 0 .. MaxRestarts

-----------------------------------------------------------------------------
(* Reading the pool.                                                       *)

Locals(k) == {key \in buf[k].elems : key \notin replica[k]}
Dispensable(k) == Cardinality(Locals(k))
LockFree(k) == prod[k] # "syncing"

\* dec_keys at k resolves key: get_by_id takes no lock.
Resolves(k, key) == key \in byId[k]

\* The key whose sync POST k is waiting for, and whether it is unanswered.
Syncing(k) == <<k, emitted[k]>>
Unanswered(k) == Syncing(k) \in wire \cup queue[Peer[k]].elems

\* Mutant: the eviction test is off by one.
EvictedLate(k) == IF Cardinality(buf[k].elems) > Capacity THEN Oldest(buf[k], 1) ELSE {}

\* What a full ring drops to make room: its oldest entry.
Evicted(k) == IF Cardinality(buf[k].elems) = Capacity THEN Oldest(buf[k], 1) ELSE {}

\* _admit: into the ring and the index, evicting from both.
Admit(k, key, isReplica) ==
  /\ buf' = [buf EXCEPT ![k] = Append1(Without(@, Evicted(k)), key)]
  /\ byId' = [byId EXCEPT ![k] = (@ \ Evicted(k)) \cup {key}]
  /\ replica' = [replica EXCEPT
                   ![k] = (@ \ Evicted(k)) \cup (IF isReplica THEN {key} ELSE {})]

-----------------------------------------------------------------------------
(* The producer task.                                                      *)

Init ==
  /\ buf = [k \in Kme |-> Empty] /\ withdrawn = [k \in Kme |-> Empty]
  /\ byId = [k \in Kme |-> {}] /\ replica = [k \in Kme |-> {}]
  /\ extra = [k \in Kme |-> 0]
  /\ prod = [k \in Kme |-> "idle"]
  /\ queue = [k \in Kme |-> Empty]
  /\ wire = {} /\ pushed = {} /\ storing = {}
  /\ emitted = [k \in Kme |-> 0]
  /\ acked = {} /\ dropped = {}
  /\ issued = [key \in Key |-> 0] /\ streamed = [key \in Key |-> 0]
  /\ restarts = 0

\* Mutants: the gate counts the peer's replicas, or is off by one.
BelowTargetWithReplicas(k) == Cardinality(buf[k].elems) < Low + extra[k]
BelowTargetInclusive(k) == Dispensable(k) <= Low + extra[k]

\* The gate: below it the producer runs a round at once, at or above it the
\* producer sleeps on _wake or the idle timeout and looks again.
BelowTarget(k) == Dispensable(k) < Low + extra[k]

StartRound(k) ==
  /\ prod[k] = "idle"
  /\ BelowTarget(k)
  /\ emitted[k] < MaxKeys
  /\ prod' = [prod EXCEPT ![k] = "round"]
  /\ UNCHANGED <<buf, byId, replica, withdrawn, extra, flight, history>>

\* _record of a round that aborted, or that the backend could not run.
RoundAborted(k) ==
  /\ prod[k] = "round"
  /\ prod' = [prod EXCEPT ![k] = "idle"]
  /\ UNCHANGED <<buf, byId, replica, withdrawn, extra, flight, history>>

\* _record of an accepted round, up to the await of the POST, lock held.
RoundAccepted(k) ==
  LET key == <<k, emitted[k] + 1>>
  IN /\ prod[k] = "round"
     /\ queue[k] = Empty
     /\ emitted' = [emitted EXCEPT ![k] = @ + 1]
     /\ Admit(k, key, FALSE)
     /\ wire' = wire \cup {key}
     /\ prod' = [prod EXCEPT ![k] = "syncing"]
     /\ UNCHANGED <<withdrawn, extra, queue, pushed, storing,
                    acked, issued, streamed, dropped, restarts>>

\* The POST returned (or failed to connect, which _sync_to_peer swallows).
SyncAnswered(k) ==
  /\ prod[k] = "syncing"
  /\ ~Unanswered(k)
  /\ prod' = [prod EXCEPT ![k] = "idle"]
  /\ UNCHANGED <<buf, byId, replica, withdrawn, extra, flight, history>>

\* Mutant: the HTTP client has no timeout.
MayNeverTimeOut(k) == FALSE

\* A prompt network has brought the request to the peer within the 2 s.
MayTimeOut(k) == Syncing(k) \in wire => "late" \in Faults

\* The client's 2 s passed; the peer will still serve the request.
SyncTimeout(k) ==
  /\ prod[k] = "syncing"
  /\ Unanswered(k)
  /\ MayTimeOut(k)
  /\ prod' = [prod EXCEPT ![k] = "idle"]
  /\ UNCHANGED <<buf, byId, replica, withdrawn, extra, flight, history>>

\* POST /internal/sync arrives at k and finds the lock held or awaited.
SyncQueued(k, key) ==
  /\ key \in wire
  /\ ~LockFree(k) \/ queue[k] # Empty
  /\ wire' = wire \ {key}
  /\ queue' = [queue EXCEPT ![k] = Append1(@, key)]
  /\ UNCHANGED <<pools, pushed, storing, history>>

\* Mutant: receive_synced does not look at what a 004 chunk withdrew.
KnownById(k, key) == key \in byId[k]

\* receive_synced ignores a key it has, or whose chunk came first.
Known(k, key) == key \in byId[k] \cup withdrawn[k].elems

\* receive_synced at k with the lock: at once, or when its turn has come.
ReceiveSynced(k, key) ==
  /\ LockFree(k)
  /\ key \in IF queue[k] = Empty THEN wire ELSE Oldest(queue[k], 1)
  /\ wire' = wire \ {key}
  /\ queue' = [queue EXCEPT ![k] = Without(@, {key})]
  /\ acked' = acked \cup {key}
  /\ IF Known(k, key)
       THEN UNCHANGED <<buf, byId, replica>>
       ELSE Admit(k, key, TRUE)
  /\ UNCHANGED <<withdrawn, extra, prod, pushed, storing,
                 emitted, issued, streamed, dropped, restarts>>

-----------------------------------------------------------------------------
(* ETSI GS QKD 014.                                                        *)

\* Mutant: pop_for_enc does not skip replicas.
CandidatesWithReplicas(k) == Oldest(buf[k], 1)

\* What enc_keys may hand out: the first local key of the ring.
Candidates(k) == Oldest(Keep(buf[k], Locals(k)), 1)

\* pop_for_enc: the key leaves the ring and stays in the index.  An empty
\* pool answers 503 and changes nothing but the producer's alarm clock.
PopForEnc(k) ==
  /\ LockFree(k)
  /\ \E key \in Candidates(k) :
       /\ buf' = [buf EXCEPT ![k] = Without(@, {key})]
       /\ issued' = [issued EXCEPT ![key] = @ + 1]
  /\ UNCHANGED <<byId, replica, withdrawn, extra, prod, flight,
                 emitted, acked, streamed, dropped, restarts>>

-----------------------------------------------------------------------------
(* ETSI GS QKD 004 chunks: what the engine does to the two pools.          *)

\* _obtain with enough keys above the 014 floor: take_local_for_stream(n)
\* and, with no await in between, release_extra().
TakeLocalForStream(k, n) ==
  /\ LockFree(k)
  /\ Dispensable(k) >= Low + n
  /\ LET taken == Oldest(Keep(buf[k], Locals(k)), n)
     IN /\ buf' = [buf EXCEPT ![k] = Without(@, taken)]
        /\ byId' = [byId EXCEPT ![k] = @ \ taken]
        /\ pushed' = pushed \cup {Keep(buf[k], taken)}
        /\ streamed' = [key \in Key |->
                          streamed[key] + (IF key \in taken THEN 1 ELSE 0)]
  /\ extra' = [extra EXCEPT ![k] = 0]
  /\ UNCHANGED <<replica, withdrawn, prod, wire, queue, storing,
                 emitted, acked, issued, dropped, restarts>>

\* _obtain short of keys: take_local_for_stream(n) is None, request_extra(n).
ExtraFor(n) == IF n < Capacity - 2 * Low THEN n ELSE Capacity - 2 * Low

\* Mutant: each request comes on top of what was asked for before.
RequestsAddUp(k, n) ==
  /\ LockFree(k)
  /\ Dispensable(k) < Low + n
  /\ extra' = [extra EXCEPT ![k] = @ + ExtraFor(n)]
  /\ UNCHANGED <<buf, byId, replica, withdrawn, prod, flight, history>>

RequestExtra(k, n) ==
  /\ LockFree(k)
  /\ Dispensable(k) < Low + n
  /\ extra[k] < ExtraFor(n)
  /\ extra' = [extra EXCEPT ![k] = ExtraFor(n)]
  /\ UNCHANGED <<buf, byId, replica, withdrawn, prod, flight, history>>

\* on_chunk at k has stored the chunk and waits for the lock of drop_replicas.
StoreChunk(k, chunk) ==
  /\ chunk \in pushed
  /\ ~LockFree(k)
  /\ pushed' = pushed \ {chunk}
  /\ storing' = storing \cup {chunk}
  /\ UNCHANGED <<pools, wire, queue, history>>

\* drop_replicas at k: in the same step as on_chunk's store when the lock is
\* free, else once the lock is.
DropReplicas(k, chunk) ==
  LET all == Concat(withdrawn[k], chunk)
  IN /\ chunk \in pushed \cup storing
     /\ LockFree(k)
     /\ pushed' = pushed \ {chunk}
     /\ storing' = storing \ {chunk}
     /\ dropped' = dropped \cup chunk.elems
     /\ buf' = [buf EXCEPT ![k] = Without(@, chunk.elems)]
     /\ byId' = [byId EXCEPT ![k] = @ \ chunk.elems]
     /\ replica' = [replica EXCEPT ![k] = @ \ chunk.elems]
     /\ withdrawn' = [withdrawn EXCEPT ![k] = Keep(all, Newest(all, Capacity))]
     /\ UNCHANGED <<extra, prod, wire, queue, emitted, acked, issued, streamed, restarts>>

-----------------------------------------------------------------------------
(* Faults.                                                                 *)

LosePost ==
  /\ "lost" \in Faults
  /\ \E key \in wire : wire' = wire \ {key}
  /\ UNCHANGED <<pools, queue, pushed, storing, history>>

LoseChunk ==
  /\ "lost" \in Faults
  /\ \E chunk \in pushed : pushed' = pushed \ {chunk}
  /\ UNCHANGED <<pools, wire, queue, storing, history>>

\* A restarted process comes back with an empty pool; what its old self had
\* sent is still in the network.
Restart(k) ==
  /\ "restart" \in Faults
  /\ restarts < MaxRestarts
  /\ restarts' = restarts + 1
  /\ buf' = [buf EXCEPT ![k] = Empty]
  /\ byId' = [byId EXCEPT ![k] = {}]
  /\ replica' = [replica EXCEPT ![k] = {}]
  /\ withdrawn' = [withdrawn EXCEPT ![k] = Empty]
  /\ extra' = [extra EXCEPT ![k] = 0]
  /\ prod' = [prod EXCEPT ![k] = "idle"]
  /\ queue' = [queue EXCEPT ![k] = Empty]
  /\ storing' = IF k = Allocator THEN storing ELSE {}
  /\ UNCHANGED <<wire, pushed, emitted, acked, issued, streamed, dropped>>

-----------------------------------------------------------------------------
Produce(k) ==
  \/ StartRound(k) \/ RoundAborted(k) \/ RoundAccepted(k)
  \/ SyncAnswered(k) \/ SyncTimeout(k)

Sync(k, key) == SyncQueued(k, key) \/ ReceiveSynced(k, key)

Stream(k) ==
  \/ k = Allocator /\ \E n \in 1 .. Share : TakeLocalForStream(k, n) \/ RequestExtra(k, n)
  \/ k # Allocator /\ \E chunk \in pushed : StoreChunk(k, chunk)
  \/ k # Allocator /\ \E chunk \in pushed \cup storing : DropReplicas(k, chunk)

Next ==
  \/ \E k \in Kme : Produce(k)
  \/ \E key \in Key : Sync(Peer[Home(key)], key)
  \/ \E k \in Kme : PopForEnc(k)
  \/ \E k \in Kme : Stream(k)
  \/ LosePost
  \/ LoseChunk
  \/ \E k \in Kme : Restart(k)

Spec == Init /\ [][Next]_vars

-----------------------------------------------------------------------------
(* Safety.                                                                 *)

\* No key serves two uses: enc_keys hands a key to at most one caller at one
\* KME, and a key a 004 chunk took is never handed out by enc_keys as well.
\* (pop_for_enc, take_local_for_stream, and the replicated flag.)
NoDoubleHandout == \A key \in Key : issued[key] + streamed[key] <= 1

\* The ring never outgrows pool_max_size and every key in it can be resolved:
\* evicting, withdrawing and restarting keep _buf and _by_id together.
RingIndexed ==
  \A k \in Kme : /\ Cardinality(buf[k].elems) <= Capacity
                 /\ buf[k].elems \cup replica[k] \subseteq byId[k]

\* A key this KME may still hand out, and that the peer answered for, the peer
\* can resolve: its ring does not evict what this KME will dispense.
PeerHoldsLive ==
  \A k \in Kme : \A key \in Locals(k) \cap acked : Resolves(Peer[k], key)

\* Once the peer dropped its replicas, no key of a 004 chunk can be resolved
\* through dec_keys at either KME, however late its sync POST arrives, while no
\* KME has restarted, as a new process has no memory of what was withdrawn, and
\* no more keys were dropped than that memory holds, as it is trimmed to capacity.
DroppedStayOut ==
  restarts = 0 /\ Cardinality(dropped) <= Capacity
  => \A k \in Kme : \A key \in dropped : ~Resolves(k, key)

-----------------------------------------------------------------------------
(* Liveness.  The idle timeout makes the producer look at its gate again,  *)
(* rounds are accepted again and again, the HTTP client always times out,  *)
(* and the network and the FIFO lock eventually serve every request.       *)

Fairness ==
  /\ \A k \in Kme : /\ WF_vars(StartRound(k)) /\ SF_vars(RoundAccepted(k))
                    /\ WF_vars(SyncAnswered(k)) /\ WF_vars(SyncTimeout(k))
  /\ \A key \in Key : WF_vars(Sync(Peer[Home(key)], key))

FairSpec == Spec /\ Fairness

\* A pool short of keys it may hand out is refilled, however many replicas of
\* the peer's keys fill its ring (until the model's bound on keys is reached).
ProducerRefills ==
  \A k \in Kme :
    Dispensable(k) < Low ~> (Dispensable(k) >= Low \/ emitted[k] = MaxKeys)

\* _record releases the pool lock, even when each KME waits for the other's.
LockReleased == \A k \in Kme : ~LockFree(k) ~> LockFree(k)
=============================================================================
