------------------------------ MODULE Etsi004 ------------------------------
(***************************************************************************)
(* The ETSI GS QKD 004 engines of the two KMEs of a link                   *)
(* (services/bb84-kme/app/etsi004_engine.py) and the link between them     *)
(* (etsi004_peer.py).  The engine whose SAE_ID sorts first, the allocator, *)
(* makes every chunk and pushes it to the other.                           *)
(*                                                                         *)
(* Concurrency.  Each engine is one asyncio loop: an application call or a *)
(* peer handler is atomic between two awaits, and any number of them are   *)
(* in flight.  A call that awaits the peer is a process with a program     *)
(* counter; it holds a reference to its Stream object, which the engine    *)
(* may meanwhile have closed or removed from its table.                    *)
(*                                                                         *)
(* Data.  A chunk is its serial number (two chunks never have the same     *)
(* bytes) and holds one key.  QoS and metadata are left out, so are the    *)
(* answers that change nothing (T2, T4, T7, T10, T12, T20, T21).           *)
(***************************************************************************)
EXTENDS Naturals, FiniteSets

CONSTANTS
  Kme, Peer,      \* the two KMEs, and Peer[k] the other one
  Allocator,      \* the KME that makes chunks
  App,            \* processes serving application calls
  Handler,        \* processes serving POST /allocate at the allocator
  Site,           \* Site[p], the KME of process p
  Nobody,         \* the caller of a call nobody waits for any more
  Ksid,           \* Key_stream_IDs
  Cap,            \* keys undelivered chunks may hold: floor(share * capacity)
  MaxStreams,     \* etsi004.max_streams
  Contended,      \* whether the pool lock may be held when a chunk is made
  Faults,         \* a subset of AllFaults
  MaxIndex,       \* bound: largest index asked for
  MaxChunks,      \* bound: chunks made
  MaxObjects,     \* bound: Stream objects that exist at once, per id and KME
  MaxLives,       \* bound: streams a KME had for an id when it opens a new one
  MaxFaults       \* bound: failed calls, expiries and restarts

\* "peer": a call to the peer may fail, its request served or not.
\* "ttl": the sweep may find any stream idle, any chunk or record expired.
\* "restart": a KME process may restart and forget its streams.
AllFaults == {"peer", "ttl", "restart"}

Proc == App \cup Handler

ASSUME EngineAssumption ==
  /\ Allocator \in Kme
  /\ Peer \in [Kme -> Kme]
  /\ Kme = {Allocator, Peer[Allocator]}
  /\ \A k \in Kme : Peer[k] # k /\ Peer[Peer[k]] = k
  /\ Site \in [Proc -> Kme]
  /\ \A h \in Handler : Site[h] = Allocator
  /\ App \cap Handler = {} /\ Nobody \notin Proc /\ Ksid # {}
  /\ Contended \in BOOLEAN /\ Faults \subseteq AllFaults

ASSUME BoundAssumption ==
  /\ Cap \in Nat /\ MaxStreams \in Nat
  /\ MaxIndex \in Nat /\ MaxChunks \in Nat /\ MaxObjects \in Nat \ {0}
  /\ MaxLives \in Nat /\ MaxFaults \in Nat

Index == 0 .. MaxIndex
Serial == 1 .. MaxChunks
None == 0                    \* no chunk, no object
Object == 1 .. MaxObjects

VARIABLES
  obj,       \* obj[k][s][n]: the n-th Stream object for s at k
  cur,       \* cur[k][s]: the object in the table `streams`, or None
  call,      \* call[p]: what process p does
  net,       \* requests on their way to a KME
  reply,     \* reply[p]: the answer p's request got, "none" until then
  made,      \* chunks made so far
  confirmed, \* chunks whose flag confirmed_at_peer is set at the allocator
  got,       \* history: got[k][s][i], the chunk k's application read at index i
  stored,    \* history: stored[k], chunks that were ever in a stream at k
  lives,     \* history: lives[k][s], streams k has had for s
  faults     \* bound: failures so far

streams == <<obj, cur>>
calls == <<call, net, reply>>
chunks == <<made, confirmed>>
history == <<got, stored, lives>>
vars == <<streams, calls, chunks, history, faults>>

States == {"PENDING_PEER", "ESTABLISHED", "CLOSING", "CLOSED"}

Stream ==
  [state : States, localOpen : BOOLEAN, peerOpen : BOOLEAN,
   localClosed : BOOLEAN, peerClosed : BOOLEAN, established : BOOLEAN,
   chunk : [Index -> Serial \cup {None}], delivered : SUBSET Index,
   nextAlloc : 0 .. MaxChunks]

NewStream ==
  [state |-> "PENDING_PEER", localOpen |-> FALSE, peerOpen |-> FALSE,
   localClosed |-> FALSE, peerClosed |-> FALSE, established |-> FALSE,
   chunk |-> [i \in Index |-> None], delivered |-> {}, nextAlloc |-> 0]

\* What a process awaits: an answer of the peer, the pool lock ("take"), or the
\* event `established` ("wait").
Awaits == {"announce", "establish", "withdraw", "close", "allocate", "chunk"}
Call ==
  [pc : Awaits \cup {"idle", "take", "wait"}, s : Ksid, n : Object,
   i : Index, x : Serial \cup {None}, predefined : BOOLEAN, from : Proc \cup {Nobody}]

Request ==
  [type : Awaits, to : Kme, s : Ksid, i : Index, x : Serial \cup {None},
   from : Proc \cup {Nobody}]

\* "lost" is HTTP 404, "conflict" 409, "empty" a status other than 0, "failed"
\* a peer that was not reached or did not answer in time.
Replies == {"none", "ok", "empty", "lost", "conflict", "failed"}

TypeOK ==
  /\ obj \in [Kme -> [Ksid -> [Object -> Stream]]]
  /\ cur \in [Kme -> [Ksid -> 0 .. MaxObjects]]
  /\ call \in [Proc -> Call]
  /\ net \subseteq Request
  /\ reply \in [Proc -> Replies]
  /\ made \in 0 .. MaxChunks /\ confirmed \subseteq Serial
  /\ got \in [Kme -> [Ksid -> [Index -> Serial \cup {None}]]]
  /\ stored \in [Kme -> SUBSET Serial]
  /\ lives \in [Kme -> [Ksid -> Nat]]
  /\ faults \in 0 .. MaxFaults

-----------------------------------------------------------------------------
(* Reading the engine.                                                     *)

Has(k, s) == cur[k][s] # None
The(k, s) == obj[k][s][cur[k][s]]
OpenWhileKept(k, s) == Has(k, s)   \* mutant: the state is not tested
Open(k, s) == Has(k, s) /\ The(k, s).state # "CLOSED"
OpenCount(k) ==
  Cardinality({s \in Ksid : Has(k, s) /\ The(k, s).state \in {"PENDING_PEER", "ESTABLISHED"}})

\* Keys in chunks of k that k's application has not read.
Held(k) ==
  Cardinality({x \in Ksid \X Index : Has(k, x[1]) /\ The(k, x[1]).chunk[x[2]] # None})

Idle == [pc |-> "idle", s |-> CHOOSE s \in Ksid : TRUE, n |-> 1, i |-> 0,
         x |-> None, predefined |-> FALSE, from |-> Nobody]
Free(p) == call[p].pc = "idle"

\* The stream of p's call, which may have left the table.
Mine(p) == obj[Site[p]][call[p].s][call[p].n]

-----------------------------------------------------------------------------
(* Writing it.                                                             *)

SetStream(k, s, n, o) == obj' = [obj EXCEPT ![k][s][n] = o]

\* _to_closed: the chunks are wiped.
Closed(o) == [o EXCEPT !.state = "CLOSED", !.chunk = [i \in Index |-> None]]

\* A new Stream object for s enters the table of k, in the place of one that no
\* table and no call refers to.
Spare(k, s, n) ==
  /\ cur[k][s] # n
  /\ \A p \in Proc : ~Free(p) /\ Site[p] = k /\ call[p].s = s => call[p].n # n

Create(k, s, o) ==
  /\ cur[k][s] = None
  /\ \E n \in Object :
       /\ Spare(k, s, n) /\ \A m \in 1 .. n - 1 : ~Spare(k, s, m)
       /\ SetStream(k, s, n, o)
       /\ cur' = [cur EXCEPT ![k][s] = n]
  /\ lives' = [lives EXCEPT ![k][s] = @ + 1]
  /\ got' = [got EXCEPT ![k][s] = [i \in Index |-> None]]

Remove(k, s) == cur' = [cur EXCEPT ![k][s] = None]

\* p sends a request of type t on behalf of call c and awaits the answer; inbox
\* is net without the request p is handling, if it handles one.
Send(p, c, t, inbox) ==
  /\ net' = inbox \cup {[type |-> t, to |-> Peer[Site[p]], s |-> c.s,
                       i |-> c.i, x |-> c.x, from |-> p]}
  /\ call' = [call EXCEPT ![p] = [c EXCEPT !.pc = t]]

\* p's call c returns; a handler answers r to the process that waits for it.
Finish(p, c, r) ==
  /\ call' = [call EXCEPT ![p] = Idle]
  /\ reply' = [q \in Proc |-> IF q = p THEN "none" ELSE IF q = c.from THEN r ELSE reply[q]]

\* The handler of request m answers r within one step.
Answer(m, r) ==
  /\ net' = net \ {m}
  /\ reply' = [q \in Proc |-> IF q = m.from THEN r ELSE reply[q]]
  /\ UNCHANGED call

\* p has heard the answer r.
Hears(p, t, r) == call[p].pc = t /\ reply[p] = r
Clear(p) == reply' = [reply EXCEPT ![p] = "none"]

-----------------------------------------------------------------------------
Init ==
  /\ obj = [k \in Kme |-> [s \in Ksid |-> [n \in Object |-> NewStream]]]
  /\ cur = [k \in Kme |-> [s \in Ksid |-> None]]
  /\ call = [p \in Proc |-> Idle]
  /\ net = {} /\ reply = [p \in Proc |-> "none"]
  /\ made = 0 /\ confirmed = {}
  /\ got = [k \in Kme |-> [s \in Ksid |-> [i \in Index |-> None]]]
  /\ stored = [k \in Kme |-> {}]
  /\ lives = [k \in Kme |-> [s \in Ksid |-> 0]]
  /\ faults = 0

-----------------------------------------------------------------------------
(* OPEN_CONNECT.                                                           *)

\* A Key_stream_ID no table holds: register it here, announce it to the peer.
\* Without a predefined id the engine draws a fresh UUID.
OpenNew(p, s, predefined) ==
  LET k == Site[p]
      c == [Idle EXCEPT !.s = s, !.n = cur'[k][s], !.predefined = predefined]
  IN /\ Free(p)
     /\ OpenCount(k) < MaxStreams
     /\ lives[k][s] < MaxLives
     /\ ~predefined => \A j \in Kme : lives[j][s] = 0
     /\ Create(k, s, [NewStream EXCEPT !.localOpen = TRUE])
     /\ Send(p, c, "announce", net)
     /\ UNCHANGED <<reply, chunks, stored, faults>>

\* The peer holds the id as a closed stream (T7), or did not answer (T3):
\* the id is deleted here, whichever object it names by now.
OpenRefused(p) ==
  /\ \E r \in {"conflict", "lost", "failed"} : Hears(p, "announce", r)
  /\ Remove(Site[p], call[p].s)
  /\ Finish(p, call[p], "none")
  /\ UNCHANGED <<obj, net, chunks, history, faults>>

\* T1, or for a predefined id the wait for the peer application.
OpenAnnounced(p) ==
  /\ Hears(p, "announce", "ok")
  /\ IF call[p].predefined
       THEN /\ call' = [call EXCEPT ![p].pc = "wait"]
            /\ Clear(p)
       ELSE Finish(p, call[p], "none")
  /\ UNCHANGED <<streams, net, chunks, history, faults>>

\* T6: the peer application opened within Timeout ...
OpenJoined(p) ==
  /\ call[p].pc = "wait"
  /\ Mine(p).established
  /\ Finish(p, call[p], "none")
  /\ UNCHANGED <<streams, net, chunks, history, faults>>

\* ... or did not: roll back on both KMEs.
OpenTimeout(p) ==
  /\ call[p].pc = "wait"
  /\ ~Mine(p).established
  /\ Remove(Site[p], call[p].s)
  /\ Send(p, call[p], "withdraw", net)
  /\ UNCHANGED <<obj, reply, chunks, history, faults>>

OpenWithdrawn(p) ==
  /\ call[p].pc = "withdraw" /\ reply[p] # "none"
  /\ Finish(p, call[p], "none")
  /\ UNCHANGED <<streams, net, chunks, history, faults>>

\* The peer application opened first: confirm with the peer KM ...
MayJoin(o) == o.state # "CLOSED" /\ ~o.peerClosed /\ ~o.localOpen

OpenJoin(p, s) ==
  /\ Free(p)
  /\ Has(Site[p], s) /\ MayJoin(The(Site[p], s))
  /\ Send(p, [Idle EXCEPT !.s = s, !.n = cur[Site[p]][s]], "establish", net)
  /\ UNCHANGED <<streams, reply, chunks, history, faults>>

\* ... then commit here (T5), or leave the stream as it is (T3, T6).
OpenConfirmed(p) ==
  LET c == call[p]
  IN /\ Hears(p, "establish", "ok")
     /\ SetStream(Site[p], c.s, c.n,
          [Mine(p) EXCEPT !.localOpen = TRUE, !.state = "ESTABLISHED", !.established = TRUE])
     /\ Finish(p, c, "none")
     /\ UNCHANGED <<cur, net, chunks, history, faults>>

OpenNotConfirmed(p) ==
  /\ \E r \in {"lost", "failed"} : Hears(p, "establish", r)
  /\ Finish(p, call[p], "none")
  /\ UNCHANGED <<streams, net, chunks, history, faults>>

-----------------------------------------------------------------------------
(* GET_KEY and the making of chunks.                                       *)

\* The application reads chunk i and the engine erases it ...
ReadNext(o, i) == [o EXCEPT !.chunk[i] = None, !.delivered = @ \cup {i + 1}]   \* mutant
Read(o, i) == [o EXCEPT !.chunk[i] = None, !.delivered = @ \cup {i}]

Deliver(p, c) ==
  LET o == obj[Site[p]][c.s][c.n]
  IN /\ SetStream(Site[p], c.s, c.n, Read(o, c.i))
     /\ got' = [got EXCEPT ![Site[p]][c.s][c.i] = o.chunk[c.i]]
     /\ Finish(p, c, "none")
     /\ UNCHANGED <<cur, net, chunks, stored, lives, faults>>

\* The call ends and nothing else changes.
GiveUp(p, c, r, inbox) ==
  /\ Finish(p, c, r)
  /\ net' = inbox
  /\ UNCHANGED <<streams, chunks, history, faults>>

\* ... or its metadata buffer is too small and the chunk stays (T12).
DeliverIfItFits(p, c) == Deliver(p, c) \/ GiveUp(p, c, "none", net)

\* The keys of the pool become chunk i, pushed to the peer.
MakeChunk(p, c, inbox) ==
  LET o == obj[Allocator][c.s][c.n]
      x == made + 1
  IN /\ made < MaxChunks
     /\ made' = x
     /\ SetStream(Allocator, c.s, c.n,
          [o EXCEPT !.chunk[c.i] = x, !.nextAlloc = @ + 1])
     /\ stored' = [stored EXCEPT ![Allocator] = @ \cup {x}]
     /\ Send(p, [c EXCEPT !.x = x], "chunk", inbox)
     /\ UNCHANGED <<cur, reply, confirmed, got, lives, faults>>

\* take_local_for_stream: the keys above the 014 floor, or none.
Take(p, c, inbox) == MakeChunk(p, c, inbox) \/ GiveUp(p, c, "empty", inbox)

\* _obtain at the allocator up to its first await.  Taking the keys awaits the
\* pool lock, which suspends the call only when the lock is held or waited for.
LockWanted == \E q \in Proc : call[q].pc = "take"

MayMake(o, i) == i = o.nextAlloc /\ Held(Allocator) < Cap

Obtain(p, c, inbox) ==
  LET o == obj[Allocator][c.s][c.n]
      x == o.chunk[c.i]
  IN \/ /\ x # None /\ x \notin confirmed
        /\ Send(p, [c EXCEPT !.x = x], "chunk", inbox)
        /\ UNCHANGED <<streams, reply, chunks, history, faults>>
     \/ x # None /\ x \in confirmed /\ GiveUp(p, c, "ok", inbox)
     \/ x = None /\ ~MayMake(o, c.i) /\ GiveUp(p, c, "empty", inbox)
     \/ x = None /\ MayMake(o, c.i) /\ ~LockWanted /\ Take(p, c, inbox)
     \/ /\ x = None /\ MayMake(o, c.i) /\ Contended
        /\ call' = [call EXCEPT ![p] = [c EXCEPT !.pc = "take"]]
        /\ net' = inbox
        /\ UNCHANGED <<streams, reply, chunks, history, faults>>

TakeLater(p) == call[p].pc = "take" /\ Take(p, call[p], net)

\* GET_KEY for index i (a null index is the smallest one not yet delivered).
ReadableUnconfirmed(k, o, i) == o.chunk[i] # None   \* mutant
Readable(k, o, i) ==
  o.chunk[i] # None /\ (k = Allocator => o.chunk[i] \in confirmed)

GetKey(p, s, i) ==
  LET k == Site[p]
      o == The(k, s)
      c == [Idle EXCEPT !.s = s, !.n = cur[k][s], !.i = i]
  IN /\ Free(p)
     /\ Has(k, s) /\ o.state \notin {"CLOSED", "PENDING_PEER"} /\ ~o.localClosed
     /\ i \notin o.delivered
     /\ IF Readable(k, o, i) THEN DeliverIfItFits(p, c)
        ELSE /\ ~o.peerClosed
             /\ IF k = Allocator THEN Obtain(p, c, net)
                ELSE /\ Send(p, c, "allocate", net)
                     /\ UNCHANGED <<streams, reply, chunks, history, faults>>

\* The end of get_key after _obtain succeeded: the chunk is read from the
\* table again, and may be gone.
ReadObtained(p) ==
  LET c == call[p]
  IN IF Mine(p).chunk[c.i] # None THEN DeliverIfItFits(p, c) ELSE GiveUp(p, c, "none", net)

\* The allocator's application reads its chunk once the peer acknowledged the
\* push; the allocate handler reports to its caller.
ChunkStored(p) ==
  /\ Hears(p, "chunk", "ok")
  /\ confirmed' = confirmed \cup {call[p].x}
  /\ LET c == call[p]
         o == Mine(p)
     IN \/ /\ p \in App /\ o.chunk[c.i] # None
           /\ SetStream(Site[p], c.s, c.n, Read(o, c.i))
           /\ got' = [got EXCEPT ![Site[p]][c.s][c.i] = o.chunk[c.i]]
        \/ UNCHANGED <<obj, got>>
  /\ Finish(p, call[p], "ok")
  /\ UNCHANGED <<cur, net, made, stored, lives, faults>>

\* 409 is an exception _obtain does not catch; a failed push keeps the chunk.
ChunkDropped(p) ==   \* mutant: a failed push discards the chunk
  \E r \in {"conflict", "failed"} :
    /\ Hears(p, "chunk", r)
    /\ SetStream(Site[p], call[p].s, call[p].n, [Mine(p) EXCEPT !.chunk[call[p].i] = None])
    /\ Finish(p, call[p], "empty")
    /\ UNCHANGED <<cur, net, chunks, history, faults>>

ChunkRefused(p) ==
  \E r \in {"conflict", "failed"} :
    Hears(p, "chunk", r) /\ GiveUp(p, call[p], IF r = "failed" THEN "empty" ELSE r, net)

\* The peer no longer knows the stream (T15): this side closes it.
PeerLostStream(p) ==
  LET c == call[p]
  IN /\ \E t \in {"chunk", "allocate"} : Hears(p, t, "lost")
     /\ SetStream(Site[p], c.s, c.n, Closed(Mine(p)))
     /\ Finish(p, c, "empty")
     /\ UNCHANGED <<cur, net, chunks, history, faults>>

\* The answer to POST /allocate at the other KME.
Allocated(p) == Hears(p, "allocate", "ok") /\ ReadObtained(p)
NotAllocated(p) ==
  \E r \in {"empty", "conflict", "failed"} :
    Hears(p, "allocate", r) /\ GiveUp(p, call[p], "none", net)

-----------------------------------------------------------------------------
(* CLOSE.                                                                  *)

Close(p, s) ==
  LET k == Site[p]
  IN /\ Free(p)
     /\ Open(k, s)
     /\ SetStream(k, s, cur[k][s], [The(k, s) EXCEPT !.localClosed = TRUE])
     /\ Send(p, [Idle EXCEPT !.s = s, !.n = cur[k][s]], "close", net)
     /\ UNCHANGED <<cur, reply, chunks, history, faults>>

CloseDoneStale(p) ==   \* mutant: peer_closed tested before the await
  /\ call[p].pc = "close" /\ reply[p] # "none"
  /\ SetStream(Site[p], call[p].s, call[p].n, [Mine(p) EXCEPT !.state = "CLOSING"])
  /\ Finish(p, call[p], "none")
  /\ UNCHANGED <<cur, net, chunks, history, faults>>

\* Whatever the peer answered: T17 when it closed too, else T16.
CloseDone(p) ==
  LET c == call[p]
      o == Mine(p)
  IN /\ c.pc = "close" /\ reply[p] # "none"
     /\ SetStream(Site[p], c.s, c.n,
          IF o.peerClosed THEN Closed(o) ELSE [o EXCEPT !.state = "CLOSING"])
     /\ Finish(p, c, "none")
     /\ UNCHANGED <<cur, net, chunks, history, faults>>

-----------------------------------------------------------------------------
(* The peer's handlers.                                                    *)

Refuse(m, r) == Answer(m, r) /\ UNCHANGED <<streams, chunks, history, faults>>

OnAnnounce(m) ==
  LET k == m.to
      o == The(k, m.s)
      joined == [o EXCEPT !.peerOpen = TRUE,
                          !.state = IF o.localOpen THEN "ESTABLISHED" ELSE @,
                          !.established = @ \/ o.localOpen]
  IN /\ m.type = "announce"
     /\ \/ Has(k, m.s) /\ o.state = "CLOSED" /\ Refuse(m, "conflict")
        \/ /\ Has(k, m.s) /\ o.state # "CLOSED"
           /\ SetStream(k, m.s, cur[k][m.s], joined)
           /\ Answer(m, "ok")
           /\ UNCHANGED <<cur, chunks, history, faults>>
        \/ /\ Create(k, m.s, [NewStream EXCEPT !.peerOpen = TRUE])
           /\ Answer(m, "ok")
           /\ UNCHANGED <<chunks, stored, faults>>

OnEstablish(m) ==
  LET k == m.to
  IN /\ m.type = "establish"
     /\ \/ (Open(k, m.s) => The(k, m.s).localClosed) /\ Refuse(m, "lost")
        \/ /\ Open(k, m.s) /\ ~The(k, m.s).localClosed
           /\ SetStream(k, m.s, cur[k][m.s],
                [The(k, m.s) EXCEPT !.peerOpen = TRUE, !.state = "ESTABLISHED",
                                    !.established = TRUE])
           /\ Answer(m, "ok")
           /\ UNCHANGED <<cur, chunks, history, faults>>

OnWithdraw(m) ==
  LET k == m.to
  IN /\ m.type = "withdraw"
     /\ IF Has(k, m.s) /\ ~The(k, m.s).localOpen THEN Remove(k, m.s) ELSE UNCHANGED cur
     /\ Answer(m, "ok")
     /\ UNCHANGED <<obj, chunks, history, faults>>

\* The non-allocator asks for a chunk: a handler process runs _obtain.
OnAllocate(h, m) ==
  LET o == The(Allocator, m.s)
      c == [Idle EXCEPT !.s = m.s, !.n = cur[Allocator][m.s], !.i = m.i, !.from = m.from]
  IN /\ m.type = "allocate"
     /\ \/ ~Open(Allocator, m.s) /\ Refuse(m, "lost")
        \/ /\ Open(Allocator, m.s) /\ o.localClosed /\ o.chunk[m.i] = None
           /\ Refuse(m, "empty")
        \/ /\ Open(Allocator, m.s) /\ ~(o.localClosed /\ o.chunk[m.i] = None)
           /\ Free(h)
           /\ Obtain(h, c, net \ {m})

\* A repeated push is acknowledged, other bytes are refused.
RepeatHeld(o, i, x) == o.chunk[i] = x               \* mutant: `delivered` forgotten
Repeat(o, i, x) == o.chunk[i] = x \/ (o.chunk[i] = None /\ i \in o.delivered)
ConflictNever(o, i, x) == FALSE                     \* mutant
Conflict(o, i, x) == o.chunk[i] \notin {None, x}

\* Storing a chunk also drops the replicas of its keys from the 014 pool
\* (KeyPool), which may delay the answer and changes nothing here.
StoreChunk(m) ==
  LET k == m.to
      o == The(k, m.s)
  IN \/ ~Open(k, m.s) /\ Refuse(m, "lost")
     \/ Open(k, m.s) /\ Repeat(o, m.i, m.x) /\ Refuse(m, "ok")
     \/ Open(k, m.s) /\ Conflict(o, m.i, m.x) /\ Refuse(m, "conflict")
     \/ /\ Open(k, m.s) /\ ~Repeat(o, m.i, m.x) /\ ~Conflict(o, m.i, m.x)
        /\ SetStream(k, m.s, cur[k][m.s], [o EXCEPT !.chunk[m.i] = m.x])
        /\ stored' = [stored EXCEPT ![k] = @ \cup {m.x}]
        /\ Answer(m, "ok")
        /\ UNCHANGED <<cur, chunks, got, lives, faults>>

OnChunkLocked(m) ==   \* mutant: get_key holds a lock across its call to the peer
  /\ m.type = "chunk"
  /\ \A p \in App : Site[p] = m.to => call[p].pc # "allocate"
  /\ StoreChunk(m)

OnChunk(m) == m.type = "chunk" /\ StoreChunk(m)

OnClose(m) ==
  LET k == m.to
      o == [The(k, m.s) EXCEPT !.peerClosed = TRUE]
  IN /\ m.type = "close"
     /\ \/ ~Has(k, m.s) /\ Refuse(m, "lost")
        \/ /\ Has(k, m.s)
           /\ SetStream(k, m.s, cur[k][m.s],
                IF o.localClosed \/ ~o.localOpen THEN Closed(o) ELSE o)
           /\ Answer(m, "ok")
           /\ UNCHANGED <<cur, chunks, history, faults>>

-----------------------------------------------------------------------------
(* Time, faults and the next-state relation.                               *)

\* A failure of kind f happens.
Fault(f) == f \in Faults /\ faults < MaxFaults /\ faults' = faults + 1

\* sweep: a stream idle for its TTL closes, a chunk older than it is erased
\* (T18), a closed stream's record goes after max_ttl_s (T22), which is longer
\* than any call may take.
SweepStream(k, s) ==
  /\ Fault("ttl")
  /\ Open(k, s)
  /\ SetStream(k, s, cur[k][s], Closed(The(k, s)))
  /\ UNCHANGED <<cur, calls, chunks, history>>

SweepChunk(k, s, i) ==
  /\ Fault("ttl")
  /\ Open(k, s) /\ The(k, s).chunk[i] # None
  /\ SetStream(k, s, cur[k][s], [The(k, s) EXCEPT !.chunk[i] = None])
  /\ UNCHANGED <<cur, calls, chunks, history>>

SweepRecord(k, s) ==
  /\ Fault("ttl")
  /\ Has(k, s) /\ The(k, s).state = "CLOSED"
  /\ \A p \in Proc : ~Free(p) => ~(Site[p] = k /\ call[p].s = s /\ call[p].n = cur[k][s])
  /\ Remove(k, s)
  /\ UNCHANGED <<obj, calls, chunks, history>>

\* Requests whose caller is in P are lost, or served with nobody waiting.
Orphan(P) ==
  \E L \in SUBSET {m \in net : m.from \in P} :
    net' = {m \in net : m.from \notin P} \cup {[m EXCEPT !.from = Nobody] : m \in L}

\* p's call to the peer fails or times out.  The peer may still serve it.
PeerFails(p) ==
  /\ Fault("peer")
  /\ call[p].pc \in Awaits /\ reply[p] = "none"
  /\ reply' = [reply EXCEPT ![p] = "failed"]
  /\ call' = [q \in Proc |-> IF call[q].from = p THEN [call[q] EXCEPT !.from = Nobody]
                             ELSE call[q]]
  /\ Orphan({p})
  /\ UNCHANGED <<streams, chunks, history>>

\* The process of k ends and starts anew: streams, calls and chunks are gone.
Restart(k) ==
  LET P == {p \in Proc : Site[p] = k}
      callers == {call[p].from : p \in {q \in P : ~Free(q)}}
  IN /\ Fault("restart")
     /\ cur' = [cur EXCEPT ![k] = [s \in Ksid |-> None]]
     /\ call' = [p \in Proc |-> IF p \in P THEN Idle ELSE
                   IF call[p].from \in P THEN [call[p] EXCEPT !.from = Nobody] ELSE call[p]]
     /\ reply' = [p \in Proc |-> IF p \in P THEN "none" ELSE
                    IF p \in callers THEN "failed" ELSE reply[p]]
     /\ Orphan(P)
     /\ UNCHANGED <<obj, chunks, history>>

\* What an application may ask of process p.
Begin(p) ==
  \E s \in Ksid :
    \/ \E predefined \in BOOLEAN : OpenNew(p, s, predefined)
    \/ OpenJoin(p, s)
    \/ \E i \in Index : GetKey(p, s, i)
    \/ Close(p, s)

\* A call of p goes on.
Continue(p) ==
  \/ OpenRefused(p) \/ OpenAnnounced(p) \/ OpenJoined(p) \/ OpenTimeout(p)
  \/ OpenWithdrawn(p) \/ OpenConfirmed(p) \/ OpenNotConfirmed(p)
  \/ TakeLater(p) \/ ChunkStored(p) \/ ChunkRefused(p) \/ PeerLostStream(p)
  \/ Allocated(p) \/ NotAllocated(p) \/ CloseDone(p)

Serve(m) ==
  \/ OnAnnounce(m) \/ OnEstablish(m) \/ OnWithdraw(m) \/ OnChunk(m) \/ OnClose(m)
  \/ \E h \in Handler : OnAllocate(h, m)

Sweep == \E k \in Kme, s \in Ksid :
  SweepStream(k, s) \/ SweepRecord(k, s) \/ \E i \in Index : SweepChunk(k, s, i)

Next ==
  \/ \E p \in App : Begin(p)
  \/ \E p \in Proc : Continue(p) \/ PeerFails(p)
  \/ \E m \in net : Serve(m)
  \/ Sweep
  \/ \E k \in Kme : Restart(k)

Spec == Init /\ [][Next]_vars

\* The event loop resumes every call whose answer is there, whose lock is free
\* (LockReleased of KeyPool) or whose wait times out, and serves every request.
Fairness ==
  \A p \in Proc : /\ WF_vars(Continue(p))
                  /\ WF_vars(\E m \in net : m.from = p /\ Serve(m))

FairSpec == Spec /\ Fairness

-----------------------------------------------------------------------------
(* Properties.                                                             *)

\* "Both KMEs end up with the same bytes": what the two applications read at
\* one index of a stream is the same chunk (_obtain, on_chunk).
SameBytes ==
  \A s \in Ksid, i \in Index, k \in Kme :
    got[k][s][i] # None /\ got[Peer[k]][s][i] # None => got[k][s][i] = got[Peer[k]][s][i]

\* A Key_stream_ID that names one stream at each KME only.
UsedOnce(s) == \A k \in Kme : lives[k][s] <= 1

\* The engines keep the promise of KeyDelivery: whatever calls fail, are served
\* late or cross, and whatever expires, the two applications read the same bytes
\* of an id used once, each index at most once, and the allocator's never before
\* the peer stored them (_obtain, get_key's test of confirmed_at_peer, on_chunk).
Promise == INSTANCE KeyDelivery WITH
  Maker <- Allocator, Chunk <- Serial, held <- stored, read <- got, uses <- lives

KeepsPromise == Promise!Spec

\* "A chunk never changes": a Stream object never holds other bytes at an index
\* than it held (on_chunk's 409).
ChunkImmutable ==
  [][\A k \in Kme, s \in Ksid, n \in Object, i \in Index :
       LET x == obj[k][s][n].chunk[i]
           y == obj'[k][s][n].chunk[i]
       IN x # None => y \in {x, None}]_vars

\* "Each side reads a chunk once, then erases it": however many calls for an
\* index are in flight and however often its push is repeated, a stream never
\* again holds the chunk of an index it has delivered, which a second call would
\* read (get_key, on_chunk's test of `delivered`).
ReadOnce ==
  \A k \in Kme, s \in Ksid, n \in Object, i \in Index :
    i \in obj[k][s][n].delivered => obj[k][s][n].chunk[i] = None

\* No stream keeps a chunk once it is closed, whatever arrives later: a push, an
\* answer, a read (_to_closed, on_chunk's and get_key's tests).
ClosedHoldsNothing ==
  \A k \in Kme, s \in Ksid, n \in Object :
    obj[k][s][n].state = "CLOSED" => \A i \in Index : obj[k][s][n].chunk[i] = None

\* No KME loses its copy of a chunk: while no end of a stream has closed, an
\* index that was allocated and that k has not read is one k can still get, as k
\* holds the chunk, or the allocator does and will push it (the retry of a push
\* that failed, on_chunk's answer to a repeat), for an id used once.
Linked(s) == \A k \in Kme : Open(k, s) /\ ~The(k, s).localClosed
NothingLost ==
  \A s \in Ksid, i \in Index, k \in Kme :
    UsedOnce(s) /\ Linked(s) /\ i < The(Allocator, s).nextAlloc /\ i \notin The(k, s).delivered =>
      \/ The(k, s).chunk[i] # None
      \/ LET x == The(Allocator, s).chunk[i] IN x # None /\ x \notin confirmed

\* When both applications have closed a stream and no call is in flight, neither
\* KME waits for the other's close, whichever order the two closes took or
\* however they crossed (close, on_close; T16 and T17), when each application
\* makes one call at a time.
Settled(s) ==
  (\A p \in Proc : Free(p)) /\ net = {} /\ (\A k \in Kme : Has(k, s) /\ The(k, s).localClosed) =>
    \A k \in Kme : The(k, s).state # "CLOSING"
ClosedTogether == \A s \in Ksid : Settled(s)

\* "No lock is held across a call to the peer": without any failure, every call
\* returns, although the allocate handler calls back its caller.
CallsReturn == \A p \in App : ~Free(p) ~> Free(p)

=============================================================================
