-------------------------------- MODULE Km004 --------------------------------
(***************************************************************************)
(* The pair of key managers of ETSI GS QKD 004 that the page /protocol-lab *)
(* simulates: applications at the two sides open, read and close streams,  *)
(* and the relay puts one chunk at a time into both managers.  The age of  *)
(* a chunk is left out, and with it what the metadata say.                 *)
(***************************************************************************)
EXTENDS Naturals, FiniteSets, FiniteSetsExt

CONSTANTS
  None, Down,
  Ksid,       \* bound: the stream ids that newKsid gives
  Key,        \* keyChunkBytes
  Sizes, Asked,   \* the chunk sizes and the rates in bit/s that are asked for
  Rates,      \* bottleneck rates of the route
  MaxChunks   \* bound: chunks of one stream

Side == {"A", "B"}
Other(side) == CHOOSE x \in Side : x # side

VARIABLES
  streams,    \* of each id: a stream, or None
  used,       \* history: the ids that were given
  route,      \* Down, or its capacity: bps, or None
  counter,    \* the counter-proposal that was just answered, or None
  handed      \* history: the chunks each side was given, and how often

vars == <<streams, used, route, counter, handed>>

Chunk == [id : Ksid, index : 0 .. MaxChunks - 1]

TypeOK ==
  /\ streams \in [Ksid ->
       [state : {"PENDING_PEER", "ESTABLISHED", "CLOSING", "CLOSED"},
        opened : SUBSET Side, closed : SUBSET Side,
        chunks : 0 .. MaxChunks, delivered : [Side -> SUBSET (0 .. MaxChunks - 1)]]
       \cup {None}]
  /\ used \subseteq Ksid
  /\ route \in {Down, None} \cup Rates
  /\ handed \in [Side -> [Chunk -> Nat]]

Has(id) == streams[id] # None

-----------------------------------------------------------------------------
(* openConnect().                                                          *)

\* Math.round(size / Key) * Key, but at least one key.
Whole(size) == Max({Key, ((2 * size + Key) \div (2 * Key)) * Key})

\* What the manager would grant: whole keys, and no more than the route's rate.
Counter(qos, bps) ==
  [size |-> IF qos.size = 0 THEN Key
            ELSE IF qos.size % Key = 0 THEN qos.size ELSE Whole(qos.size),
   rate |-> IF bps # None /\ qos.rate > bps THEN bps ELSE qos.rate,
   json |-> TRUE]

\* Nothing that was asked for had to be changed; no size asks for one key.
Met(qos, bps) == Counter(qos, bps) = [qos EXCEPT !.size = IF @ = 0 THEN Key ELSE @]

\* A null Key_stream_ID, with a QoS that the route can carry.
OpenNew(side, qos) ==
  /\ route # Down /\ Met(qos, route)
  /\ \E id \in Ksid \ used :
       /\ used' = used \cup {id}
       /\ streams' = [streams EXCEPT ![id] =
            [state |-> "PENDING_PEER", opened |-> {side}, closed |-> {},
             chunks |-> 0, delivered |-> [x \in Side |-> {}]]]
  /\ counter' = None
  /\ UNCHANGED <<route, handed>>

\* QOS_NOT_MET.
Propose(qos) ==
  /\ route # Down /\ ~Met(qos, route)
  /\ counter' = Counter(qos, route)
  /\ UNCHANGED <<streams, used, route, handed>>

\* The other application of the same pair; KSID_IN_USE changes nothing.
Join(side, id) ==
  /\ Has(id)
  /\ streams[id].state # "CLOSED" /\ side \notin streams[id].opened
  /\ streams' = [streams EXCEPT ![id].opened = @ \cup {side}, ![id].state = "ESTABLISHED"]
  /\ counter' = None
  /\ UNCHANGED <<used, route, handed>>

-----------------------------------------------------------------------------
Supply(id) ==
  /\ Has(id) /\ streams[id].state = "ESTABLISHED" /\ streams[id].chunks < MaxChunks
  /\ streams' = [streams EXCEPT ![id].chunks = @ + 1]
  /\ counter' = None
  /\ UNCHANGED <<used, route, handed>>

\* undelivered().
Undelivered(side, id) == streams[id].chunks - Cardinality(streams[id].delivered[side])

\* Mutant: as many indices as were delivered.
NextCounted(side, id) == Cardinality(streams[id].delivered[side])

\* nextFor(): the first index that this side has not received.
NextFor(side, id) == Min(0 .. MaxChunks \ streams[id].delivered[side])

\* An index that has a chunk and was not delivered to this side.
Readable(side, id, index) ==
  index < streams[id].chunks /\ index \notin streams[id].delivered[side]

\* getKey() of an index, or of the next one; a small metadata buffer, a route
\* that is down and the other refusals consume nothing.
GetKey(side, id, index) ==
  /\ Has(id) /\ streams[id].state \notin {"CLOSED", "PENDING_PEER"} /\ route # Down
  /\ LET want == IF index = None THEN NextFor(side, id) ELSE index IN
       /\ Readable(side, id, want)
       /\ streams' = [streams EXCEPT ![id].delivered[side] = @ \cup {want}]
       /\ handed' = [handed EXCEPT ![side][[id |-> id, index |-> want]] = @ + 1]
  /\ counter' = None
  /\ UNCHANGED <<used, route>>

\* close(): the second side's close ends the stream and wipes its chunks.
Close(side, id) ==
  /\ Has(id) /\ streams[id].state # "CLOSED"
  /\ LET s == streams[id] IN
       streams' = [streams EXCEPT ![id] =
         IF Other(side) \in s.closed
         THEN [s EXCEPT !.closed = Side, !.state = "CLOSED", !.chunks = 0]
         ELSE [s EXCEPT !.closed = @ \cup {side}, !.state = "CLOSING"]]
  /\ counter' = None
  /\ UNCHANGED <<used, route, handed>>

\* clear(), when the page loads another network or leaves.
Clear ==
  /\ streams' = [id \in Ksid |-> None]
  /\ counter' = None
  /\ UNCHANGED <<used, route, handed>>

\* The route of the lab.
RouteChanges ==
  /\ route' \in {Down, None} \cup Rates
  /\ counter' = None
  /\ UNCHANGED <<streams, used, handed>>

QoS == [size : Sizes, rate : {0} \cup Asked, json : BOOLEAN]

Init ==
  /\ streams = [id \in Ksid |-> None] /\ used = {}
  /\ route = None /\ counter = None
  /\ handed = [side \in Side |-> [c \in Chunk |-> 0]]

Next ==
  \/ \E side \in Side, qos \in QoS : OpenNew(side, qos)
  \/ \E qos \in QoS : Propose(qos)
  \/ \E side \in Side, id \in Ksid : Join(side, id) \/ Close(side, id)
  \/ \E id \in Ksid : Supply(id)
  \/ \E side \in Side, id \in Ksid, index \in 0 .. MaxChunks - 1 \cup {None} :
       GetKey(side, id, index)
  \/ Clear \/ RouteChanges

Spec == Init /\ [][Next]_vars

-----------------------------------------------------------------------------
\* A side is given a chunk at most once, whatever mix of given and chosen
\* indices it asks for, and never from a stream that the other side did not
\* open (getKey).
GivenOnce ==
  \A side \in Side, c \in Chunk :
    /\ handed[side][c] <= 1
    /\ handed[side][c] = 1 /\ Has(c.id) => streams[c.id].opened = Side

\* A side that asks for no index gets a chunk as long as one is undelivered,
\* also when it read later ones first (nextFor).
NextIsReadable ==
  \A id \in Ksid, side \in Side :
    Has(id) /\ streams[id].state # "CLOSED" /\ Undelivered(side, id) > 0 =>
      Readable(side, id, NextFor(side, id))

\* A stream that both sides closed holds nothing and stays closed, also when
\* the peer joined it after the first close; any other stream is left open by
\* a side (close, openConnect).
ClosedByBoth ==
  \A id \in Ksid : Has(id) =>
    /\ (streams[id].state = "CLOSED") = (streams[id].closed = Side)
    /\ streams[id].state = "CLOSED" => streams[id].chunks = 0

\* A counter-proposal is granted when it is asked for at once.
CounterIsGranted == counter # None => Met(counter, route)

StreamsKeepKeys == GivenOnce /\ NextIsReadable /\ ClosedByBoth /\ CounterIsGranted

=============================================================================
